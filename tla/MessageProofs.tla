---------------------------- MODULE MessageProofs ----------------------------
(***************************************************************************)
(* What is put into a path or a body comes out of it again: proved of the  *)
(* modules Codec and Routing, for every value of the Go types, whatever    *)
(* texts, numbers and optional fields it has and however long a list is,   *)
(* and for every text that is a parameter.                                 *)
(*                                                                         *)
(* Codec: a decoder goes through the fields one after the other, which     *)
(* module FieldFold describes for any kind of object; each instance of it  *)
(* below is one kind.                                                      *)
(*                                                                         *)
(* Routing: Escape and Unescape go through a text token by token.  Both    *)
(* are given equations for the first token of a text, and what is proved   *)
(* of every text is proved by induction with these.                        *)
(***************************************************************************)
EXTENDS Routing, Codec, Induction

DownloadFields == INSTANCE FieldFold WITH DecodeField <- DownloadField

NothingRead == Ok(Undecoded(ZeroDownload))

LEMMA DownloadObject ==
  ASSUME NEW fields
  PROVE  ObjBytes(Object(fields), ZeroDownload, DownloadField) = DownloadFields!After(NothingRead, fields)
<1>1. Object(fields)[1] = "obj" /\ Object(fields)[2] = fields
  BY DEF Object
<1> QED BY <1>1, Zenon DEF ObjBytes, DownloadFields!After, DownloadFields!Results, DownloadFields!Follows,
                    DownloadFields!Then, Fail, NothingRead

\* After these fields the struct is s, and the required ones were seen.
Reached(fields, s, required) ==
  \E seen : required \subseteq seen /\ DownloadFields!After(NothingRead, fields) = Ok([s |-> s, seen |-> seen])

\* A field that is decoded to x.
LEMMA FieldStep ==
  ASSUME NEW T, NEW fields \in Seq(T), NEW s, NEW required, Reached(fields, s, required),
         NEW k, NEW v, <<k, v>> \in T, NEW x,
         \A seen : DownloadField([s |-> s, seen |-> seen], k, v)
                     = Ok([s |-> [s EXCEPT ![k] = x], seen |-> seen \union {k}])
  PROVE  /\ fields \o Field(k, v) \in Seq(T)
         /\ Reached(fields \o Field(k, v), [s EXCEPT ![k] = x], required \union {k})
<1>1. PICK seen : required \subseteq seen /\ DownloadFields!After(NothingRead, fields) = Ok([s |-> s, seen |-> seen])
  BY DEF Reached
<1>2. fields \o Field(k, v) = Append(fields, <<k, v>>) /\ Append(fields, <<k, v>>) \in Seq(T)
  BY AppendIsConcat DEF Field
<1>3. DownloadFields!After(NothingRead, Append(fields, <<k, v>>))
        = DownloadFields!Then(DownloadFields!After(NothingRead, fields), <<k, v>>)
  BY DownloadFields!AfterOneMore
<1>4. DownloadFields!After(NothingRead, fields \o Field(k, v)) = DownloadField([s |-> s, seen |-> seen], k, v)
  BY <1>1, <1>2, <1>3 DEF DownloadFields!Then, Ok
<1>5. required \union {k} \subseteq seen \union {k}
  BY <1>1
<1> QED BY <1>2, <1>4, <1>5 DEF Reached

LEMMA Assigned ==
  ASSUME NEW s, NEW seen, NEW k, NEW x
  PROVE  Assign([s |-> s, seen |-> seen], k, Ok(x)) = Ok([s |-> [s EXCEPT ![k] = x], seen |-> seen \union {k}])
BY DEF Assign, Ok

LEMMA TextDecoded ==
  ASSUME NEW x
  PROVE  DecodeStr(Str(x)) = Ok(x) /\ (x \in DateTimes => DecodeDateTime(Str(x)) = Ok(x))
BY DEF DecodeStr, DecodeDateTime, Str

LEMMA OptDecoded ==
  ASSUME NEW x
  PROVE  /\ DecodeOptString(Str(x)) = Ok(NewOpt(x))
         /\ x \in DateTimes => DecodeOptDateTime(Str(x)) = Ok(NewOpt(x))
<1>1. Ok(x).ok /\ Ok(x).value = x
  BY DEF Ok
<1> QED BY <1>1, TextDecoded DEF DecodeOptString, DecodeOptDateTime

LEMMA TextStep ==
  ASSUME NEW T, NEW fields \in Seq(T), NEW s, NEW required, Reached(fields, s, required),
         NEW k \in {"id", "url", "status", "createdAt"}, NEW x, <<k, Str(x)>> \in T,
         k = "createdAt" => x \in DateTimes
  PROVE  /\ fields \o Field(k, Str(x)) \in Seq(T)
         /\ Reached(fields \o Field(k, Str(x)), [s EXCEPT ![k] = x], required \union {k})
<1>1. ASSUME NEW seen
      PROVE  DownloadField([s |-> s, seen |-> seen], k, Str(x))
               = Ok([s |-> [s EXCEPT ![k] = x], seen |-> seen \union {k}])
  <2> DEFINE state == [s |-> s, seen |-> seen]
             v == Str(x)
  <2>1. DecodeStr(v) = Ok(x) /\ (x \in DateTimes => DecodeDateTime(v) = Ok(x))
    BY TextDecoded
  <2>2. Assign(state, k, Ok(x)) = Ok([s |-> [s EXCEPT ![k] = x], seen |-> seen \union {k}])
    BY DEF Assign, Ok
  <2> HIDE DEF state, v
  <2>3. DownloadField(state, k, v) = Assign(state, k, Ok(x))
    BY <2>1 DEF DownloadField, DecodeDownloadStatus
  <2> QED BY <2>2, <2>3 DEF state, v
<1> QED BY <1>1, FieldStep

LEMMA NumberStep ==
  ASSUME NEW T, NEW fields \in Seq(T), NEW s, NEW required, Reached(fields, s, required),
         NEW n \in Int32, <<"progress", <<"int", n>> >> \in T
  PROVE  /\ fields \o Field("progress", <<"int", n>>) \in Seq(T)
         /\ Reached(fields \o Field("progress", <<"int", n>>), [s EXCEPT !["progress"] = n],
                    required \union {"progress"})
<1>1. DecodeInt32(<<"int", n>>) = Ok(n)
  BY DEF DecodeInt32
<1>2. ASSUME NEW seen
      PROVE  DownloadField([s |-> s, seen |-> seen], "progress", <<"int", n>>)
               = Ok([s |-> [s EXCEPT !["progress"] = n], seen |-> seen \union {"progress"}])
  <2> DEFINE state == [s |-> s, seen |-> seen]
             v == <<"int", n>>
  <2>1. Assign(state, "progress", Ok(n)) = Ok([s |-> [s EXCEPT !["progress"] = n], seen |-> seen \union {"progress"}])
    BY DEF Assign, Ok
  <2> HIDE DEF state, v
  <2>2. DownloadField(state, "progress", v) = Assign(state, "progress", Ok(n))
    BY <1>1 DEF DownloadField, v
  <2> QED BY <2>1, <2>2 DEF state, v
<1> QED BY <1>2, FieldStep

\* A field that is left out if it is not set.
LEMMA OptStep ==
  ASSUME NEW T, NEW fields \in Seq(T), NEW s, NEW required, Reached(fields, s, required),
         NEW k \in {"title", "filename", "error", "completedAt"}, NEW o, IsOpt(o),
         k = "completedAt" => IsOptDateTime(o), <<k, Str(o.Value)>> \in T,
         k \in DOMAIN s, s[k] = Unset, s = [y \in DOMAIN s |-> s[y]]
  PROVE  /\ fields \o OptField(k, o) \in Seq(T)
         /\ Reached(fields \o OptField(k, o), [s EXCEPT ![k] = o], required)
<1>1. CASE o.Set
  <2>1. PICK x : /\ OptField(k, o) = Field(k, Str(x))
                 /\ <<k, Str(x)>> \in T
                 /\ o = NewOpt(x)
                 /\ k = "completedAt" => x \in DateTimes
    BY <1>1 DEF OptField, IsOpt, NewOpt, IsOptDateTime
  <2>2. ASSUME NEW seen
        PROVE  DownloadField([s |-> s, seen |-> seen], k, Str(x))
                 = Ok([s |-> [s EXCEPT ![k] = o], seen |-> seen \union {k}])
    BY <2>1, Assigned, OptDecoded DEF DownloadField
  <2>3. /\ fields \o Field(k, Str(x)) \in Seq(T)
        /\ Reached(fields \o Field(k, Str(x)), [s EXCEPT ![k] = o], required \union {k})
    BY <2>1, <2>2, FieldStep
  <2> QED BY <2>1, <2>3 DEF Reached
<1>2. CASE ~o.Set
  <2>1. OptField(k, o) = <<>> /\ o = Unset
    BY <1>2 DEF OptField, IsOpt
  <2>2. fields \o <<>> = fields
    BY ConcatEmptySeq
  <2>3. [s EXCEPT ![k] = o] = s
    BY <2>1
  <2> QED BY <2>1, <2>2, <2>3
<1> QED BY <1>1, <1>2 DEF IsOpt

\* A download with any texts, with each optional field set or not, comes back as
\* it was: the fields left out are the ones that keep their zero value.
\* (oas_json_gen.go:209-424)
THEOREM DownloadRoundTrip ==
  ASSUME NEW d, IsDownload(d)
  PROVE  DecodeDownload(EncodeDownload(d)) = Ok(d)
<1> DEFINE T == {<<"id", Str(d.id)>>, <<"url", Str(d.url)>>, <<"title", Str(d.title.Value)>>,
                 <<"status", Str(d.status)>>, <<"progress", <<"int", d.progress>> >>,
                 <<"filename", Str(d.filename.Value)>>, <<"error", Str(d.error.Value)>>,
                 <<"createdAt", Str(d.createdAt)>>, <<"completedAt", Str(d.completedAt.Value)>>}
           f0 == <<>>
           f1 == f0 \o Field("id", Str(d.id))
           f2 == f1 \o Field("url", Str(d.url))
           f3 == f2 \o OptField("title", d.title)
           f4 == f3 \o Field("status", Str(d.status))
           f5 == f4 \o Field("progress", <<"int", d.progress>>)
           f6 == f5 \o OptField("filename", d.filename)
           f7 == f6 \o OptField("error", d.error)
           f8 == f7 \o Field("createdAt", Str(d.createdAt))
           f9 == f8 \o OptField("completedAt", d.completedAt)
           s0 == ZeroDownload
           s1 == [s0 EXCEPT !["id"] = d.id]
           s2 == [s1 EXCEPT !["url"] = d.url]
           s3 == [s2 EXCEPT !["title"] = d.title]
           s4 == [s3 EXCEPT !["status"] = d.status]
           s5 == [s4 EXCEPT !["progress"] = d.progress]
           s6 == [s5 EXCEPT !["filename"] = d.filename]
           s7 == [s6 EXCEPT !["error"] = d.error]
           s8 == [s7 EXCEPT !["createdAt"] = d.createdAt]
           s9 == [s8 EXCEPT !["completedAt"] = d.completedAt]
<1>1. /\ IsOpt(d.title) /\ IsOpt(d.filename) /\ IsOpt(d.error) /\ IsOpt(d.completedAt)
      /\ IsOptDateTime(d.completedAt)
      /\ d.progress \in Int32 /\ d.createdAt \in DateTimes
  BY DEF IsDownload, IsOptDateTime
<1>2. /\ <<"id", Str(d.id)>> \in T
      /\ <<"url", Str(d.url)>> \in T
      /\ <<"title", Str(d.title.Value)>> \in T
      /\ <<"status", Str(d.status)>> \in T
      /\ <<"progress", <<"int", d.progress>> >> \in T
      /\ <<"filename", Str(d.filename.Value)>> \in T
      /\ <<"error", Str(d.error.Value)>> \in T
      /\ <<"createdAt", Str(d.createdAt)>> \in T
      /\ <<"completedAt", Str(d.completedAt.Value)>> \in T
  OBVIOUS
<1>3. /\ s2["title"] = Unset /\ "title" \in DOMAIN s2 /\ s2 = [x \in DOMAIN s2 |-> s2[x]]
      /\ s5["filename"] = Unset /\ "filename" \in DOMAIN s5 /\ s5 = [x \in DOMAIN s5 |-> s5[x]]
      /\ s6["error"] = Unset /\ "error" \in DOMAIN s6 /\ s6 = [x \in DOMAIN s6 |-> s6[x]]
      /\ s8["completedAt"] = Unset /\ "completedAt" \in DOMAIN s8 /\ s8 = [x \in DOMAIN s8 |-> s8[x]]
  BY DEF ZeroDownload
<1>4. s9 = d
  BY DEF ZeroDownload, IsDownload
<1>5. EncodeDownload(d) = Object(f9)
  BY DEF EncodeDownload, Field
<1>6. f0 \in Seq(T) /\ Reached(f0, s0, {})
  <2>1. f0 \in Seq(T)
    OBVIOUS
  <2>2. DownloadFields!After(NothingRead, f0) = NothingRead
    BY DownloadFields!AfterNone
  <2> QED BY <2>1, <2>2 DEF NothingRead, Undecoded, Reached
<1> HIDE DEF T, f0, s0
<1>7. f1 \in Seq(T) /\ Reached(f1, s1, {} \union {"id"})
  BY <1>6, <1>1, <1>2, <1>3, TextStep
<1> HIDE DEF f1, s1
<1>8. f2 \in Seq(T) /\ Reached(f2, s2, {} \union {"id"} \union {"url"})
  BY <1>7, <1>1, <1>2, <1>3, TextStep
<1> HIDE DEF f2, s2
<1>9. f3 \in Seq(T) /\ Reached(f3, s3, {} \union {"id"} \union {"url"})
  BY <1>8, <1>1, <1>2, <1>3, OptStep
<1> HIDE DEF f3, s3
<1>10. f4 \in Seq(T) /\ Reached(f4, s4, {} \union {"id"} \union {"url"} \union {"status"})
  BY <1>9, <1>1, <1>2, <1>3, TextStep
<1> HIDE DEF f4, s4
<1>11. f5 \in Seq(T) /\ Reached(f5, s5, {} \union {"id"} \union {"url"} \union {"status"} \union {"progress"})
  BY <1>10, <1>1, <1>2, <1>3, NumberStep
<1> HIDE DEF f5, s5
<1>12. f6 \in Seq(T) /\ Reached(f6, s6, {} \union {"id"} \union {"url"} \union {"status"} \union {"progress"})
  BY <1>11, <1>1, <1>2, <1>3, OptStep
<1> HIDE DEF f6, s6
<1>13. f7 \in Seq(T) /\ Reached(f7, s7, {} \union {"id"} \union {"url"} \union {"status"} \union {"progress"})
  BY <1>12, <1>1, <1>2, <1>3, OptStep
<1> HIDE DEF f7, s7
<1>14. f8 \in Seq(T) /\ Reached(f8, s8,
                               
                                {} \union {"id"} \union {"url"} \union {"status"} \union {"progress"} \union {"createdAt"})
  BY <1>13, <1>1, <1>2, <1>3, TextStep
<1> HIDE DEF f8, s8
<1>15. f9 \in Seq(T) /\ Reached(f9, s9,
                               
                                {} \union {"id"} \union {"url"} \union {"status"} \union {"progress"} \union {"createdAt"})
  BY <1>14, <1>1, <1>2, <1>3, OptStep
<1> HIDE DEF f9, s9
<1>16. PICK seen : /\ {"id", "url", "status", "progress", "createdAt"} \subseteq seen
                   /\ DownloadFields!After(NothingRead, f9) = Ok([s |-> d, seen |-> seen])
  BY <1>15, <1>4 DEF Reached
<1>17. ObjBytes(EncodeDownload(d), ZeroDownload, DownloadField) = Ok([s |-> d, seen |-> seen])
  BY <1>16, <1>5, DownloadObject
<1>18. DecodeDownload(EncodeDownload(d))
         = Require({"id", "url", "status", "progress", "createdAt"}, Ok([s |-> d, seen |-> seen]))
  BY <1>17, Zenon DEF DecodeDownload
<1> QED BY <1>16, <1>18 DEF Require, Ok

-----------------------------------------------------------------------------
(* The objects with a single field.                                        *)

SingleFields == INSTANCE FieldFold WITH DecodeField <- SingleField

LEMMA SingleObject ==
  ASSUME NEW fields, NEW s
  PROVE  ObjBytes(Object(fields), s, SingleField) = SingleFields!After(Ok(Undecoded(s)), fields)
<1>1. Object(fields)[1] = "obj" /\ Object(fields)[2] = fields
  BY DEF Object
<1> QED BY <1>1, Zenon DEF ObjBytes, SingleFields!After, SingleFields!Results, SingleFields!Follows,
                    SingleFields!Then, Fail

LEMMA SingleRoundTrip ==
  ASSUME NEW key, NEW x
  PROVE  DecodeSingle(key, Object(Field(key, Str(x)))) = Ok([k \in {key} |-> x])
<1> DEFINE zero == [k \in {key} |-> ""]
           T == {<<key, Str(x)>>}
           first == Ok(Undecoded(zero))
           one == Ok([s |-> [k \in {key} |-> x], seen |-> {key}])
<1>1. <<>> \in Seq(T) /\ Append(<<>>, <<key, Str(x)>>) = Field(key, Str(x))
  BY DEF Field
<1>2. SingleFields!After(first, Field(key, Str(x)))
        = SingleFields!Then(SingleFields!After(first, <<>>), <<key, Str(x)>>)
  BY <1>1, SingleFields!AfterOneMore
<1>3. SingleFields!After(first, <<>>) = first
  BY SingleFields!AfterNone
<1>4. SingleFields!Then(first, <<key, Str(x)>>) = SingleField(Undecoded(zero), key, Str(x))
  BY DEF SingleFields!Then, Ok
<1>5. SingleField(Undecoded(zero), key, Str(x)) = one
  <2>1. key \in DOMAIN Undecoded(zero).s
    BY DEF Undecoded
  <2>2. Assign(Undecoded(zero), key, Ok(x)) = one
    BY DEF Assign, Undecoded, Ok
  <2> QED BY <2>1, <2>2, TextDecoded DEF SingleField
<1>6. ObjBytes(Object(Field(key, Str(x))), zero, SingleField) = one
  BY <1>2, <1>3, <1>4, <1>5, SingleObject
<1>7. DecodeSingle(key, Object(Field(key, Str(x)))) = Require({key}, one)
  BY <1>6, Zenon DEF DecodeSingle
<1> QED BY <1>7 DEF Require, Ok

-----------------------------------------------------------------------------
(* The list of downloads.                                                  *)

ListFields == INSTANCE FieldFold WITH DecodeField <- DownloadsField

LEMMA ListObject ==
  ASSUME NEW fields, NEW s
  PROVE  ObjBytes(Object(fields), s, DownloadsField) = ListFields!After(Ok(Undecoded(s)), fields)
<1>1. Object(fields)[1] = "obj" /\ Object(fields)[2] = fields
  BY DEF Object
<1> QED BY <1>1, Zenon DEF ObjBytes, ListFields!After, ListFields!Results, ListFields!Follows,
                    ListFields!Then, Fail

LEMMA ArrayRoundTrip ==
  ASSUME NEW l, l = [i \in DOMAIN l |-> l[i]], \A i \in DOMAIN l : IsDownload(l[i])
  PROVE  DecodeDownloads(<<"arr", [i \in DOMAIN l |-> EncodeDownload(l[i])]>>) = Ok(l)
<1> DEFINE e == [i \in DOMAIN l |-> EncodeDownload(l[i])]
           v == <<"arr", e>>
<1>1. v[1] = "arr" /\ v[2] = e
  OBVIOUS
<1>2. DOMAIN e = DOMAIN l /\ \A i \in DOMAIN l : e[i] = EncodeDownload(l[i])
  OBVIOUS
<1> HIDE DEF e, v
<1>3. \A i \in DOMAIN l : DecodeDownload(e[i]) = Ok(l[i])
  BY <1>2, DownloadRoundTrip
<1>4. \A x : Ok(x).ok /\ Ok(x).value = x
  BY DEF Ok
<1>5. [i \in DOMAIN e |-> DecodeDownload(e[i]).value] = l
  BY <1>2, <1>3, <1>4
<1>6. DecodeDownloads(v) = Ok(l)
  BY <1>1, <1>2, <1>3, <1>4, <1>5 DEF DecodeDownloads
<1> QED BY <1>6 DEF v, e

\* So does a list of them, however long.  (oas_json_gen.go:440-519)
THEOREM ListRoundTrip ==
  ASSUME NEW l, l = [i \in DOMAIN l |-> l[i]], \A i \in DOMAIN l : IsDownload(l[i])
  PROVE  DecodeDownloadListResponse(EncodeDownloadListResponse([downloads |-> l])) = Ok([downloads |-> l])
<1> DEFINE v == <<"arr", [i \in DOMAIN l |-> EncodeDownload(l[i])]>>
           zero == [downloads |-> <<>>]
           T == {<<"downloads", v>>}
           first == Ok(Undecoded(zero))
           one == Ok([s |-> [downloads |-> l], seen |-> {"downloads"}])
<1>1. EncodeDownloadListResponse([downloads |-> l]) = Object(Field("downloads", v))
  BY DEF EncodeDownloadListResponse
<1>2. DecodeDownloads(v) = Ok(l)
  BY ArrayRoundTrip
<1> HIDE DEF v
<1>3. <<>> \in Seq(T) /\ Append(<<>>, <<"downloads", v>>) = Field("downloads", v)
  BY DEF Field
<1>4. ListFields!After(first, Field("downloads", v))
        = ListFields!Then(ListFields!After(first, <<>>), <<"downloads", v>>)
  BY <1>3, ListFields!AfterOneMore
<1>5. ListFields!After(first, <<>>) = first
  BY ListFields!AfterNone
<1>6. ListFields!Then(first, <<"downloads", v>>) = DownloadsField(Undecoded(zero), "downloads", v)
  BY DEF ListFields!Then, Ok
<1>7. DownloadsField(Undecoded(zero), "downloads", v) = one
  <2>1. Assign(Undecoded(zero), "downloads", Ok(l)) = one
    BY DEF Assign, Undecoded, Ok
  <2> QED BY <1>2, <2>1 DEF DownloadsField
<1>8. ObjBytes(Object(Field("downloads", v)), zero, DownloadsField) = one
  BY <1>4, <1>5, <1>6, <1>7, ListObject
<1>9. DecodeDownloadListResponse(Object(Field("downloads", v))) = Require({"downloads"}, one)
  BY <1>8, Zenon DEF DecodeDownloadListResponse
<1> QED BY <1>1, <1>9 DEF Require, Ok

-----------------------------------------------------------------------------
(* Bodies.                                                                 *)

LEMMA FieldsDecoded ==
  ASSUME NEW x
  PROVE  /\ Ok(x).ok /\ Ok(x).value = x
         /\ \A goType : Typed(goType, Ok(x)) = Ok(Response(goType, x))
BY DEF Ok, Typed

LEMMA WrittenBody ==
  ASSUME NEW status, NEW v
  PROVE  LET message == Written(status, v)
         IN /\ message.type = JSON /\ Len(message.body) = 1 /\ message.body[1] = v
            /\ message.status = status
BY DEF Written

LEMMA DownloadBody ==
  ASSUME NEW status, NEW d, IsDownload(d)
  PROVE  DecodeBody(Written(status, EncodeDownload(d)), DecodeDownload, ValidDownload) = Ok(d)
<1> DEFINE message == Written(status, EncodeDownload(d))
<1>1. ValidDownload(d)
  BY DEF ValidDownload, ValidStatus, IsDownload
<1>2. message.type = JSON /\ Len(message.body) = 1 /\ message.body[1] = EncodeDownload(d)
  BY WrittenBody
<1>3. Ok(d).ok /\ Ok(d).value = d
  BY FieldsDecoded
<1> HIDE DEF message
<1>4. DecodeDownload(message.body[1]) = Ok(d)
  BY <1>2, DownloadRoundTrip
<1>5. DecodeBody(message, DecodeDownload, ValidDownload) = Ok(d)
  BY <1>1, <1>2, <1>3, <1>4, Zenon DEF DecodeBody
<1> QED BY <1>5 DEF message

LEMMA ListBody ==
  ASSUME NEW status, NEW l, l = [i \in DOMAIN l |-> l[i]], \A i \in DOMAIN l : IsDownload(l[i])
  PROVE  DecodeBody(Written(status, EncodeDownloadListResponse([downloads |-> l])),
                    DecodeDownloadListResponse, ValidDownloadList) = Ok([downloads |-> l])
<1> DEFINE all == [downloads |-> l]
           message == Written(status, EncodeDownloadListResponse(all))
<1>1. ValidDownloadList(all)
  BY DEF ValidDownloadList, ValidDownload, ValidStatus, IsDownload
<1>2. message.type = JSON /\ Len(message.body) = 1 /\ message.body[1] = EncodeDownloadListResponse(all)
  BY WrittenBody
<1>3. Ok(all).ok /\ Ok(all).value = all
  BY FieldsDecoded
<1>4. DecodeDownloadListResponse(EncodeDownloadListResponse(all)) = Ok(all)
  BY ListRoundTrip
<1> HIDE DEF message, all
<1>5. DecodeDownloadListResponse(message.body[1]) = Ok(all)
  BY <1>2, <1>4
<1>6. DecodeBody(message, DecodeDownloadListResponse, ValidDownloadList) = Ok(all)
  BY <1>1, <1>2, <1>3, <1>5, Zenon DEF DecodeBody
<1> QED BY <1>6 DEF message, all

\* The objects with a single field.
LEMMA SingleRoundTrips ==
  ASSUME NEW x
  PROVE  /\ DecodeChannelInfoResponse(EncodeChannelInfoResponse([name |-> x])) = Ok([name |-> x])
         /\ DecodeCreateDownloadRequest(EncodeCreateDownloadRequest([url |-> x])) = Ok([url |-> x])
         /\ DecodeErrorResponse(EncodeErrorResponse([message |-> x])) = Ok([message |-> x])
         /\ DecodeHealthResponse(EncodeHealthResponse([status |-> x])) = Ok([status |-> x])
<1>1. \A key : DecodeSingle(key, Object(Field(key, Str(x)))) = Ok([k \in {key} |-> x])
  BY SingleRoundTrip
<1>2. /\ [k \in {"name"} |-> x] = [name |-> x] /\ [k \in {"url"} |-> x] = [url |-> x]
      /\ [k \in {"message"} |-> x] = [message |-> x] /\ [k \in {"status"} |-> x] = [status |-> x]
  OBVIOUS
<1> QED BY <1>1, <1>2 DEF DecodeChannelInfoResponse, EncodeChannelInfoResponse, DecodeCreateDownloadRequest,
                          EncodeCreateDownloadRequest, DecodeErrorResponse, EncodeErrorResponse,
                          DecodeHealthResponse, EncodeHealthResponse

LEMMA NotValidated == \A s : Unvalidated(s)
BY DEF Unvalidated

LEMMA ChannelBody ==
  ASSUME NEW status, NEW x
  PROVE  DecodeBody(Written(status, EncodeChannelInfoResponse([name |-> x])), DecodeChannelInfoResponse, Unvalidated)
           = Ok([name |-> x])
<1> DEFINE s == [name |-> x]
           message == Written(status, EncodeChannelInfoResponse(s))
<1>1. message.type = JSON /\ Len(message.body) = 1 /\ message.body[1] = EncodeChannelInfoResponse(s)
  BY WrittenBody
<1>2. Ok(s).ok /\ Ok(s).value = s
  BY FieldsDecoded
<1>3. DecodeChannelInfoResponse(EncodeChannelInfoResponse(s)) = Ok(s)
  BY SingleRoundTrips
<1> HIDE DEF message, s
<1>4. DecodeChannelInfoResponse(message.body[1]) = Ok(s)
  BY <1>1, <1>3
<1>5. DecodeBody(message, DecodeChannelInfoResponse, Unvalidated) = Ok(s)
  BY <1>1, <1>2, <1>4, NotValidated, Zenon DEF DecodeBody
<1> QED BY <1>5 DEF message, s

LEMMA ErrorBody ==
  ASSUME NEW status, NEW x
  PROVE  DecodeBody(Written(status, EncodeErrorResponse([message |-> x])), DecodeErrorResponse, Unvalidated)
           = Ok([message |-> x])
<1> DEFINE s == [message |-> x]
           message == Written(status, EncodeErrorResponse(s))
<1>1. message.type = JSON /\ Len(message.body) = 1 /\ message.body[1] = EncodeErrorResponse(s)
  BY WrittenBody
<1>2. Ok(s).ok /\ Ok(s).value = s
  BY FieldsDecoded
<1>3. DecodeErrorResponse(EncodeErrorResponse(s)) = Ok(s)
  BY SingleRoundTrips
<1> HIDE DEF message, s
<1>4. DecodeErrorResponse(message.body[1]) = Ok(s)
  BY <1>1, <1>3
<1>5. DecodeBody(message, DecodeErrorResponse, Unvalidated) = Ok(s)
  BY <1>1, <1>2, <1>4, NotValidated, Zenon DEF DecodeBody
<1> QED BY <1>5 DEF message, s

LEMMA HealthBody ==
  ASSUME NEW status, NEW x
  PROVE  DecodeBody(Written(status, EncodeHealthResponse([status |-> x])), DecodeHealthResponse, Unvalidated)
           = Ok([status |-> x])
<1> DEFINE s == [status |-> x]
           message == Written(status, EncodeHealthResponse(s))
<1>1. message.type = JSON /\ Len(message.body) = 1 /\ message.body[1] = EncodeHealthResponse(s)
  BY WrittenBody
<1>2. Ok(s).ok /\ Ok(s).value = s
  BY FieldsDecoded
<1>3. DecodeHealthResponse(EncodeHealthResponse(s)) = Ok(s)
  BY SingleRoundTrips
<1> HIDE DEF message, s
<1>4. DecodeHealthResponse(message.body[1]) = Ok(s)
  BY <1>1, <1>3
<1>5. DecodeBody(message, DecodeHealthResponse, Unvalidated) = Ok(s)
  BY <1>1, <1>2, <1>4, NotValidated, Zenon DEF DecodeBody
<1> QED BY <1>5 DEF message, s

\* The body of a request is read as it was written.
\* (oas_request_encoders_gen.go:14-31, oas_request_decoders_gen.go:18-85)
THEOREM RequestRoundTrip ==
  ASSUME NEW x
  PROVE  decodeCreateDownloadRequest(encodeCreateDownloadRequest([url |-> x])) = Ok([url |-> x])
<1> DEFINE s == [url |-> x]
           message == encodeCreateDownloadRequest(s)
<1>1. message.type = JSON /\ Len(message.body) = 1 /\ message.body[1] = EncodeCreateDownloadRequest(s)
  BY DEF encodeCreateDownloadRequest
<1>2. Ok(s).ok /\ Ok(s).value = s
  BY FieldsDecoded
<1>3. DecodeCreateDownloadRequest(EncodeCreateDownloadRequest(s)) = Ok(s)
  BY SingleRoundTrips
<1> HIDE DEF message, s
<1>4. DecodeCreateDownloadRequest(message.body[1]) = Ok(s)
  BY <1>1, <1>3
<1>5. DecodeBody(message, DecodeCreateDownloadRequest, Unvalidated) = Ok(s)
  BY <1>1, <1>2, <1>4, NotValidated, Zenon DEF DecodeBody
<1>6. decodeCreateDownloadRequest(message) = Ok(s)
  BY <1>5, Zenon DEF decodeCreateDownloadRequest
<1> QED BY <1>6 DEF message, s

\* An error response is written with its status and its message, and read again.
LEMMA ErrorReply ==
  ASSUME NEW code, NEW text, code \in 400..599
  PROVE  /\ encodeError(ErrorStatus(code, text)) = Written(code, EncodeErrorResponse([message |-> text]))
         /\ decodeError(Written(code, EncodeErrorResponse([message |-> text]))) = Ok(ErrorStatus(code, text))
<1> DEFINE s == [message |-> text]
           reply == Written(code, EncodeErrorResponse(s))
           e == [StatusCode |-> code, Response |-> s]
<1>1. encodeError(ErrorStatus(code, text)) = reply
  BY DEF encodeError, ErrorStatus, Response
<1>2. DecodeBody(reply, DecodeErrorResponse, Unvalidated) = Ok(s)
  BY ErrorBody
<1>3. reply.status = code
  BY WrittenBody
<1>4. Ok(s).ok /\ Ok(s).value = s
  BY FieldsDecoded
<1>5. ErrorStatus(code, text) = Response("ErrorResponseStatusCode", e)
  BY DEF ErrorStatus
<1> HIDE DEF reply
<1>6. decodeError(reply) = Ok(Response("ErrorResponseStatusCode", e))
  <2> HIDE DEF s
  <2> QED BY <1>2, <1>3, <1>4, Zenon DEF decodeError
<1> QED BY <1>1, <1>5, <1>6 DEF reply

LEMMA ErrorComesBack ==
  ASSUME NEW op \in {"getChannelInfo", "listDownloads", "createDownload", "getDownload"},
         NEW r, IsErrorStatus(r)
  PROVE  DecodeResponse(op, EncodeResponse(op, r)) = Ok(r)
<1> DEFINE code == r.value.StatusCode
           text == r.value.Response.message
           reply == Written(code, EncodeErrorResponse([message |-> text]))
<1>1. code \in 400..599 /\ r = ErrorStatus(code, text)
  BY Zenon DEF IsErrorStatus
<1>2. reply.status = code
  BY WrittenBody
<1> HIDE DEF code, text
<1>3. encodeError(r) = reply /\ decodeError(reply) = Ok(r)
  BY <1>1, ErrorReply
<1>4. IsError(r)
  BY <1>1 DEF IsError, ErrorStatus, Response
<1>5. code # 200 /\ code # 202
  BY <1>1
<1> HIDE DEF reply
<1>6. EncodeResponse(op, r) = reply
  BY <1>3, <1>4 DEF EncodeResponse, encodeGetChannelInfoResponse, encodeListDownloadsResponse,
                    encodeCreateDownloadResponse, encodeGetDownloadResponse
<1>7. DecodeResponse(op, reply) = decodeError(reply)
  <2>1. reply.status # 200 /\ reply.status # 202
    BY <1>2, <1>5
  <2>2. /\ decodeGetChannelInfoResponse(reply) = decodeError(reply)
        /\ decodeListDownloadsResponse(reply) = decodeError(reply)
        /\ decodeCreateDownloadResponse(reply) = decodeError(reply)
        /\ decodeGetDownloadResponse(reply) = decodeError(reply)
    BY <2>1, Zenon DEF decodeGetChannelInfoResponse, decodeListDownloadsResponse,
                       decodeCreateDownloadResponse, decodeGetDownloadResponse
  <2> QED BY <2>2 DEF DecodeResponse
<1> QED BY <1>3, <1>6, <1>7

LEMMA DownloadComesBack ==
  ASSUME NEW op \in {"createDownload", "getDownload"}, NEW d, IsDownload(d)
  PROVE  DecodeResponse(op, EncodeResponse(op, Response("Download", d))) = Ok(Response("Download", d))
<1> DEFINE r == Response("Download", d)
           reply(status) == Written(status, EncodeDownload(d))
<1>1. \A status : DecodeBody(reply(status), DecodeDownload, ValidDownload) = Ok(d) /\ reply(status).status = status
  BY DownloadBody, WrittenBody
<1>2. EncodeResponse(op, r) = reply(IF op = "createDownload" THEN 202 ELSE 200)
  BY DEF EncodeResponse, encodeCreateDownloadResponse, encodeGetDownloadResponse, IsError, Response
<1>3. Typed("Download", Ok(d)) = Ok(r)
  BY FieldsDecoded
<1> HIDE DEF r, reply
<1>4. decodeCreateDownloadResponse(reply(202)) = Ok(r)
  BY <1>1, <1>3, Zenon DEF decodeCreateDownloadResponse
<1>5. decodeGetDownloadResponse(reply(200)) = Ok(r)
  BY <1>1, <1>3, Zenon DEF decodeGetDownloadResponse
<1>6. DecodeResponse(op, EncodeResponse(op, r)) = Ok(r)
  BY <1>2, <1>4, <1>5 DEF DecodeResponse
<1> QED BY <1>6 DEF r

LEMMA ListComesBack ==
  ASSUME NEW l, l = [i \in DOMAIN l |-> l[i]], \A i \in DOMAIN l : IsDownload(l[i])
  PROVE  LET r == Response("DownloadListResponse", [downloads |-> l])
         IN DecodeResponse("listDownloads", EncodeResponse("listDownloads", r)) = Ok(r)
<1> DEFINE all == [downloads |-> l]
           r == Response("DownloadListResponse", all)
           reply == Written(200, EncodeDownloadListResponse(all))
<1>1. DecodeBody(reply, DecodeDownloadListResponse, ValidDownloadList) = Ok(all) /\ reply.status = 200
  BY ListBody, WrittenBody
<1>2. EncodeResponse("listDownloads", r) = reply
  BY DEF EncodeResponse, encodeListDownloadsResponse, IsError, Response
<1>3. Typed("DownloadListResponse", Ok(all)) = Ok(r)
  BY FieldsDecoded
<1> HIDE DEF r, reply, all
<1>4. decodeListDownloadsResponse(reply) = Ok(r)
  BY <1>1, <1>3, Zenon DEF decodeListDownloadsResponse
<1>5. DecodeResponse("listDownloads", EncodeResponse("listDownloads", r)) = Ok(r)
  BY <1>2, <1>4 DEF DecodeResponse
<1> QED BY <1>5 DEF r, all

LEMMA ChannelComesBack ==
  ASSUME NEW x
  PROVE  LET r == Response("ChannelInfoResponse", [name |-> x])
         IN DecodeResponse("getChannelInfo", EncodeResponse("getChannelInfo", r)) = Ok(r)
<1> DEFINE s == [name |-> x]
           r == Response("ChannelInfoResponse", s)
           reply == Written(200, EncodeChannelInfoResponse(s))
<1>1. DecodeBody(reply, DecodeChannelInfoResponse, Unvalidated) = Ok(s) /\ reply.status = 200
  BY ChannelBody, WrittenBody
<1>2. EncodeResponse("getChannelInfo", r) = reply
  BY DEF EncodeResponse, encodeGetChannelInfoResponse, IsError, Response
<1>3. Typed("ChannelInfoResponse", Ok(s)) = Ok(r)
  BY FieldsDecoded
<1> HIDE DEF r, reply, s
<1>4. decodeGetChannelInfoResponse(reply) = Ok(r)
  BY <1>1, <1>3, Zenon DEF decodeGetChannelInfoResponse
<1>5. DecodeResponse("getChannelInfo", EncodeResponse("getChannelInfo", r)) = Ok(r)
  BY <1>2, <1>4 DEF DecodeResponse
<1> QED BY <1>5 DEF r, s

LEMMA HealthComesBack ==
  ASSUME NEW x
  PROVE  LET r == Response("HealthResponse", [status |-> x])
         IN DecodeResponse("healthcheck", EncodeResponse("healthcheck", r)) = Ok(r)
<1> DEFINE s == [status |-> x]
           r == Response("HealthResponse", s)
           reply == Written(200, EncodeHealthResponse(s))
<1>1. DecodeBody(reply, DecodeHealthResponse, Unvalidated) = Ok(s) /\ reply.status = 200
  BY HealthBody, WrittenBody
<1>2. EncodeResponse("healthcheck", r) = reply
  BY DEF EncodeResponse, encodeHealthcheckResponse, Response
<1>3. Typed("HealthResponse", Ok(s)) = Ok(r)
  BY FieldsDecoded
<1> HIDE DEF r, reply, s
<1>4. decodeHealthcheckResponse(reply) = Ok(r)
  BY <1>1, <1>3, Zenon DEF decodeHealthcheckResponse
<1>5. DecodeResponse("healthcheck", EncodeResponse("healthcheck", r)) = Ok(r)
  BY <1>2, <1>4 DEF DecodeResponse
<1> QED BY <1>5 DEF r, s

\* Every response the handler can return comes back to the caller of the client:
\* with its type, its status and message if it is an error, and its optional
\* fields.  (oas_response_encoders_gen.go:15-207, oas_response_decoders_gen.go:16-414)
THEOREM ResponseRoundTrip ==
  ASSUME NEW op, NEW r, IsResponse(op, r)
  PROVE  DecodeResponse(op, EncodeResponse(op, r)) = Ok(r)
<1>1. CASE r.goType = "ErrorResponseStatusCode"
  <2>1. /\ op \in {"getChannelInfo", "listDownloads", "createDownload", "getDownload"}
        /\ IsErrorStatus(r)
    BY <1>1 DEF IsResponse
  <2> QED BY <2>1, ErrorComesBack
<1>2. CASE r.goType = "Download"
  <2>1. op \in {"createDownload", "getDownload"} /\ r = Response("Download", r.value) /\ IsDownload(r.value)
    BY <1>2 DEF IsResponse
  <2>2. DecodeResponse(op, EncodeResponse(op, Response("Download", r.value))) = Ok(Response("Download", r.value))
    BY <2>1, DownloadComesBack
  <2> QED BY <2>1, <2>2, Zenon
<1>3. CASE r.goType = "DownloadListResponse"
  <2> DEFINE l == r.value.downloads
             answer == Response("DownloadListResponse", [downloads |-> l])
  <2>1. op = "listDownloads" /\ r = answer /\ \A i \in DOMAIN l : IsDownload(l[i])
    BY <1>3 DEF IsResponse
  <2>2. l = [i \in 1..Len(l) |-> l[i]]
    BY <1>3 DEF IsResponse
  <2> HIDE DEF l
  <2>3. l = [i \in DOMAIN l |-> l[i]]
    BY <2>2
  <2>4. DecodeResponse("listDownloads", EncodeResponse("listDownloads", answer)) = Ok(answer)
    BY <2>1, <2>3, ListComesBack
  <2> HIDE DEF answer
  <2> QED BY <2>1, <2>4, Zenon
<1>4. CASE r.goType = "ChannelInfoResponse"
  <2> DEFINE answer == Response("ChannelInfoResponse", [name |-> r.value.name])
  <2>1. op = "getChannelInfo" /\ r = answer
    BY <1>4 DEF IsResponse
  <2>2. DecodeResponse("getChannelInfo", EncodeResponse("getChannelInfo", answer)) = Ok(answer)
    BY ChannelComesBack
  <2> HIDE DEF answer
  <2> QED BY <2>1, <2>2, Zenon
<1>5. CASE r.goType = "HealthResponse"
  <2> DEFINE answer == Response("HealthResponse", [status |-> r.value.status])
  <2>1. op = "healthcheck" /\ r = answer
    BY <1>5 DEF IsResponse
  <2>2. DecodeResponse("healthcheck", EncodeResponse("healthcheck", answer)) = Ok(answer)
    BY HealthComesBack
  <2> HIDE DEF answer
  <2> QED BY <2>1, <2>2, Zenon
<1> QED BY <1>1, <1>2, <1>3, <1>4, <1>5 DEF IsResponse

-----------------------------------------------------------------------------
(* Escape, token by token.                                                 *)

Emitted(chars, t) == IF t \in chars THEN <<"%", Hex[t]>> ELSE <<t>>

EscapedThen(chars, t, later) == Emitted(chars, t) \o later

\* from[i] is what the text from i on is escaped to.
Escapes(chars, text, from) ==
  from = [i \in 1..Len(text)+1 |-> IF i > Len(text) THEN <<>> ELSE EscapedThen(chars, text[i], from[i+1])]

LEMMA EscapesExist ==
  ASSUME NEW chars, NEW text, Len(text) \in Nat
  PROVE  \E from : Escapes(chars, text, from)
<1> DEFINE N == Len(text)
           LastOnes(k, g) == g = [i \in N+1-k..N+1 |-> IF i > N THEN <<>> ELSE EscapedThen(chars, text[i], g[i+1])]
           Solved == {k \in Nat : k <= N => \E g : LastOnes(k, g)}
<1>1. 0 \in Solved
  <2> DEFINE g == [i \in N+1-0..N+1 |-> <<>>]
  <2>1. LastOnes(0, g)
    OBVIOUS
  <2> HIDE DEF LastOnes, g
  <2> QED BY <2>1
<1>2. ASSUME NEW k \in Nat, k \in Solved
      PROVE  k + 1 \in Solved
  <2> SUFFICES ASSUME k + 1 <= N PROVE \E h : LastOnes(k + 1, h)
    BY DEF Solved
  <2>1. PICK g : LastOnes(k, g)
    <3> HIDE DEF LastOnes
    <3> QED BY <1>2
  <2> DEFINE h == [i \in N+1-(k+1)..N+1 |-> IF i = N - k THEN EscapedThen(chars, text[i], g[i+1]) ELSE g[i]]
  <2>2. ASSUME NEW i \in N+1-(k+1)..N+1
        PROVE  h[i] = IF i > N THEN <<>> ELSE EscapedThen(chars, text[i], h[i+1])
    <3>1. CASE i = N - k
      BY <3>1
    <3>2. CASE i # N - k
      <4>1. i \in N+1-k..N+1
        BY <3>2
      <4>2. g[i] = IF i > N THEN <<>> ELSE EscapedThen(chars, text[i], g[i+1])
        BY <2>1, <4>1
      <4>3. h[i] = g[i] /\ (i <= N => h[i+1] = g[i+1])
        BY <4>1
      <4> QED BY <4>2, <4>3
    <3> QED BY <3>1, <3>2
  <2>3. LastOnes(k + 1, h)
    BY <2>2
  <2> HIDE DEF LastOnes, h
  <2> QED BY <2>3
<1>3. N \in Solved
  <2> HIDE DEF Solved
  <2> QED BY <1>1, <1>2, SetInduction
<1> QED BY <1>3 DEF Escapes

LEMMA EscapeFollows ==
  ASSUME NEW chars, NEW text, Len(text) \in Nat
  PROVE  \E from : Escapes(chars, text, from) /\ Escape(chars, text) = from[1]
<1> DEFINE from == CHOOSE from : Escapes(chars, text, from)
<1>1. Escapes(chars, text, from)
  BY EscapesExist
<1>2. Escape(chars, text) = from[1]
  BY Zenon DEF Escape, Escapes, EscapedThen, Emitted
<1> QED BY <1>1, <1>2

LEMMA EscapeNone ==
  ASSUME NEW chars
  PROVE  Escape(chars, <<>>) = <<>>
<1>1. Len(<<>>) = 0
  OBVIOUS
<1> QED BY <1>1, EscapeFollows DEF Escapes

LEMMA EscapeFirst ==
  ASSUME NEW chars, NEW T, NEW t \in T, NEW rest \in Seq(T)
  PROVE  Escape(chars, <<t>> \o rest) = Emitted(chars, t) \o Escape(chars, rest)
<1> DEFINE text == <<t>> \o rest
<1>1. /\ Len(rest) \in Nat /\ Len(text) = Len(rest) + 1
      /\ text[1] = t /\ \A i \in 1..Len(rest) : text[i+1] = rest[i]
  OBVIOUS
<1> HIDE DEF text
<1>2. PICK f : Escapes(chars, text, f) /\ Escape(chars, text) = f[1]
  BY <1>1, EscapeFollows
<1>3. PICK g : Escapes(chars, rest, g) /\ Escape(chars, rest) = g[1]
  BY <1>1, EscapeFollows
<1> DEFINE N == Len(rest)
           Same == {k \in Nat : k <= N => f[N+1-k+1] = g[N+1-k]}
<1>9. \A i \in 1..N : g[i] = EscapedThen(chars, rest[i], g[i+1])
  BY <1>1, <1>3 DEF Escapes
<1>10. \A i \in 1..N : f[i+1] = EscapedThen(chars, text[i+1], f[i+2])
  BY <1>1, <1>2 DEF Escapes
<1>4. 0 \in Same
  BY <1>1, <1>2, <1>3 DEF Escapes
<1>5. ASSUME NEW k \in Nat, k \in Same
      PROVE  k + 1 \in Same
  <2> SUFFICES ASSUME NEW j \in 1..N, j = N - k PROVE f[j+1] = g[j]
    BY <1>1
  <2>1. f[j+2] = g[j+1]
    BY <1>1, <1>5
  <2> QED BY <1>1, <1>9, <1>10, <2>1
<1>6. N \in Same
  <2> HIDE DEF Same
  <2> QED BY <1>1, <1>4, <1>5, SetInduction
<1>7. f[2] = g[1]
  BY <1>1, <1>6
<1>8. f[1] = EscapedThen(chars, t, f[2])
  BY <1>1, <1>2 DEF Escapes
<1> QED BY <1>2, <1>3, <1>7, <1>8 DEF text, EscapedThen

-----------------------------------------------------------------------------
(* Unescape, token by token.                                               *)

EscapeAt(chars, text, i) == /\ i < Len(text)
                            /\ text[i] = "%"
                            /\ text[i+1] \in DOMAIN Decoded
                            /\ Decoded[text[i+1]] \in chars

Before(token, later) == <<token>> \o later

\* The text from i on, given it from i + 1 and from i + 2 on.
UnescapedThen(chars, text, i, next, second) ==
  IF EscapeAt(chars, text, i) THEN Before(Decoded[text[i+1]], second) ELSE Before(text[i], next)

\* from[i] is what the text from i on is unescaped to.
Unescapes(chars, text, from) ==
  from = [i \in 1..Len(text)+1 |->
            IF i > Len(text) THEN <<>> ELSE UnescapedThen(chars, text, i, from[i+1], from[i+2])]

LEMMA UnescapesAt ==
  ASSUME NEW chars, NEW text, Len(text) \in Nat, NEW from, Unescapes(chars, text, from)
  PROVE  /\ from[Len(text)+1] = <<>>
         /\ \A i \in 1..Len(text) : from[i] = UnescapedThen(chars, text, i, from[i+1], from[i+2])
<1>1. ASSUME NEW f, NEW g,
             f = [i \in 1..Len(text)+1 |->
                    IF i > Len(text) THEN <<>> ELSE UnescapedThen(chars, text, i, g[i+1], g[i+2])]
      PROVE  /\ f[Len(text)+1] = <<>>
             /\ \A i \in 1..Len(text) : f[i] = UnescapedThen(chars, text, i, g[i+1], g[i+2])
  BY <1>1
<1> QED BY <1>1 DEF Unescapes

LEMMA UnescapesExist ==
  ASSUME NEW chars, NEW text, Len(text) \in Nat
  PROVE  \E from : Unescapes(chars, text, from)
<1> DEFINE N == Len(text)
           At(i, g) == IF i > N THEN <<>> ELSE UnescapedThen(chars, text, i, g[i+1], g[i+2])
           LastOnes(k, g) == g = [i \in N+1-k..N+1 |-> At(i, g)]
           Solved == {k \in Nat : k <= N => \E g : LastOnes(k, g)}
<1>1. 0 \in Solved
  <2> DEFINE g == [i \in N+1-0..N+1 |-> <<>>]
  <2>1. LastOnes(0, g)
    OBVIOUS
  <2> HIDE DEF LastOnes, g
  <2> QED BY <2>1
<1>2. ASSUME NEW k \in Nat, k \in Solved
      PROVE  k + 1 \in Solved
  <2> SUFFICES ASSUME k + 1 <= N PROVE \E h : LastOnes(k + 1, h)
    BY DEF Solved
  <2>1. PICK g : LastOnes(k, g)
    <3> HIDE DEF LastOnes
    <3> QED BY <1>2
  <2> DEFINE h == [i \in N+1-(k+1)..N+1 |-> IF i = N - k THEN At(i, g) ELSE g[i]]
  <2>2. ASSUME NEW i \in N+1-(k+1)..N+1
        PROVE  h[i] = At(i, h)
    <3>1. \A j \in N+1-k..N+1 : h[j] = g[j]
      OBVIOUS
    <3>2. i <= N => h[i+1] = g[i+1]
      BY <3>1
    <3>3. i <= N => UnescapedThen(chars, text, i, h[i+1], h[i+2]) = UnescapedThen(chars, text, i, g[i+1], g[i+2])
      <4>1. EscapeAt(chars, text, i) => h[i+2] = g[i+2]
        BY <3>1 DEF EscapeAt
      <4> HIDE DEF h
      <4> QED BY <3>2, <4>1 DEF UnescapedThen
    <3>4. h[i] = At(i, g)
      <4>1. CASE i = N - k
        BY <4>1
      <4>2. CASE i # N - k
        <5>1. i \in N+1-k..N+1
          BY <4>2
        <5> HIDE DEF h, At
        <5> QED BY <2>1, <3>1, <5>1
      <4> QED BY <4>1, <4>2
    <3> HIDE DEF h
    <3> QED BY <3>3, <3>4
  <2>3. LastOnes(k + 1, h)
    <3> HIDE DEF At
    <3> QED BY <2>2
  <2> HIDE DEF LastOnes, h
  <2> QED BY <2>3
<1>3. N \in Solved
  <2> HIDE DEF Solved
  <2> QED BY <1>1, <1>2, SetInduction
<1> QED BY <1>3 DEF Unescapes

LEMMA UnescapeFollows ==
  ASSUME NEW chars, NEW text, Len(text) \in Nat
  PROVE  \E from : Unescapes(chars, text, from) /\ Unescape(chars, text) = from[1]
<1> DEFINE from == CHOOSE from : Unescapes(chars, text, from)
<1>1. Unescapes(chars, text, from)
  BY UnescapesExist
<1>2. Unescape(chars, text) = from[1]
  BY Zenon DEF Unescape, Unescapes, UnescapedThen, EscapeAt, Before
<1> QED BY <1>1, <1>2

LEMMA UnescapeNone ==
  ASSUME NEW chars
  PROVE  Unescape(chars, <<>>) = <<>>
<1>1. Len(<<>>) = 0
  OBVIOUS
<1> QED BY <1>1, UnescapeFollows DEF Unescapes

\* The rest of a text is unescaped the same whatever comes before it.
LEMMA UnescapeShift ==
  ASSUME NEW chars, NEW text, NEW rest, NEW m \in Nat, Len(rest) \in Nat, Len(text) = Len(rest) + m,
         \A i \in 1..Len(rest) : text[i+m] = rest[i],
         NEW f, Unescapes(chars, text, f)
  PROVE  f[m+1] = Unescape(chars, rest)
<1>1. PICK g : Unescapes(chars, rest, g) /\ Unescape(chars, rest) = g[1]
  BY UnescapeFollows
<1> DEFINE N == Len(rest)
           Same == {k \in Nat : \A j \in 1..N+1 : N + 1 - k <= j => f[j+m] = g[j]}
<1>2. \A i \in 1..N : g[i] = UnescapedThen(chars, rest, i, g[i+1], g[i+2])
  BY <1>1, UnescapesAt
<1>3. \A i \in 1..N : f[i+m] = UnescapedThen(chars, text, i+m, f[i+m+1], f[i+m+2])
  <2>1. \A i \in 1..Len(text) : f[i] = UnescapedThen(chars, text, i, f[i+1], f[i+2])
    BY UnescapesAt
  <2>2. \A i \in 1..N : i + m \in 1..Len(text)
    OBVIOUS
  <2> HIDE DEF N
  <2> QED BY <2>1, <2>2
<1>4. \A i \in 1..N : EscapeAt(chars, text, i+m) <=> EscapeAt(chars, rest, i)
  <2> SUFFICES ASSUME NEW i \in 1..N PROVE EscapeAt(chars, text, i+m) <=> EscapeAt(chars, rest, i)
    OBVIOUS
  <2>1. i + 1 \in 1..N => text[i+m+1] = rest[i+1]
    <3>1. (i+1) + m = i+m+1
      OBVIOUS
    <3>2. i + 1 \in 1..N => text[(i+1)+m] = rest[i+1]
      OBVIOUS
    <3> QED BY <3>1, <3>2
  <2>2. i + m < Len(text) <=> i + 1 \in 1..N
    OBVIOUS
  <2>3. i < N <=> i + 1 \in 1..N
    OBVIOUS
  <2> QED BY <2>1, <2>2, <2>3 DEF EscapeAt
<1>5. 0 \in Same
  BY <1>1 DEF Unescapes
<1>6. ASSUME NEW k \in Nat, k \in Same
      PROVE  k + 1 \in Same
  <2>1. \A j \in 1..N+1 : N + 1 - k <= j => f[j+m] = g[j]
    BY <1>6
  <2> SUFFICES ASSUME NEW j \in 1..N, j = N - k PROVE f[j+m] = g[j]
    BY <2>1
  <2>2. f[j+m+1] = g[j+1]
    <3>1. f[(j+1)+m] = g[j+1]
      BY <2>1
    <3> QED BY <3>1
  <2>3. EscapeAt(chars, rest, j) => f[j+m+2] = g[j+2] /\ text[j+m+1] = rest[j+1]
    <3> SUFFICES ASSUME j < N PROVE f[j+m+2] = g[j+2] /\ text[j+m+1] = rest[j+1]
      BY DEF EscapeAt
    <3>1. f[(j+2)+m] = g[j+2]
      BY <2>1
    <3>2. text[(j+1)+m] = rest[j+1]
      OBVIOUS
    <3> QED BY <3>1, <3>2
  <2> HIDE DEF Same
  <2> QED BY <1>2, <1>3, <1>4, <2>2, <2>3 DEF UnescapedThen
<1>7. N \in Same
  <2> HIDE DEF Same
  <2> QED BY <1>5, <1>6, SetInduction
<1>8. f[1+m] = g[1]
  BY <1>7
<1> QED BY <1>1, <1>8

LEMMA UnescapeFirst ==
  ASSUME NEW chars, NEW T, NEW t \in T, t # "%", NEW rest \in Seq(T)
  PROVE  Unescape(chars, <<t>> \o rest) = <<t>> \o Unescape(chars, rest)
<1> DEFINE text == <<t>> \o rest
<1>1. /\ Len(rest) \in Nat /\ Len(text) = Len(rest) + 1
      /\ text[1] = t /\ \A i \in 1..Len(rest) : text[i+1] = rest[i]
  OBVIOUS
<1> HIDE DEF text
<1>2. PICK f : Unescapes(chars, text, f) /\ Unescape(chars, text) = f[1]
  BY <1>1, UnescapeFollows
<1>3. f[1+1] = Unescape(chars, rest)
  BY <1>1, <1>2, UnescapeShift
<1>4. f[1] = Before(t, f[1+1])
  BY <1>1, <1>2 DEF Unescapes, UnescapedThen, EscapeAt
<1> QED BY <1>2, <1>3, <1>4 DEF text, Before

LEMMA UnescapeEscape ==
  ASSUME NEW chars, NEW T, NEW hex \in DOMAIN Decoded, NEW rest \in Seq(T)
  PROVE  /\ Decoded[hex] \in chars => Unescape(chars, <<"%", hex>> \o rest) = <<Decoded[hex]>> \o Unescape(chars, rest)
         /\ Decoded[hex] \notin chars => Unescape(chars, <<"%", hex>> \o rest) = <<"%">> \o (<<hex>> \o Unescape(chars, rest))
<1> DEFINE text == <<"%", hex>> \o rest
<1>1. /\ Len(rest) \in Nat /\ Len(text) = Len(rest) + 2
      /\ text[1] = "%" /\ text[2] = hex /\ \A i \in 1..Len(rest) : text[i+2] = rest[i]
  <2>1. rest \in Seq(T \union {"%", hex}) /\ <<"%", hex>> \in Seq(T \union {"%", hex})
    OBVIOUS
  <2> QED BY <2>1
<1> HIDE DEF text
<1>2. PICK f : Unescapes(chars, text, f) /\ Unescape(chars, text) = f[1]
  BY <1>1, UnescapeFollows
<1>3. f[2+1] = Unescape(chars, rest)
  BY <1>1, <1>2, UnescapeShift
<1>4. hex # "%"
  BY DEF Decoded
<1>5. EscapeAt(chars, text, 1) <=> Decoded[hex] \in chars
  BY <1>1 DEF EscapeAt
<1>6. ~EscapeAt(chars, text, 2)
  BY <1>1, <1>4 DEF EscapeAt
<1>7. /\ f[1] = IF Decoded[hex] \in chars THEN Before(Decoded[hex], f[2+1]) ELSE Before("%", f[2])
      /\ f[2] = Before(hex, f[2+1])
  BY <1>1, <1>2, <1>5, <1>6 DEF Unescapes, UnescapedThen
<1> QED BY <1>2, <1>3, <1>7 DEF text, Before

-----------------------------------------------------------------------------
(* One segment of a path.                                                  *)

LEMMA Associative ==
  ASSUME NEW T, NEW a \in Seq(T), NEW b \in Seq(T), NEW c \in Seq(T)
  PROVE  a \o b \in Seq(T) /\ (a \o b) \o c = a \o (b \o c)
BY ConcatAssociative, ConcatProperties

Marks == {"/", "%", "2F", "25"}

\* The escapes of a segment.
Codes == {"2F", "25"}

LEMMA CodesDecoded ==
  /\ Codes \subseteq Marks /\ DOMAIN Hex = {"/", "%"} /\ DOMAIN Hex \subseteq Characters
  /\ \A hex \in Codes : hex \in DOMAIN Decoded /\ Decoded[hex] \in DOMAIN Hex
  /\ \A t \in DOMAIN Hex : Hex[t] \in Codes /\ Decoded[Hex[t]] = t
BY DEF Codes, Marks, Decoded, Hex, Characters

LEMMA Two ==
  ASSUME NEW T, NEW a \in T, NEW b \in T, NEW rest \in Seq(T)
  PROVE  <<a>> \o (<<b>> \o rest) = <<a, b>> \o rest
<1> DEFINE u == <<b>> \o rest
           v == <<a>> \o u
           w == <<a, b>> \o rest
<1>1. u \in Seq(T) /\ Len(u) = Len(rest) + 1 /\ u[1] = b /\ \A i \in 1..Len(rest) : u[i+1] = rest[i]
  OBVIOUS
<1>2. w \in Seq(T) /\ Len(w) = Len(rest) + 2 /\ w[1] = a /\ w[2] = b /\ \A i \in 1..Len(rest) : w[i+2] = rest[i]
  OBVIOUS
<1> HIDE DEF u, w
<1>3. v \in Seq(T) /\ Len(v) = Len(u) + 1 /\ v[1] = a /\ \A i \in 1..Len(u) : v[i+1] = u[i]
  BY <1>1
<1> HIDE DEF v
<1>4. ASSUME NEW i \in 1..Len(v)
      PROVE  v[i] = w[i]
  <2>1. i = 1 \/ i = 2 \/ \E j \in 1..Len(rest) : i = j + 2
    <3>1. CASE i > 2
      <4>1. i - 2 \in 1..Len(rest) /\ i = (i - 2) + 2
        BY <1>1, <1>3, <3>1
      <4> QED BY <4>1
    <3> QED BY <1>1, <1>3, <3>1
  <2>2. ASSUME NEW j \in 1..Len(rest)
        PROVE  v[j+2] = w[j+2]
    <3>1. v[(j+1)+1] = u[j+1]
      BY <1>1, <1>3
    <3> QED BY <1>1, <1>2, <3>1
  <2>3. v[2] = w[2]
    <3>1. v[1+1] = u[1]
      BY <1>1, <1>3
    <3> QED BY <1>1, <1>2, <3>1
  <2> QED BY <1>2, <1>3, <2>1, <2>2, <2>3
<1>5. v = w
  BY <1>1, <1>2, <1>3, <1>4, SeqEqual
<1> QED BY <1>5 DEF u, v, w

LEMMA NormalizeKept ==
  ASSUME NEW T, Marks \subseteq T, NEW hex \in Codes, NEW rest \in Seq(T), NormalizeEscapedPath(rest) = rest
  PROVE  NormalizeEscapedPath(<<"%", hex>> \o rest) = <<"%", hex>> \o rest
<1>1. hex \in DOMAIN Decoded /\ Decoded[hex] \notin {"x"}
  BY DEF Decoded, Codes
<1>2. Unescape({"x"}, <<"%", hex>> \o rest) = <<"%">> \o (<<hex>> \o Unescape({"x"}, rest))
  BY <1>1, UnescapeEscape, Zenon
<1>3. "%" \in T /\ hex \in T
  BY CodesDecoded DEF Marks
<1>4. <<"%">> \o (<<hex>> \o rest) = <<"%", hex>> \o rest
  BY <1>3, Two
<1> QED BY <1>2, <1>4, Zenon DEF NormalizeEscapedPath

LEMMA EmittedTyped ==
  ASSUME NEW T, Marks \subseteq T, NEW chars, chars \subseteq DOMAIN Hex, NEW t \in T
  PROVE  Emitted(chars, t) \in Seq(T)
<1>1. CASE t \in chars
  <2>1. "%" \in T /\ Hex[t] \in T
    BY <1>1 DEF Hex, Marks
  <2> QED BY <1>1, <2>1 DEF Emitted
<1>2. CASE t \notin chars
  BY <1>2 DEF Emitted
<1> QED BY <1>1, <1>2

LEMMA EscapeTyped ==
  ASSUME NEW T, Marks \subseteq T, NEW chars, chars \subseteq DOMAIN Hex
  PROVE  \A t \in Seq(T) : Escape(chars, t) \in Seq(T)
<1>1. <<>> \in Seq(T) /\ Escape(chars, <<>>) \in Seq(T)
  BY EscapeNone, EmptySeq, Zenon
<1>2. ASSUME NEW t \in T, NEW rest \in Seq(T), Escape(chars, rest) \in Seq(T)
      PROVE  <<t>> \o rest \in Seq(T) /\ Escape(chars, <<t>> \o rest) \in Seq(T)
  <2>1. Escape(chars, <<t>> \o rest) = Emitted(chars, t) \o Escape(chars, rest)
    BY EscapeFirst
  <2>2. Emitted(chars, t) \in Seq(T) /\ <<t>> \in Seq(T)
    BY EmittedTyped
  <2> QED BY <1>2, <2>1, <2>2, ConcatProperties, Zenon
<1> DEFINE S == {t \in Seq(T) : Escape(chars, t) \in Seq(T)}
<1>3. <<>> \in S
  BY <1>1, EmptySeq, Zenon
<1>4. ASSUME NEW t \in T, NEW rest \in Seq(T), rest \in S
      PROVE  <<t>> \o rest \in S
  <2>1. <<t>> \o rest \in Seq(T)
    OBVIOUS
  <2> QED BY <1>2, <1>4, <2>1, Zenon
<1> HIDE DEF S
<1>5. \A t \in Seq(T) : t \in S
  BY <1>3, <1>4, TextInduction
<1> QED BY <1>5 DEF S

LEMMA EscapeConcat ==
  ASSUME NEW T, Marks \subseteq T, NEW chars, chars \subseteq DOMAIN Hex, NEW b \in Seq(T)
  PROVE  \A a \in Seq(T) : Escape(chars, a \o b) = Escape(chars, a) \o Escape(chars, b)
<1>1. Escape(chars, <<>> \o b) = Escape(chars, <<>>) \o Escape(chars, b)
  <2>1. Escape(chars, b) \in Seq(T)
    BY EscapeTyped
  <2>2. <<>> \o b = b /\ <<>> \o Escape(chars, b) = Escape(chars, b)
    BY <2>1
  <2> QED BY <2>2, EscapeNone
<1>2. ASSUME NEW t \in T, NEW rest \in Seq(T), Escape(chars, rest \o b) = Escape(chars, rest) \o Escape(chars, b)
      PROVE  Escape(chars, (<<t>> \o rest) \o b) = Escape(chars, <<t>> \o rest) \o Escape(chars, b)
  <2>1. (<<t>> \o rest) \o b = <<t>> \o (rest \o b) /\ rest \o b \in Seq(T)
    OBVIOUS
  <2>2. /\ Escape(chars, <<t>> \o rest) = Emitted(chars, t) \o Escape(chars, rest)
        /\ Escape(chars, <<t>> \o (rest \o b)) = Emitted(chars, t) \o Escape(chars, rest \o b)
    BY <2>1, EscapeFirst
  <2>3. PICK e \in Seq(T), f \in Seq(T), g \in Seq(T) :
               e = Emitted(chars, t) /\ f = Escape(chars, rest) /\ g = Escape(chars, b)
    BY EscapeTyped, EmittedTyped, Zenon
  <2>4. (e \o f) \o g = e \o (f \o g)
    BY <2>3, Associative
  <2> QED BY <1>2, <2>1, <2>2, <2>3, <2>4, Zenon
<1> DEFINE S == {a \in Seq(T) : Escape(chars, a \o b) = Escape(chars, a) \o Escape(chars, b)}
<1>3. <<>> \in S
  BY <1>1, EmptySeq, Zenon
<1>4. ASSUME NEW t \in T, NEW rest \in Seq(T), rest \in S
      PROVE  <<t>> \o rest \in S
  <2>1. <<t>> \o rest \in Seq(T)
    OBVIOUS
  <2> QED BY <1>2, <1>4, <2>1, Zenon
<1> HIDE DEF S
<1>5. \A a \in Seq(T) : a \in S
  BY <1>3, <1>4, TextInduction
<1> QED BY <1>5 DEF S

LEMMA SegmentTyped ==
  ASSUME NEW T, Marks \subseteq T, NEW t \in Seq(T)
  PROVE  EscapeSegment(t) \in Seq(T)
<1>1. {"/", "%"} \subseteq DOMAIN Hex
  BY DEF Hex
<1> QED BY <1>1, EscapeTyped DEF EscapeSegment

\* A character that has to be escaped, and one that has not.
LEMMA SegmentFirst ==
  ASSUME NEW T, NEW t \in T, NEW rest \in Seq(T)
  PROVE  EscapeSegment(<<t>> \o rest)
           = IF t \in DOMAIN Hex THEN <<"%", Hex[t]>> \o EscapeSegment(rest) ELSE <<t>> \o EscapeSegment(rest)
<1>1. EscapeSegment(<<t>> \o rest) = Emitted({"/", "%"}, t) \o EscapeSegment(rest)
  BY EscapeFirst, Zenon DEF EscapeSegment
<1>2. {"/", "%"} = DOMAIN Hex
  BY CodesDecoded
<1>3. Emitted({"/", "%"}, t) = IF t \in DOMAIN Hex THEN <<"%", Hex[t]>> ELSE <<t>>
  BY <1>2 DEF Emitted
<1> QED BY <1>1, <1>3

\* What follows a segment is unescaped the same; the segment becomes what it was.
LEMMA UnescapeSegment ==
  ASSUME NEW T, Marks \subseteq T, NEW x \in Seq(T), NEW y \in Seq(T), PathUnescape(x) = y
  PROVE  \A t \in Seq(T) : PathUnescape(EscapeSegment(t) \o x) = t \o y
<1>1. PathUnescape(EscapeSegment(<<>>) \o x) = <<>> \o y
  <2>1. EscapeSegment(<<>>) = <<>>
    BY EscapeNone DEF EscapeSegment
  <2>2. <<>> \o x = x /\ <<>> \o y = y
    OBVIOUS
  <2> QED BY <2>1, <2>2
<1>2. ASSUME NEW t \in T, NEW rest \in Seq(T), PathUnescape(EscapeSegment(rest) \o x) = rest \o y
      PROVE  PathUnescape(EscapeSegment(<<t>> \o rest) \o x) = (<<t>> \o rest) \o y
  <2>1. PICK e \in Seq(T) : e = EscapeSegment(rest)
    BY SegmentTyped
  <2>2. e \o x \in Seq(T) /\ PathUnescape(e \o x) = rest \o y
    BY <1>2, <2>1
  <2>3. (<<t>> \o rest) \o y = <<t>> \o (rest \o y)
    OBVIOUS
  <2>4. ASSUME NEW hex \in DOMAIN Decoded, Decoded[hex] = t, hex \in T, t \in Characters,
               EscapeSegment(<<t>> \o rest) = <<"%", hex>> \o e
        PROVE  PathUnescape(EscapeSegment(<<t>> \o rest) \o x) = <<t>> \o (rest \o y)
    <3>1. (<<"%", hex>> \o e) \o x = <<"%", hex>> \o (e \o x)
      <4>1. <<"%", hex>> \in Seq(T)
        BY <2>4 DEF Marks
      <4> QED BY <4>1, ConcatAssociative
    <3>2. Unescape(Characters, <<"%", hex>> \o (e \o x)) = <<t>> \o Unescape(Characters, e \o x)
      BY <2>2, <2>4, UnescapeEscape
    <3> QED BY <2>2, <2>4, <3>1, <3>2 DEF PathUnescape
  <2>5. ASSUME t # "%", EscapeSegment(<<t>> \o rest) = <<t>> \o e
        PROVE  PathUnescape(EscapeSegment(<<t>> \o rest) \o x) = <<t>> \o (rest \o y)
    <3>1. (<<t>> \o e) \o x = <<t>> \o (e \o x)
      OBVIOUS
    <3>2. Unescape(Characters, <<t>> \o (e \o x)) = <<t>> \o Unescape(Characters, e \o x)
      BY <2>2, <2>5, UnescapeFirst
    <3> QED BY <2>2, <2>5, <3>1, <3>2 DEF PathUnescape
  <2>6. CASE t \in DOMAIN Hex
    <3>1. Hex[t] \in DOMAIN Decoded /\ Decoded[Hex[t]] = t /\ Hex[t] \in T /\ t \in Characters
      BY <2>6, CodesDecoded
    <3>2. EscapeSegment(<<t>> \o rest) = <<"%", Hex[t]>> \o e
      BY <2>1, <2>6, SegmentFirst
    <3> QED BY <2>3, <2>4, <3>1, <3>2, Zenon
  <2>7. CASE t \notin DOMAIN Hex
    <3>1. t # "%"
      BY <2>7, CodesDecoded
    <3>2. EscapeSegment(<<t>> \o rest) = <<t>> \o e
      BY <2>1, <2>7, SegmentFirst
    <3> QED BY <2>3, <2>5, <3>1, <3>2, Zenon
  <2> QED BY <2>6, <2>7
<1> DEFINE S == {t \in Seq(T) : PathUnescape(EscapeSegment(t) \o x) = t \o y}
<1>3. <<>> \in S
  BY <1>1, EmptySeq, Zenon
<1>4. ASSUME NEW t \in T, NEW rest \in Seq(T), rest \in S
      PROVE  <<t>> \o rest \in S
  <2>1. <<t>> \o rest \in Seq(T)
    OBVIOUS
  <2> QED BY <1>2, <1>4, <2>1, Zenon
<1> HIDE DEF S
<1>5. \A t \in Seq(T) : t \in S
  BY <1>3, <1>4, TextInduction
<1> QED BY <1>5 DEF S

\* What holds of <<>>, and is kept by an escape or a character before it, holds of
\* every escaped segment.
LEMMA SegmentInduction ==
  ASSUME NEW T, Marks \subseteq T, NEW S, <<>> \in S,
         \A hex \in Codes, e \in Seq(T) : e \in S => <<"%", hex>> \o e \in S,
         \A t \in T, e \in Seq(T) : t \notin DOMAIN Hex /\ e \in S => <<t>> \o e \in S
  PROVE  \A t \in Seq(T) : EscapeSegment(t) \in S
<1>1. EscapeSegment(<<>>) \in S
  BY EscapeNone, Zenon DEF EscapeSegment
<1>2. ASSUME NEW t \in T, NEW rest \in Seq(T), EscapeSegment(rest) \in S
      PROVE  EscapeSegment(<<t>> \o rest) \in S
  <2>1. EscapeSegment(rest) \in Seq(T)
    BY SegmentTyped
  <2>2. CASE t \in DOMAIN Hex
    <3>1. Hex[t] \in Codes
      BY <2>2, CodesDecoded
    <3>2. EscapeSegment(<<t>> \o rest) = <<"%", Hex[t]>> \o EscapeSegment(rest)
      BY <2>2, SegmentFirst
    <3> QED BY <1>2, <2>1, <3>1, <3>2, Zenon
  <2>3. CASE t \notin DOMAIN Hex
    <3>1. EscapeSegment(<<t>> \o rest) = <<t>> \o EscapeSegment(rest)
      BY <2>3, SegmentFirst
    <3> QED BY <1>2, <2>1, <2>3, <3>1, Zenon
  <2> QED BY <2>2, <2>3
<1> DEFINE R == {t \in Seq(T) : EscapeSegment(t) \in S}
<1>3. <<>> \in R
  BY <1>1, EmptySeq, Zenon
<1>4. ASSUME NEW t \in T, NEW rest \in Seq(T), rest \in R
      PROVE  <<t>> \o rest \in R
  <2>1. <<t>> \o rest \in Seq(T)
    OBVIOUS
  <2> QED BY <1>2, <1>4, <2>1, Zenon
<1> HIDE DEF R
<1>5. \A t \in Seq(T) : t \in R
  BY <1>3, <1>4, TextInduction
<1> QED BY <1>5 DEF R

HasNo(token, text) == \A i \in DOMAIN text : text[i] # token
NoSlash(text)      == HasNo("/", text)
NoEscape(text)     == HasNo("%", text)

\* An escaped segment has no slash, and every "%" in it starts an escape.
LEMMA SegmentIsOne ==
  ASSUME NEW T, Marks \subseteq T
  PROVE  \A t \in Seq(T) : NoSlash(EscapeSegment(t)) /\ WellEscaped(EscapeSegment(t))
<1> DEFINE S == {e \in Seq(T) : NoSlash(e) /\ WellEscaped(e)}
<1>1. <<>> \in S
  BY DEF NoEscape, NoSlash, HasNo, WellEscaped
<1>2. ASSUME NEW hex \in Codes, NEW e \in Seq(T), e \in S
      PROVE  <<"%", hex>> \o e \in S
  <2> DEFINE f == <<"%", hex>> \o e
  <2>1. /\ f \in Seq(T) /\ Len(f) = Len(e) + 2 /\ f[1] = "%" /\ f[2] = hex
        /\ \A i \in 1..Len(f) : i = 1 \/ i = 2 \/ i - 2 \in 1..Len(e)
        /\ \A j \in 1..Len(e) : f[j+2] = e[j]
    <3>1. <<"%", hex>> \in Seq(T)
      BY CodesDecoded DEF Marks
    <3> QED BY <3>1
  <2>2. hex \in DOMAIN Decoded /\ hex # "/" /\ hex # "%"
    BY DEF Decoded, Codes
  <2> HIDE DEF f
  <2>3. NoSlash(f)
    <3>1. \A i \in 1..Len(f) : i = 1 \/ i = 2 \/ (i - 2 \in 1..Len(e) /\ i = (i - 2) + 2)
      BY <2>1
    <3>2. \A j \in 1..Len(e) : f[j+2] # "/"
      BY <1>2, <2>1 DEF NoEscape, NoSlash, HasNo
    <3>3. \A i \in 1..Len(f) : f[i] # "/"
      BY <2>1, <2>2, <3>1, <3>2
    <3> QED BY <2>1, <3>3 DEF NoEscape, NoSlash, HasNo
  <2>4. ASSUME NEW i \in 1..Len(f), f[i] = "%"
        PROVE  i < Len(f) /\ f[i+1] \in DOMAIN Decoded
    <3>1. CASE i = 1
      BY <2>1, <2>2, <3>1
    <3>2. ASSUME NEW j \in 1..Len(e), i = j + 2
          PROVE  i < Len(f) /\ f[i+1] \in DOMAIN Decoded
      <4>1. e[j] = "%"
        BY <2>1, <2>4, <3>2
      <4>2. j < Len(e) /\ e[j+1] \in DOMAIN Decoded
        <5>1. WellEscaped(e) /\ j \in DOMAIN e
          BY <1>2
        <5> HIDE DEF S
        <5> QED BY <4>1, <5>1, Zenon DEF WellEscaped
      <4>3. f[(j+1)+2] = e[j+1]
        BY <2>1, <4>2
      <4>4. i + 1 = (j + 1) + 2 /\ i < Len(f)
        BY <2>1, <3>2, <4>2
      <4> QED BY <4>2, <4>3, <4>4
    <3>3. CASE i = 2
      BY <2>1, <2>2, <2>4, <3>3
    <3>4. i - 2 \in 1..Len(e) => i = (i - 2) + 2
      OBVIOUS
    <3> QED BY <2>1, <3>1, <3>2, <3>3, <3>4
  <2>5. WellEscaped(f)
    BY <2>1, <2>4 DEF WellEscaped
  <2> QED BY <2>1, <2>3, <2>5 DEF f
<1>3. ASSUME NEW t \in T, NEW e \in Seq(T), t \notin DOMAIN Hex, e \in S
      PROVE  <<t>> \o e \in S
  <2> DEFINE f == <<t>> \o e
  <2>1. /\ f \in Seq(T) /\ Len(f) = Len(e) + 1 /\ f[1] = t
        /\ \A i \in 1..Len(f) : i = 1 \/ (i - 1 \in 1..Len(e) /\ f[i] = e[i-1])
    OBVIOUS
  <2> HIDE DEF f
  <2>6. t # "/" /\ t # "%"
    BY <1>3, CodesDecoded
  <2>2. NoSlash(f)
    BY <1>3, <2>1, <2>6 DEF NoEscape, NoSlash, HasNo
  <2>3. ASSUME NEW i \in 1..Len(f), f[i] = "%"
        PROVE  i < Len(f) /\ f[i+1] \in DOMAIN Decoded
    <3>1. i - 1 \in 1..Len(e) /\ e[i-1] = "%"
      BY <1>3, <2>1, <2>6, <2>3
    <3>2. i - 1 < Len(e) /\ e[i-1+1] \in DOMAIN Decoded
      <4>1. WellEscaped(e) /\ i - 1 \in DOMAIN e
        BY <1>3, <3>1
      <4> HIDE DEF S
      <4> QED BY <3>1, <4>1, Zenon DEF WellEscaped
    <3>3. i + 1 \in 1..Len(f) /\ f[i+1] = e[i-1+1]
      BY <2>1, <3>2
    <3> QED BY <2>1, <3>2, <3>3
  <2>4. WellEscaped(f)
    BY <2>1, <2>3 DEF WellEscaped
  <2> QED BY <2>1, <2>2, <2>4 DEF f
<1> HIDE DEF S
<1>4. \A t \in Seq(T) : EscapeSegment(t) \in S
  BY <1>1, <1>2, <1>3, SegmentInduction
<1> QED BY <1>4 DEF S

\* The escapes in a segment are there because they must be: they stay.
LEMMA NormalizeSegment ==
  ASSUME NEW T, Marks \subseteq T, NEW x \in Seq(T), NormalizeEscapedPath(x) = x
  PROVE  \A t \in Seq(T) : NormalizeEscapedPath(EscapeSegment(t) \o x) = EscapeSegment(t) \o x
<1>1. NormalizeEscapedPath(<<>> \o x) = <<>> \o x
  <2>1. <<>> \o x = x
    OBVIOUS
  <2> QED BY <2>1
<1>2. ASSUME NEW hex \in Codes, NEW e \in Seq(T), NormalizeEscapedPath(e \o x) = e \o x
      PROVE  NormalizeEscapedPath((<<"%", hex>> \o e) \o x) = (<<"%", hex>> \o e) \o x
  <2>1. <<"%", hex>> \in Seq(T) /\ e \o x \in Seq(T)
    BY CodesDecoded DEF Marks
  <2>2. (<<"%", hex>> \o e) \o x = <<"%", hex>> \o (e \o x)
    BY <2>1, Associative
  <2>3. NormalizeEscapedPath(<<"%", hex>> \o (e \o x)) = <<"%", hex>> \o (e \o x)
    <3>1. PICK r \in Seq(T) : r = e \o x
      BY <2>1
    <3> QED BY <1>2, <3>1, NormalizeKept
  <2> QED BY <2>2, <2>3, Zenon
<1>3. ASSUME NEW t \in T, NEW e \in Seq(T), t \notin DOMAIN Hex, NormalizeEscapedPath(e \o x) = e \o x
      PROVE  NormalizeEscapedPath((<<t>> \o e) \o x) = (<<t>> \o e) \o x
  <2>1. e \o x \in Seq(T) /\ (<<t>> \o e) \o x = <<t>> \o (e \o x) /\ t # "%"
    BY <1>3, CodesDecoded
  <2>2. NormalizeEscapedPath(<<t>> \o (e \o x)) = <<t>> \o NormalizeEscapedPath(e \o x)
    BY <2>1, UnescapeFirst, Zenon DEF NormalizeEscapedPath
  <2> QED BY <1>3, <2>1, <2>2, Zenon
<1> DEFINE S == {e \in Seq(T) : NormalizeEscapedPath(e \o x) = e \o x}
<1>4. <<>> \in S
  BY <1>1, EmptySeq, Zenon
<1>5. ASSUME NEW hex \in Codes, NEW e \in Seq(T), e \in S
      PROVE  <<"%", hex>> \o e \in S
  <2>1. <<"%", hex>> \o e \in Seq(T)
    BY CodesDecoded DEF Marks
  <2> QED BY <1>2, <1>5, <2>1, Zenon
<1>6. ASSUME NEW t \in T, NEW e \in Seq(T), t \notin DOMAIN Hex, e \in S
      PROVE  <<t>> \o e \in S
  <2>1. <<t>> \o e \in Seq(T)
    OBVIOUS
  <2> QED BY <1>3, <1>6, <2>1, Zenon
<1> HIDE DEF S
<1>7. \A t \in Seq(T) : EscapeSegment(t) \in S
  BY <1>4, <1>5, <1>6, SegmentInduction
<1> QED BY <1>7 DEF S

LEMMA HasNoFirst ==
  ASSUME NEW T, NEW token, NEW t \in T, NEW rest \in Seq(T)
  PROVE  HasNo(token, <<t>> \o rest) <=> t # token /\ HasNo(token, rest)
<1> DEFINE f == <<t>> \o rest
<1>1. /\ DOMAIN f = 1..Len(rest)+1 /\ f[1] = t /\ DOMAIN rest = 1..Len(rest) /\ Len(rest) \in Nat
      /\ \A i \in 1..Len(rest) : f[i+1] = rest[i]
  OBVIOUS
<1> HIDE DEF f
<1>2. ASSUME HasNo(token, f)
      PROVE  t # token /\ HasNo(token, rest)
  <2>1. \A i \in 1..Len(rest) : i + 1 \in 1..Len(rest)+1
    BY <1>1
  <2> QED BY <1>1, <1>2, <2>1 DEF HasNo
<1>3. ASSUME t # token, HasNo(token, rest)
      PROVE  HasNo(token, f)
  <2>1. \A i \in 1..Len(rest)+1 : i = 1 \/ (i - 1 \in 1..Len(rest) /\ i = (i - 1) + 1)
    BY <1>1
  <2>2. \A i \in 1..Len(rest)+1 : f[i] # token
    BY <1>1, <1>3, <2>1 DEF HasNo
  <2> QED BY <1>1, <2>2 DEF HasNo
<1> QED BY <1>2, <1>3 DEF f

LEMMA HasNoneFirst ==
  ASSUME NEW T, NEW t \in T, NEW rest \in Seq(T)
  PROVE  /\ NoSlash(<<t>> \o rest) <=> t # "/" /\ NoSlash(rest)
         /\ NoEscape(<<t>> \o rest) <=> t # "%" /\ NoEscape(rest)
BY HasNoFirst DEF NoSlash, NoEscape

\* Text without an escape stays as it is.
LEMMA UnescapePlain ==
  ASSUME NEW T, NEW chars, NEW x \in Seq(T), NEW y \in Seq(T), Unescape(chars, x) = y
  PROVE  \A t \in Seq(T) : NoEscape(t) => Unescape(chars, t \o x) = t \o y
<1>1. Unescape(chars, <<>> \o x) = <<>> \o y
  <2>1. <<>> \o x = x /\ <<>> \o y = y
    OBVIOUS
  <2> QED BY <2>1
<1>2. ASSUME NEW t \in T, NEW rest \in Seq(T), t # "%", Unescape(chars, rest \o x) = rest \o y
      PROVE  Unescape(chars, (<<t>> \o rest) \o x) = (<<t>> \o rest) \o y
  <2>1. PICK r \in Seq(T) : r = rest \o x
    <3>1. rest \o x \in Seq(T)
      OBVIOUS
    <3> QED BY <3>1
  <2>2. (<<t>> \o rest) \o x = <<t>> \o (rest \o x) /\ (<<t>> \o rest) \o y = <<t>> \o (rest \o y)
    OBVIOUS
  <2>3. Unescape(chars, <<t>> \o r) = <<t>> \o Unescape(chars, r)
    BY <1>2, <2>1, UnescapeFirst
  <2> QED BY <1>2, <2>1, <2>2, <2>3, Zenon
<1> DEFINE S == {t \in Seq(T) : NoEscape(t) => Unescape(chars, t \o x) = t \o y}
<1>3. <<>> \in S
  BY <1>1, EmptySeq, Zenon
<1>4. ASSUME NEW t \in T, NEW rest \in Seq(T), rest \in S
      PROVE  <<t>> \o rest \in S
  <2>1. <<t>> \o rest \in Seq(T)
    OBVIOUS
  <2>2. NoEscape(<<t>> \o rest) => t # "%" /\ NoEscape(rest)
    <3> HIDE DEF S
    <3> QED BY HasNoneFirst
  <2> QED BY <1>2, <1>4, <2>1, <2>2, Zenon
<1> HIDE DEF S
<1>5. \A t \in Seq(T) : t \in S
  BY <1>3, <1>4, TextInduction
<1> QED BY <1>5 DEF S

-----------------------------------------------------------------------------
(* The form url.Parse compares a path with.                                *)

PathForm(path) == Escape({"%"}, path)

LEMMA PathFormFirst ==
  ASSUME NEW T, NEW t \in T, NEW rest \in Seq(T)
  PROVE  PathForm(<<t>> \o rest) = IF t = "%" THEN <<"%", "25">> \o PathForm(rest) ELSE <<t>> \o PathForm(rest)
<1>1. PathForm(<<t>> \o rest) = Emitted({"%"}, t) \o PathForm(rest)
  BY EscapeFirst, Zenon DEF PathForm
<1>2. Emitted({"%"}, t) = IF t = "%" THEN <<"%", "25">> ELSE <<t>>
  BY DEF Emitted, Hex
<1> QED BY <1>1, <1>2

LEMMA PathFormTyped ==
  ASSUME NEW T, Marks \subseteq T, NEW a \in Seq(T), NEW b \in Seq(T)
  PROVE  PathForm(a) \in Seq(T) /\ PathForm(a \o b) = PathForm(a) \o PathForm(b)
<1>1. {"%"} \subseteq DOMAIN Hex
  BY DEF Hex
<1> QED BY <1>1, EscapeTyped, EscapeConcat, Zenon DEF PathForm

LEMMA PathFormPlain ==
  ASSUME NEW T
  PROVE  \A t \in Seq(T) : NoEscape(t) => PathForm(t) = t
<1>1. PathForm(<<>>) = <<>>
  BY EscapeNone DEF PathForm
<1> DEFINE S == {t \in Seq(T) : NoEscape(t) => PathForm(t) = t}
<1>2. <<>> \in S
  BY <1>1, EmptySeq, Zenon
<1>3. ASSUME NEW t \in T, NEW rest \in Seq(T), rest \in S
      PROVE  <<t>> \o rest \in S
  <2>1. <<t>> \o rest \in Seq(T)
    OBVIOUS
  <2>2. t # "%" => PathForm(<<t>> \o rest) = <<t>> \o PathForm(rest)
    BY PathFormFirst
  <2> QED BY <1>3, <2>1, <2>2, HasNoneFirst, Zenon
<1> HIDE DEF S
<1>4. \A t \in Seq(T) : t \in S
  BY <1>2, <1>3, TextInduction
<1> QED BY <1>4 DEF S

\* A segment is never shorter than its text in that form, and longer if the text
\* has a slash.
LEMMA SlashIsLonger ==
  ASSUME NEW T, Marks \subseteq T
  PROVE  \A t \in Seq(T) : /\ Len(PathForm(t)) <= Len(EscapeSegment(t))
                            /\ (NoSlash(t) \/ Len(PathForm(t)) < Len(EscapeSegment(t)))
<1> DEFINE Fine(t) == /\ Len(PathForm(t)) <= Len(EscapeSegment(t))
                      /\ (NoSlash(t) \/ Len(PathForm(t)) < Len(EscapeSegment(t)))
<1>1. Fine(<<>>)
  <2>1. PathForm(<<>>) = <<>> /\ EscapeSegment(<<>>) = <<>>
    BY EscapeNone DEF PathForm, EscapeSegment
  <2> QED BY <2>1 DEF NoEscape, NoSlash, HasNo
<1>2. ASSUME NEW t \in T, NEW rest \in Seq(T), Fine(rest)
      PROVE  Fine(<<t>> \o rest)
  <2>1. PICK e \in Seq(T), p \in Seq(T) : e = EscapeSegment(rest) /\ p = PathForm(rest)
    BY SegmentTyped, PathFormTyped
  <2>2. Len(p) <= Len(e) /\ (NoSlash(rest) \/ Len(p) < Len(e))
    BY <1>2, <2>1
  <2>3. NoSlash(<<t>> \o rest) <=> t # "/" /\ NoSlash(rest)
    BY HasNoneFirst
  <2>4. /\ Len(EscapeSegment(<<t>> \o rest)) = IF t \in DOMAIN Hex THEN Len(e) + 2 ELSE Len(e) + 1
        /\ Len(PathForm(<<t>> \o rest)) = IF t = "%" THEN Len(p) + 2 ELSE Len(p) + 1
    <3>1. t \in DOMAIN Hex => Hex[t] \in T
      BY CodesDecoded
    <3>2. /\ \A a \in T, b \in T, r \in Seq(T) : Len(<<a, b>> \o r) = Len(r) + 2
          /\ \A a \in T, r \in Seq(T) : Len(<<a>> \o r) = Len(r) + 1
      OBVIOUS
    <3>3. "%" \in T /\ "25" \in T
      BY DEF Marks
    <3>4. Len(EscapeSegment(<<t>> \o rest)) = IF t \in DOMAIN Hex THEN Len(e) + 2 ELSE Len(e) + 1
      <4>1. CASE t \in DOMAIN Hex
        <5>1. EscapeSegment(<<t>> \o rest) = <<"%", Hex[t]>> \o e
          BY <2>1, <4>1, SegmentFirst
        <5>2. Len(<<"%", Hex[t]>> \o e) = Len(e) + 2
          BY <3>1, <3>2, <3>3, <4>1
        <5> QED BY <4>1, <5>1, <5>2, Zenon
      <4>2. CASE t \notin DOMAIN Hex
        <5>1. EscapeSegment(<<t>> \o rest) = <<t>> \o e
          BY <2>1, <4>2, SegmentFirst
        <5>2. Len(<<t>> \o e) = Len(e) + 1
          BY <3>2
        <5> QED BY <4>2, <5>1, <5>2, Zenon
      <4> QED BY <4>1, <4>2
    <3>5. Len(PathForm(<<t>> \o rest)) = IF t = "%" THEN Len(p) + 2 ELSE Len(p) + 1
      <4>1. CASE t = "%"
        <5>1. PathForm(<<t>> \o rest) = <<"%", "25">> \o p
          BY <2>1, <4>1, PathFormFirst
        <5>2. Len(<<"%", "25">> \o p) = Len(p) + 2
          BY <3>2, <3>3
        <5> QED BY <4>1, <5>1, <5>2, Zenon
      <4>2. CASE t # "%"
        <5>1. PathForm(<<t>> \o rest) = <<t>> \o p
          BY <2>1, <4>2, PathFormFirst
        <5>2. Len(<<t>> \o p) = Len(p) + 1
          BY <3>2
        <5> QED BY <4>2, <5>1, <5>2, Zenon
      <4> QED BY <4>1, <4>2
    <3> QED BY <3>4, <3>5
  <2>5. Len(e) \in Nat /\ Len(p) \in Nat
    BY <2>1
  <2>6. t \in DOMAIN Hex <=> t = "/" \/ t = "%"
    BY CodesDecoded
  <2> QED BY <2>2, <2>3, <2>4, <2>5, <2>6
<1> HIDE DEF Fine
<1> DEFINE S == {t \in Seq(T) : Fine(t)}
<1>3. <<>> \in S
  BY <1>1, EmptySeq, Zenon
<1>4. ASSUME NEW t \in T, NEW rest \in Seq(T), rest \in S
      PROVE  <<t>> \o rest \in S
  <2>1. <<t>> \o rest \in Seq(T)
    OBVIOUS
  <2> QED BY <1>2, <1>4, <2>1, Zenon
<1> HIDE DEF S
<1>5. \A t \in Seq(T) : t \in S
  BY <1>3, <1>4, TextInduction
<1> QED BY <1>5 DEF S, Fine

-----------------------------------------------------------------------------
(* The tree of the router.                                                 *)

LEMMA CutPrefix ==
  ASSUME NEW T, NEW p \in Seq(T), NEW r \in Seq(T)
  PROVE  IsPrefix(p, p \o r) /\ Cut(p, p \o r) = r
<1>1. SubSeq(p \o r, 1, Len(p)) = p /\ SubSeq(p \o r, Len(p) + 1, Len(p \o r)) = r
  <2>1. Len(p \o r) = Len(p) + Len(r)
    OBVIOUS
  <2> QED BY <2>1, SubSeqOfConcat1, SubSeqOfConcat2, SubSeqFull
<1>2. SubSeq(p, 1, Len(p)) = p
  BY SubSeqFull
<1>3. Len(p) <= Len(p \o r)
  OBVIOUS
<1> QED BY <1>1, <1>2, <1>3 DEF IsPrefix, Cut

\* A parameter that has no slash is taken whole.
LEMMA ParameterTaken ==
  ASSUME NEW T, {"/", "api"} \subseteq T, NEW a \in Seq(T), NoSlash(a),
         NEW r \in Seq(T), r = <<>> \/ r[1] = "/", NEW method
  PROVE  Tree(method, <<"/", "api", "/">> \o (a \o r)) = AfterSecret(method, a, r)
<1> DEFINE rest == a \o r
           elem == <<"/", "api", "/">> \o rest
           slashes == {i \in 1..Len(rest) : rest[i] = "/"}
           next == SelectInSeq(rest, LAMBDA t : t = "/")
           idx == IF next = 0 THEN Len(rest) + 1 ELSE next
<1>1. rest \in Seq(T) /\ <<"/", "api", "/">> \in Seq(T)
  OBVIOUS
<1>2. IsPrefix(<<"/", "api", "/">>, elem) /\ Cut(<<"/", "api", "/">>, elem) = rest
  <2> HIDE DEF rest
  <2> QED BY <1>1, CutPrefix
<1>3. next = IF slashes # {} THEN Min(slashes) ELSE 0
  BY DEF SelectInSeq
<1>4. /\ Len(rest) = Len(a) + Len(r) /\ Len(a) \in Nat /\ Len(r) \in Nat
      /\ \A i \in 1..Len(a) : rest[i] # "/"
      /\ r # <<>> => Len(a) + 1 \in 1..Len(rest) /\ rest[Len(a) + 1] = "/"
      /\ r = <<>> => Len(r) = 0
  BY DEF NoEscape, NoSlash, HasNo
<1>5. idx = Len(a) + 1
  <2> HIDE DEF rest
  <2>1. CASE r = <<>>
    <3>1. slashes = {}
      BY <1>4, <2>1
    <3> QED BY <1>3, <1>4, <2>1, <3>1
  <2>2. CASE r # <<>>
    <3>1. Len(a) + 1 \in slashes /\ \A i \in slashes : i \in Nat /\ Len(a) + 1 <= i
      BY <1>4, <2>2
    <3> HIDE DEF slashes
    <3>2. Min(slashes) = Len(a) + 1
      BY <1>4, <3>1 DEF Min
    <3> HIDE DEF next
    <3> QED BY <1>3, <1>4, <3>1, <3>2
  <2> QED BY <2>1, <2>2
<1>6. SubSeq(rest, 1, idx - 1) = a /\ SubSeq(rest, idx, Len(rest)) = r
  <2>1. idx - 1 = Len(a)
    BY <1>4, <1>5
  <2> HIDE DEF idx
  <2> QED BY <1>4, <1>5, <2>1, SubSeqOfConcat1, SubSeqOfConcat2, SubSeqFull
<1>7. Tree(method, elem) = AfterSecret(method, SubSeq(rest, 1, idx - 1), SubSeq(rest, idx, Len(rest)))
  <2> HIDE DEF rest
  <2> QED BY <1>2, Zenon DEF Tree
<1> QED BY <1>6, <1>7

Downloads == <<"/", "downloads">>
Slash     == <<"/">>

\* What follows the secret: nothing, "/downloads", or "/downloads/{id}".
LEMMA RestTaken ==
  ASSUME NEW T, {"/", "downloads"} \subseteq T, NEW a, NEW b \in Seq(T), NoSlash(b)
  PROVE  /\ AfterSecret("GET", a, <<>>) = Handle("getChannelInfo", <<a>>)
         /\ AfterSecret("GET", a, Downloads) = Handle("listDownloads", <<a>>)
         /\ AfterSecret("POST", a, Downloads) = Handle("createDownload", <<a>>)
         /\ AfterSecret("GET", a, Downloads \o (Slash \o b)) = Handle("getDownload", <<a, b>>)
<1>1. AfterSecret("GET", a, <<>>) = Handle("getChannelInfo", <<a>>)
  BY DEF AfterSecret, Leaf
<1>2. Downloads \in Seq(T) /\ Slash \in Seq(T) /\ Downloads # <<>>
  BY DEF Downloads, Slash
<1>3. ASSUME NEW r \in Seq(T), NEW method
      PROVE  AfterSecret(method, a, Downloads \o r) = AfterDownloads(method, a, r)
  <2>1. Downloads \o r # <<>>
    BY <1>2
  <2>2. IsPrefix(Downloads, Downloads \o r) /\ Cut(Downloads, Downloads \o r) = r
    BY <1>2, CutPrefix
  <2> QED BY <2>1, <2>2 DEF AfterSecret, Downloads
<1>4. AfterSecret("GET", a, Downloads) = Handle("listDownloads", <<a>>) /\ AfterSecret("POST", a, Downloads) = Handle("createDownload", <<a>>)
  <2>1. Downloads \o <<>> = Downloads /\ <<>> \in Seq(T)
    BY <1>2
  <2>2. AfterDownloads("GET", a, <<>>) = Handle("listDownloads", <<a>>) /\ AfterDownloads("POST", a, <<>>) = Handle("createDownload", <<a>>)
    BY DEF AfterDownloads, Leaf
  <2> QED BY <1>3, <2>1, <2>2
<1>5. AfterDownloads("GET", a, Slash \o b) = Handle("getDownload", <<a, b>>)
  <2>1. Slash \o b # <<>> /\ Head(Slash \o b) = "/" /\ Tail(Slash \o b) = b
    BY <1>2 DEF Slash
  <2>2. ~Contains(b, "/")
    BY DEF NoEscape, NoSlash, HasNo, Contains
  <2> QED BY <2>1, <2>2 DEF AfterDownloads, Leaf
<1>6. Slash \o b \in Seq(T)
  BY <1>2
<1> QED BY <1>1, <1>3, <1>4, <1>5, <1>6

Known == Marks \union {"api", "downloads"}
Pre   == <<"/", "api", "/">>

\* Concatenation, for the provers to compare by name.
Cat(a, b) == a \o b

LEMMA CatTyped ==
  ASSUME NEW T, NEW a \in Seq(T), NEW b \in Seq(T)
  PROVE  Cat(a, b) \in Seq(T) /\ Len(Cat(a, b)) = Len(a) + Len(b)
BY DEF Cat

LEMMA UnescapeAfter ==
  ASSUME NEW T, NEW chars, NEW t \in Seq(T), NoEscape(t), NEW x \in Seq(T), Unescape(chars, x) \in Seq(T)
  PROVE  Unescape(chars, Cat(t, x)) = Cat(t, Unescape(chars, x))
<1> DEFINE y == Unescape(chars, x)
<1>1. y \in Seq(T) /\ Unescape(chars, x) = y
  OBVIOUS
<1> HIDE DEF y
<1>2. \A u \in Seq(T) : NoEscape(u) => Unescape(chars, u \o x) = u \o y
  BY <1>1, UnescapePlain, SMT
<1> QED BY <1>1, <1>2 DEF Cat

LEMMA UnescapeWhole ==
  ASSUME NEW T, NEW chars, NEW t \in Seq(T), NoEscape(t)
  PROVE  Unescape(chars, t) = t
<1> DEFINE n == <<>>
<1>1. n \in Seq(T) /\ Unescape(chars, n) = n /\ Cat(t, n) = t
  BY UnescapeNone DEF Cat
<1> HIDE DEF n
<1>2. Unescape(chars, Cat(t, n)) = Cat(t, Unescape(chars, n))
  <2>1. n \in Seq(T) /\ Unescape(chars, n) \in Seq(T)
    BY <1>1
  <2> QED BY <2>1, UnescapeAfter
<1> QED BY <1>1, <1>2

LEMMA UnescapeSegmentAfter ==
  ASSUME NEW T, Marks \subseteq T, NEW x \in Seq(T), NEW y \in Seq(T), PathUnescape(x) = y, NEW t \in Seq(T)
  PROVE  PathUnescape(Cat(EscapeSegment(t), x)) = Cat(t, y)
<1>1. \A u \in Seq(T) : PathUnescape(EscapeSegment(u) \o x) = u \o y
  BY UnescapeSegment
<1> QED BY <1>1 DEF Cat

LEMMA NormalizeSegmentAfter ==
  ASSUME NEW T, Marks \subseteq T, NEW x \in Seq(T), NormalizeEscapedPath(x) = x, NEW t \in Seq(T)
  PROVE  NormalizeEscapedPath(Cat(EscapeSegment(t), x)) = Cat(EscapeSegment(t), x)
<1>1. \A u \in Seq(T) : NormalizeEscapedPath(EscapeSegment(u) \o x) = EscapeSegment(u) \o x
  BY NormalizeSegment
<1> QED BY <1>1 DEF Cat

\* The path of a call on the wire, and what url.Parse makes of it.
LEMMA WireForm ==
  ASSUME NEW T, Known \subseteq T, NEW s \in Seq(T), NEW x \in Seq(T), NEW y \in Seq(T),
         PathUnescape(x) = y, NormalizeEscapedPath(x) = x, Len(PathForm(y)) <= Len(x)
  PROVE  /\ PathUnescape(Cat(Pre, Cat(EscapeSegment(s), x))) = Cat(Pre, Cat(s, y))
         /\ NormalizeEscapedPath(Cat(Pre, Cat(EscapeSegment(s), x))) = Cat(Pre, Cat(EscapeSegment(s), x))
         /\ PathForm(Cat(Pre, Cat(s, y))) = Cat(Pre, Cat(EscapeSegment(s), x))
              => NoSlash(s) /\ Len(PathForm(y)) = Len(x)
<1>1. Marks \subseteq T /\ Pre \in Seq(T) /\ NoEscape(Pre)
  <2>1. Marks \subseteq T /\ "/" \in T /\ "api" \in T
    BY DEF Known, Marks
  <2> QED BY <2>1 DEF Pre, NoEscape, HasNo
<1> DEFINE e  == EscapeSegment(s)
           ex == Cat(e, x)
           sy == Cat(s, y)
<1>2. e \in Seq(T)
  BY <1>1, SegmentTyped
<1>3. PathUnescape(ex) = sy /\ NormalizeEscapedPath(ex) = ex
  BY <1>1, UnescapeSegmentAfter, NormalizeSegmentAfter
<1> HIDE DEF e
<1>4. ex \in Seq(T) /\ sy \in Seq(T)
  BY <1>2, CatTyped
<1> HIDE DEF ex, sy
<1>5. PathUnescape(Cat(Pre, ex)) = Cat(Pre, sy)
  <2>1. Unescape(Characters, ex) = sy
    BY <1>3 DEF PathUnescape
  <2>2. Unescape(Characters, Cat(Pre, ex)) = Cat(Pre, Unescape(Characters, ex))
    BY <1>1, <1>4, <2>1, UnescapeAfter
  <2> QED BY <2>1, <2>2 DEF PathUnescape
<1>6. NormalizeEscapedPath(Cat(Pre, ex)) = Cat(Pre, ex)
  <2>1. Unescape({"x"}, ex) = ex
    BY <1>3 DEF NormalizeEscapedPath
  <2>2. Unescape({"x"}, Cat(Pre, ex)) = Cat(Pre, Unescape({"x"}, ex))
    BY <1>1, <1>4, <2>1, UnescapeAfter
  <2> QED BY <2>1, <2>2 DEF NormalizeEscapedPath
<1>7. ASSUME PathForm(Cat(Pre, sy)) = Cat(Pre, ex)
      PROVE  NoSlash(s) /\ Len(PathForm(y)) = Len(x)
  <2> DEFINE p == PathForm(s)
             q == PathForm(y)
  <2>1. p \in Seq(T) /\ q \in Seq(T)
    BY <1>1, PathFormTyped
  <2>2. PathForm(Cat(Pre, sy)) = Cat(PathForm(Pre), PathForm(sy)) /\ PathForm(sy) = Cat(p, q)
    BY <1>1, <1>4, PathFormTyped, Zenon DEF Cat, sy
  <2>3. PathForm(Pre) = Pre
    BY <1>1, PathFormPlain
  <2>4. Len(p) <= Len(e) /\ (NoSlash(s) \/ Len(p) < Len(e))
    BY <1>1, SlashIsLonger DEF e
  <2> HIDE DEF p, q
  <2>5. Len(Cat(p, q)) = Len(p) + Len(q) /\ Len(ex) = Len(e) + Len(x) /\ Cat(p, q) \in Seq(T)
    BY <1>2, <2>1, CatTyped DEF ex
  <2>6. Len(Cat(Pre, Cat(p, q))) = Len(Pre) + Len(Cat(p, q)) /\ Len(Cat(Pre, ex)) = Len(Pre) + Len(ex)
    BY <1>1, <1>4, <2>5, CatTyped
  <2>7. Cat(Pre, Cat(p, q)) = Cat(Pre, ex)
    BY <1>7, <2>2, <2>3
  <2>8. /\ Len(p) \in Nat /\ Len(q) \in Nat /\ Len(e) \in Nat /\ Len(x) \in Nat /\ Len(Pre) \in Nat
        /\ Len(q) <= Len(x)
    BY <1>1, <1>2, <2>1 DEF q
  <2> QED BY <2>4, <2>5, <2>6, <2>7, <2>8 DEF q
<1> QED BY <1>5, <1>6, <1>7 DEF e, ex, sy

LEMMA NotEmpty ==
  ASSUME NEW T, Marks \subseteq T, NEW s \in Seq(T), s # <<>>
  PROVE  EscapeSegment(s) # <<>>
<1>1. PICK t \in T, rest \in Seq(T) : s = <<t>> \o rest
  <2>1. Head(s) \in T /\ Tail(s) \in Seq(T) /\ s = <<Head(s)>> \o Tail(s)
    OBVIOUS
  <2> QED BY <2>1
<1>2. PICK e \in Seq(T) : e = EscapeSegment(rest)
  BY SegmentTyped
<1>3. CASE t \in DOMAIN Hex
  <2>1. EscapeSegment(s) = <<"%", Hex[t]>> \o e
    BY <1>1, <1>2, <1>3, SegmentFirst
  <2>2. "%" \in T /\ Hex[t] \in T
    BY <1>3, CodesDecoded DEF Marks
  <2>3. <<"%", Hex[t]>> \o e # <<>>
    BY <2>2
  <2> QED BY <2>1, <2>3
<1>4. CASE t \notin DOMAIN Hex
  <2>1. EscapeSegment(s) = <<t>> \o e
    BY <1>1, <1>2, <1>4, SegmentFirst
  <2>2. <<t>> \o e # <<>>
    OBVIOUS
  <2> QED BY <2>1, <2>2
<1> QED BY <1>3, <1>4

\* An escaped argument is decoded to what it was, whether or not it has an escape.
LEMMA ArgumentDecoded ==
  ASSUME NEW T, Marks \subseteq T, NEW t \in Seq(T), NEW escaped \in BOOLEAN,
         escaped \/ NoEscape(EscapeSegment(t))
  PROVE  decodeParam(EscapeSegment(t), escaped) = t
<1>1. PICK e \in Seq(T) : e = EscapeSegment(t)
  BY SegmentTyped
<1>2. PathUnescape(<<>>) = <<>> /\ <<>> \in Seq(T) /\ e \o <<>> = e /\ t \o <<>> = t
  BY UnescapeNone DEF PathUnescape
<1>3. PathUnescape(e) = t /\ WellEscaped(e)
  <2>1. \A u \in Seq(T) : PathUnescape(EscapeSegment(u) \o <<>>) = u \o <<>>
    BY <1>2, UnescapeSegment, Zenon
  <2>2. \A u \in Seq(T) : WellEscaped(EscapeSegment(u))
    BY SegmentIsOne, Zenon
  <2> QED BY <1>1, <1>2, <2>1, <2>2, Zenon
<1>4. NoEscape(e) => PathUnescape(e) = e
  BY UnescapeWhole DEF PathUnescape
<1> QED BY <1>1, <1>3, <1>4 DEF decodeParam

\* The router sees the secret either as it is or escaped.
LEMMA SecretRouted ==
  ASSUME NEW T, Known \subseteq T, NEW s \in Seq(T), s # <<>>, NEW x \in Seq(T), NEW y \in Seq(T), NEW method,
         PathUnescape(x) = y, NormalizeEscapedPath(x) = x, Len(PathForm(y)) <= Len(x),
         x = <<>> \/ x[1] = "/", y = <<>> \/ y[1] = "/"
  PROVE  LET wire == Cat(Pre, Cat(EscapeSegment(s), x))
             url  == ParsePath(wire)
         IN \/ /\ ServeHTTP(method, url) = AfterSecret(method, s, y) /\ ElemIsEscaped(url) = FALSE
               /\ Len(PathForm(y)) = Len(x)
            \/ /\ ServeHTTP(method, url) = AfterSecret(method, EscapeSegment(s), x)
               /\ ElemIsEscaped(url) = Contains(wire, "%")
<1> DEFINE wire == Cat(Pre, Cat(EscapeSegment(s), x))
           path == Cat(Pre, Cat(s, y))
<1>1. /\ PathUnescape(wire) = path /\ NormalizeEscapedPath(wire) = wire
      /\ PathForm(path) = wire => NoSlash(s) /\ Len(PathForm(y)) = Len(x)
  <2>1. PathUnescape(x) = y /\ NormalizeEscapedPath(x) = x /\ Len(PathForm(y)) <= Len(x)
    OBVIOUS
  <2> QED BY <2>1, WireForm
<1>2. Marks \subseteq T /\ {"/", "api"} \subseteq T
  BY DEF Known, Marks
<1>3. NoSlash(s) => Tree(method, path) = AfterSecret(method, s, y)
  BY <1>2, ParameterTaken DEF Pre, Cat
<1>4. Tree(method, wire) = AfterSecret(method, EscapeSegment(s), x)
  <2>1. PICK e \in Seq(T) : e = EscapeSegment(s)
    BY <1>2, SegmentTyped
  <2>2. e # <<>> /\ NoSlash(e)
    BY <1>2, <2>1, NotEmpty, SegmentIsOne
  <2> QED BY <1>2, <2>1, <2>2, ParameterTaken DEF Pre, Cat
<1>5. wire # <<>>
  <2>1. EscapeSegment(s) \in Seq(T) /\ Pre \in Seq(T) /\ Len(Pre) = 3
    <3>1. Pre \in Seq(T) /\ Len(Pre) = 3
      BY <1>2 DEF Pre
    <3> QED BY <1>2, <3>1, SegmentTyped
  <2>2. Len(wire) = 3 + Len(Cat(EscapeSegment(s), x)) /\ Cat(EscapeSegment(s), x) \in Seq(T)
    BY <2>1, CatTyped
  <2>3. Len(wire) # 0
    BY <2>2
  <2> QED BY <2>3
<1>6. ParsePath(wire) = [Path |-> path, RawPath |-> IF PathForm(path) = wire THEN <<>> ELSE wire]
  <2> HIDE DEF wire, path
  <2> QED BY <1>1 DEF ParsePath, PathForm
<1> HIDE DEF wire, path
<1>7. CASE PathForm(path) = wire
  <2>1. Elem(ParsePath(wire)) = path /\ ElemIsEscaped(ParsePath(wire)) = FALSE
    BY <1>6, <1>7 DEF Elem, ElemIsEscaped
  <2> QED BY <1>1, <1>3, <1>7, <2>1 DEF ServeHTTP, wire
<1>8. CASE PathForm(path) # wire
  <2>1. Elem(ParsePath(wire)) = wire
    BY <1>1, <1>5, <1>6, <1>8 DEF Elem
  <2>2. ElemIsEscaped(ParsePath(wire)) = Contains(wire, "%")
    <3>1. ParsePath(wire).RawPath # <<>>
      BY <1>5, <1>6, <1>8
    <3>2. Contains(wire, "%") \in BOOLEAN
      BY DEF Contains
    <3> QED BY <2>1, <3>1, <3>2 DEF ElemIsEscaped
  <2> QED BY <1>4, <2>1, <2>2 DEF ServeHTTP, wire
<1> QED BY <1>7, <1>8

-----------------------------------------------------------------------------
(* The mux.                                                                *)

NoDouble(path) == \A i \in 1..Len(path)-1 : ~(path[i] = "/" /\ path[i+1] = "/")

LEMMA CatAt ==
  ASSUME NEW T, NEW a \in Seq(T), NEW b \in Seq(T)
  PROVE  /\ \A i \in 1..Len(a) : Cat(a, b)[i] = a[i]
         /\ \A i \in 1..Len(b) : Cat(a, b)[Len(a)+i] = b[i]
BY DEF Cat

LEMMA NoDoubleCat ==
  ASSUME NEW T, NEW a \in Seq(T), NEW b \in Seq(T), NoDouble(a), NoDouble(b), a # <<>>,
         b = <<>> \/ ~(a[Len(a)] = "/" /\ b[1] = "/")
  PROVE  NoDouble(Cat(a, b))
<1> DEFINE c == Cat(a, b)
<1>1. /\ Len(c) = Len(a) + Len(b) /\ Len(a) \in Nat /\ Len(b) \in Nat
      /\ \A i \in 1..Len(a) : c[i] = a[i]
      /\ \A i \in 1..Len(b) : c[Len(a)+i] = b[i]
      /\ b = <<>> => Len(b) = 0
      /\ Len(a) # 0
  BY DEF Cat
<1> HIDE DEF c
<1> SUFFICES ASSUME NEW i \in 1..Len(c)-1
             PROVE  ~(c[i] = "/" /\ c[i+1] = "/")
  BY DEF NoDouble, c
<1>2. CASE i < Len(a)
  BY <1>1, <1>2 DEF NoDouble
<1>3. CASE i = Len(a)
  <2>1. c[i] = a[Len(a)] /\ c[Len(a)+1] = b[1] /\ b # <<>>
    BY <1>1, <1>3
  <2> QED BY <1>3, <2>1
<1>4. CASE i > Len(a)
  <2> DEFINE j == i - Len(a)
  <2>1. j \in 1..Len(b)-1 /\ i = Len(a) + j /\ i + 1 = Len(a) + (j + 1)
    BY <1>1, <1>4
  <2>2. c[Len(a) + j] = b[j] /\ c[Len(a) + (j + 1)] = b[j + 1]
    <3>1. j \in 1..Len(b) /\ j + 1 \in 1..Len(b)
      BY <1>1, <2>1
    <3> HIDE DEF j
    <3> QED BY <1>1, <3>1, Zenon
  <2>3. ~(b[j] = "/" /\ b[j+1] = "/")
    BY <2>1 DEF NoDouble
  <2> HIDE DEF j
  <2> QED BY <2>1, <2>2, <2>3
<1> QED BY <1>1, <1>2, <1>3, <1>4

\* The path of a call is clean: the mux hands it to the API.
LEMMA MuxTaken ==
  ASSUME NEW T, Known \subseteq T, NEW e \in Seq(T), e # <<>>, NoSlash(e), NEW x \in Seq(T), NoDouble(x)
  PROVE  Mux(Cat(Pre, Cat(e, x))) = "api"
<1>1. Pre \in Seq(T) /\ Len(Pre) = 3 /\ NoDouble(Pre) /\ Pre # <<>>
  <2>1. "/" \in T /\ "api" \in T
    BY DEF Known, Marks
  <2> QED BY <2>1 DEF Pre, NoDouble
<1>2. /\ NoDouble(e) /\ Len(e) \in Nat /\ Len(e) # 0 /\ \A i \in 1..Len(e) : e[i] # "/"
      /\ e[1] # "/" /\ e[Len(e)] # "/"
  BY DEF NoSlash, HasNo, NoDouble
<1> DEFINE ex == Cat(e, x)
<1>3. NoDouble(ex) /\ ex \in Seq(T) /\ Len(ex) = Len(e) + Len(x) /\ ex[1] # "/"
  <2>1. NoDouble(ex)
    BY <1>2, NoDoubleCat
  <2>2. ex \in Seq(T) /\ Len(ex) = Len(e) + Len(x) /\ ex[1] = e[1]
    BY <1>2, CatTyped, CatAt
  <2> HIDE DEF ex
  <2> QED BY <1>2, <2>1, <2>2
<1> HIDE DEF ex
<1> DEFINE wire == Cat(Pre, ex)
<1>4. NoDouble(wire) /\ Len(wire) = 3 + Len(ex) /\ Len(ex) \in Nat
  <2>1. NoDouble(wire)
    BY <1>1, <1>3, NoDoubleCat
  <2>2. Len(wire) = Len(Pre) + Len(ex)
    BY <1>1, <1>3, CatTyped
  <2> HIDE DEF wire
  <2> QED BY <1>1, <1>3, <2>1, <2>2
<1>5. IsPrefix(Pre, wire)
  BY <1>1, <1>3, CutPrefix DEF Cat
<1>6. wire # <<"/", "api">>
  <2>1. Len(<<"/", "api">>) = 2 /\ Len(wire) # 2
    BY <1>4
  <2> HIDE DEF wire
  <2> QED BY <2>1, Zenon
<1>7. ~Redirects(wire)
  <2> HIDE DEF wire
  <2> QED BY <1>4, <1>6 DEF Redirects, NoDouble
<1> HIDE DEF wire
<1>8. Mux(wire) = "api"
  BY <1>5, <1>7 DEF Mux, Pre
<1> QED BY <1>8 DEF wire, ex

-----------------------------------------------------------------------------
(* The calls.                                                              *)

\* If nothing in the path is escaped, the secret in it is not.
LEMMA PartsOfPath ==
  ASSUME NEW T, NEW p \in Seq(T), NEW e \in Seq(T), NEW x \in Seq(T), ~Contains(Cat(p, Cat(e, x)), "%")
  PROVE  NoEscape(e) /\ NoEscape(x)
<1>0. ASSUME NEW q \in Seq(T)
      PROVE  Len(Cat(p, q)) = Len(p) + Len(q) /\ \A i \in 1..Len(q) : Cat(p, q)[Len(p)+i] = q[i]
  BY DEF Cat
<1> DEFINE ex == Cat(e, x)
           w  == Cat(p, ex)
<1>1. ex \in Seq(T) /\ Len(ex) = Len(e) + Len(x)
  BY CatTyped
<1>2. /\ \A i \in 1..Len(e) : ex[i] = e[i]
      /\ \A i \in 1..Len(x) : ex[Len(e)+i] = x[i]
  BY DEF Cat
<1> HIDE DEF ex
<1>3. Len(w) = Len(p) + Len(ex) /\ \A i \in 1..Len(ex) : w[Len(p)+i] = ex[i]
  BY <1>0, <1>1, Zenon
<1> HIDE DEF w
<1>4. \A i \in 1..Len(w) : w[i] # "%"
  BY DEF Contains, w, ex
<1>5. Len(p) \in Nat /\ Len(e) \in Nat /\ Len(x) \in Nat
  OBVIOUS
<1>6. ASSUME NEW i \in 1..Len(ex)
      PROVE  ex[i] # "%"
  <2>1. Len(p) + i \in 1..Len(w)
    BY <1>1, <1>3, <1>5
  <2> QED BY <1>3, <1>4, <2>1
<1>7. ASSUME NEW i \in 1..Len(e)
      PROVE  e[i] # "%"
  <2>1. i \in 1..Len(ex)
    BY <1>1, <1>5
  <2> QED BY <1>2, <1>6, <2>1
<1>8. ASSUME NEW i \in 1..Len(x)
      PROVE  x[i] # "%"
  <2>1. Len(e) + i \in 1..Len(ex)
    BY <1>1, <1>5
  <2> QED BY <1>2, <1>6, <2>1
<1> QED BY <1>7, <1>8 DEF NoEscape, HasNo

\* What follows the secret in the calls that have no other parameter.
Rests == {<<>>, Downloads}

LEMMA PlainRest ==
  ASSUME NEW T, Known \subseteq T, NEW x \in Rests
  PROVE  /\ x \in Seq(T) /\ NoDouble(x) /\ (x = <<>> \/ x[1] = "/")
         /\ PathUnescape(x) = x /\ NormalizeEscapedPath(x) = x /\ PathForm(x) = x
<1>1. x \in Seq(T) /\ NoEscape(x)
  <2>1. "/" \in T /\ "downloads" \in T
    BY DEF Known, Marks
  <2>2. CASE x = <<>>
    BY <2>2 DEF NoEscape, HasNo
  <2>3. CASE x = Downloads
    BY <2>1, <2>3 DEF Downloads, NoEscape, HasNo
  <2> QED BY <2>2, <2>3 DEF Rests
<1>2. PathUnescape(x) = x /\ NormalizeEscapedPath(x) = x
  BY <1>1, UnescapeWhole DEF PathUnescape, NormalizeEscapedPath
<1>3. PathForm(x) = x
  BY <1>1, PathFormPlain
<1>4. NoDouble(x) /\ (x = <<>> \/ x[1] = "/")
  BY DEF Rests, Downloads, NoDouble
<1> QED BY <1>1, <1>2, <1>3, <1>4

LEMMA OneParameter ==
  ASSUME NEW T, Known \subseteq T, NEW s \in Seq(T), s # <<>>, NEW x \in Rests, NEW method,
         NEW op \in {"getChannelInfo", "listDownloads", "createDownload"},
         \A a : AfterSecret(method, a, x) = Handle(op, <<a>>)
  PROVE  Dispatched(method, Cat(Pre, Cat(EscapeSegment(s), x))) = <<op, [secret |-> s]>>
<1> DEFINE wire   == Cat(Pre, Cat(EscapeSegment(s), x))
           url    == ParsePath(wire)
           routed == ServeHTTP(method, url)
           params == DecodeParams(routed.op, routed.args, ElemIsEscaped(url))
<1>1. /\ x \in Seq(T) /\ (x = <<>> \/ x[1] = "/")
      /\ PathUnescape(x) = x /\ NormalizeEscapedPath(x) = x /\ Len(PathForm(x)) <= Len(x)
  <2>1. PathForm(x) = x /\ x \in Seq(T)
    <3> HIDE DEF wire, url, routed, params
    <3> QED BY PlainRest, Zenon
  <2>2. Len(x) <= Len(x)
    BY <2>1
  <2> QED BY <2>1, <2>2, PlainRest
<1>2. \/ routed = Handle(op, <<s>>) /\ ElemIsEscaped(url) = FALSE
      \/ routed = Handle(op, <<EscapeSegment(s)>>) /\ ElemIsEscaped(url) = Contains(wire, "%")
  BY <1>1, SecretRouted
<1>3. Contains(wire, "%") \in BOOLEAN /\ (Contains(wire, "%") \/ NoEscape(EscapeSegment(s)))
  <2>1. Marks \subseteq T /\ Pre \in Seq(T)
    <3>1. Marks \subseteq T /\ "/" \in T /\ "api" \in T
      BY DEF Known, Marks
    <3> QED BY <3>1 DEF Pre
  <2>2. EscapeSegment(s) \in Seq(T)
    BY <2>1, SegmentTyped
  <2>3. Contains(wire, "%") \in BOOLEAN
    BY DEF Contains
  <2>4. ~Contains(wire, "%") => NoEscape(EscapeSegment(s))
    BY <1>1, <2>1, <2>2, PartsOfPath
  <2> QED BY <2>3, <2>4
<1>4. decodeParam(EscapeSegment(s), Contains(wire, "%")) = s
  <2>1. Marks \subseteq T
    BY DEF Known
  <2> HIDE DEF wire
  <2> QED BY <1>3, <2>1, ArgumentDecoded
<1>5. decodeParam(s, FALSE) = s
  BY DEF decodeParam
<1> HIDE DEF wire, url, routed
<1>6. \E a : /\ routed = Handle(op, <<a>>)
             /\ decodeParam(a, ElemIsEscaped(url)) = s
  BY <1>2, <1>4, <1>5
<1>7. routed.op = op /\ params = [secret |-> s]
  <2>1. PICK a : routed = Handle(op, <<a>>) /\ decodeParam(a, ElemIsEscaped(url)) = s
    BY <1>6
  <2>2. routed.op = op /\ routed.args = <<a>> /\ <<a>>[1] = a
    BY <2>1 DEF Handle
  <2>3. DecodeParams(op, <<a>>, ElemIsEscaped(url)) = [secret |-> decodeParam(<<a>>[1], ElemIsEscaped(url))]
    BY DEF DecodeParams, decodeGetChannelInfoParams, decodeListDownloadsParams, decodeCreateDownloadParams
  <2> QED BY <2>1, <2>2, <2>3, Zenon
<1> HIDE DEF params
<1>8. ~Refused(params)
  BY <1>7 DEF Refused, Invalid
<1>9. op # "notFound" /\ op # "notAllowed"
  OBVIOUS
<1>10. Dispatched(method, wire) = <<routed.op, params>>
  BY <1>7, <1>8, <1>9 DEF Dispatched, url, routed, params
<1> QED BY <1>7, <1>10 DEF wire

\* What follows the secret in getDownload, before the id.
Under == <<"/", "downloads", "/">>

LEMMA KnownParts ==
  ASSUME NEW T, Known \subseteq T
  PROVE  /\ Marks \subseteq T
         /\ Pre \in Seq(T) /\ Pre # <<>>
         /\ Under \in Seq(T) /\ Under # <<>> /\ NoEscape(Under) /\ Len(Under) = 3 /\ Under[1] = "/"
         /\ Downloads \in Seq(T) /\ Slash \in Seq(T)
<1>1. "/" \in T /\ "downloads" \in T /\ "api" \in T /\ Marks \subseteq T
  BY DEF Known, Marks
<1>2. Pre \in Seq(T) /\ Pre # <<>>
  BY <1>1 DEF Pre
<1>3. Under \in Seq(T) /\ Under # <<>> /\ Len(Under) = 3 /\ Under[1] = "/"
  BY <1>1 DEF Under
<1>4. NoEscape(Under)
  BY <1>1 DEF Under, NoEscape, HasNo
<1>5. Downloads \in Seq(T) /\ Slash \in Seq(T)
  BY <1>1 DEF Downloads, Slash
<1> QED BY <1>1, <1>2, <1>3, <1>4, <1>5

LEMMA UnderSplit ==
  ASSUME NEW T, Known \subseteq T, NEW b \in Seq(T)
  PROVE  Cat(Under, b) = Downloads \o (Slash \o b)
<1>1. Under = Downloads \o Slash
  BY DEF Under, Downloads, Slash
<1>2. (Downloads \o Slash) \o b = Downloads \o (Slash \o b)
  BY KnownParts, Associative
<1> QED BY <1>1, <1>2, Zenon DEF Cat

LEMMA SegmentUnescaped ==
  ASSUME NEW T, Marks \subseteq T, NEW t \in Seq(T)
  PROVE  PathUnescape(EscapeSegment(t)) = t /\ NormalizeEscapedPath(EscapeSegment(t)) = EscapeSegment(t)
<1> DEFINE n == <<>>
           e == EscapeSegment(t)
<1>1. n \in Seq(T) /\ PathUnescape(n) = n /\ NormalizeEscapedPath(n) = n
  BY UnescapeNone DEF PathUnescape, NormalizeEscapedPath
<1>2. e \in Seq(T)
  BY SegmentTyped
<1>3. \A u \in Seq(T) : Cat(u, n) = u
  BY DEF Cat
<1> HIDE DEF n
<1>4. PathUnescape(Cat(e, n)) = Cat(t, n) /\ NormalizeEscapedPath(Cat(e, n)) = Cat(e, n)
  BY <1>1, UnescapeSegmentAfter, NormalizeSegmentAfter
<1> HIDE DEF e
<1>5. Cat(e, n) = e /\ Cat(t, n) = t
  BY <1>2, <1>3
<1> QED BY <1>4, <1>5 DEF e

\* The id after the secret, on the wire and decoded.
LEMMA IdRest ==
  ASSUME NEW T, Known \subseteq T, NEW id \in Seq(T), id # <<>>
  PROVE  /\ Cat(Under, EscapeSegment(id)) \in Seq(T) /\ Cat(Under, id) \in Seq(T)
         /\ Cat(Under, EscapeSegment(id))[1] = "/" /\ Cat(Under, id)[1] = "/"
         /\ NoDouble(Cat(Under, EscapeSegment(id)))
         /\ PathUnescape(Cat(Under, EscapeSegment(id))) = Cat(Under, id)
         /\ NormalizeEscapedPath(Cat(Under, EscapeSegment(id))) = Cat(Under, EscapeSegment(id))
         /\ Len(PathForm(Cat(Under, id))) <= Len(Cat(Under, EscapeSegment(id)))
         /\ Len(PathForm(Cat(Under, id))) = Len(Cat(Under, EscapeSegment(id))) => NoSlash(id)
<1> DEFINE e == EscapeSegment(id)
<1>1. /\ e \in Seq(T) /\ e # <<>> /\ NoSlash(e)
      /\ PathUnescape(e) = id /\ NormalizeEscapedPath(e) = e
  BY KnownParts, SegmentTyped, NotEmpty, SegmentIsOne, SegmentUnescaped
<1>2. Len(PathForm(id)) <= Len(e) /\ (NoSlash(id) \/ Len(PathForm(id)) < Len(e))
  BY KnownParts, SlashIsLonger
<1> HIDE DEF e
<1>3. Cat(Under, e) \in Seq(T) /\ Cat(Under, id) \in Seq(T)
  BY <1>1, KnownParts, CatTyped
<1>4. \A b \in Seq(T) : Cat(Under, b)[1] = "/"
  <2>1. Under \in Seq(T) /\ Len(Under) = 3 /\ Under[1] = "/"
    BY KnownParts
  <2> QED BY <2>1 DEF Cat
<1>5. NoDouble(Cat(Under, e))
  <2>1. NoDouble(Under) /\ Under \in Seq(T) /\ Under # <<>>
    BY KnownParts DEF NoDouble, Under
  <2>2. NoDouble(e) /\ e[1] # "/"
    BY <1>1 DEF NoDouble, NoSlash, HasNo
  <2> QED BY <1>1, <2>1, <2>2, NoDoubleCat
<1>6. PathUnescape(Cat(Under, e)) = Cat(Under, id)
  <2>1. Unescape(Characters, e) = id /\ Under \in Seq(T) /\ NoEscape(Under) /\ e \in Seq(T)
    BY <1>1, KnownParts DEF PathUnescape
  <2>2. Unescape(Characters, e) \in Seq(T)
    BY <2>1
  <2>3. Unescape(Characters, Cat(Under, e)) = Cat(Under, Unescape(Characters, e))
    BY <2>1, <2>2, UnescapeAfter
  <2> QED BY <2>1, <2>3 DEF PathUnescape
<1>7. NormalizeEscapedPath(Cat(Under, e)) = Cat(Under, e)
  <2>1. Unescape({"x"}, e) = e /\ Under \in Seq(T) /\ NoEscape(Under) /\ e \in Seq(T)
    BY <1>1, KnownParts DEF NormalizeEscapedPath
  <2>2. Unescape({"x"}, Cat(Under, e)) = Cat(Under, Unescape({"x"}, e))
    BY <2>1, UnescapeAfter
  <2> QED BY <2>1, <2>2 DEF NormalizeEscapedPath
<1>8. Len(Cat(Under, e)) = 3 + Len(e) /\ Len(PathForm(Cat(Under, id))) = 3 + Len(PathForm(id))
  <2>1. Under \in Seq(T) /\ NoEscape(Under) /\ Len(Under) = 3 /\ Marks \subseteq T
    BY KnownParts
  <2>2. PathForm(Cat(Under, id)) = Cat(PathForm(Under), PathForm(id)) /\ PathForm(id) \in Seq(T)
    BY <2>1, PathFormTyped, Zenon DEF Cat
  <2>3. PathForm(Under) = Under
    BY <2>1, PathFormPlain
  <2>4. Len(Cat(Under, PathForm(id))) = 3 + Len(PathForm(id)) /\ Len(Cat(Under, e)) = 3 + Len(e)
    <3>1. \A b \in Seq(T) : Len(Cat(Under, b)) = 3 + Len(b)
      BY <2>1, CatTyped
    <3> QED BY <1>1, <2>2, <3>1, Zenon
  <2> QED BY <2>2, <2>3, <2>4
<1>9. Len(e) \in Nat /\ Len(PathForm(id)) \in Nat
  BY <1>1, KnownParts, PathFormTyped
<1>10. /\ Len(PathForm(Cat(Under, id))) <= Len(Cat(Under, e))
       /\ Len(PathForm(Cat(Under, id))) = Len(Cat(Under, e)) => NoSlash(id)
  BY <1>2, <1>8, <1>9
<1>11. Cat(Under, e)[1] = "/" /\ Cat(Under, id)[1] = "/"
  BY <1>1, <1>4
<1> QED BY <1>3, <1>5, <1>6, <1>7, <1>10, <1>11 DEF e

LEMMA TwoParameters ==
  ASSUME NEW T, Known \subseteq T, NEW s \in Seq(T), s # <<>>, NEW id \in Seq(T), id # <<>>
  PROVE  Dispatched("GET", Cat(Pre, Cat(EscapeSegment(s), Cat(Under, EscapeSegment(id)))))
           = <<"getDownload", [secret |-> s, id |-> id]>>
<1> DEFINE x      == Cat(Under, EscapeSegment(id))
           y      == Cat(Under, id)
           wire   == Cat(Pre, Cat(EscapeSegment(s), x))
           url    == ParsePath(wire)
           routed == ServeHTTP("GET", url)
           params == DecodeParams(routed.op, routed.args, ElemIsEscaped(url))
<1>1. /\ x \in Seq(T) /\ y \in Seq(T) /\ x[1] = "/" /\ y[1] = "/"
      /\ PathUnescape(x) = y /\ NormalizeEscapedPath(x) = x /\ Len(PathForm(y)) <= Len(x)
      /\ Len(PathForm(y)) = Len(x) => NoSlash(id)
  BY IdRest
<1>2. /\ Marks \subseteq T /\ Pre \in Seq(T) /\ Under \in Seq(T)
      /\ EscapeSegment(s) \in Seq(T) /\ EscapeSegment(id) \in Seq(T) /\ NoSlash(EscapeSegment(id))
  BY KnownParts, SegmentTyped, SegmentIsOne
<1>3. ASSUME NEW a, NEW b \in Seq(T), NoSlash(b)
      PROVE  AfterSecret("GET", a, Cat(Under, b)) = Handle("getDownload", <<a, b>>)
  <2>1. {"/", "downloads"} \subseteq T
    BY DEF Known, Marks
  <2>2. AfterSecret("GET", a, Downloads \o (Slash \o b)) = Handle("getDownload", <<a, b>>)
    BY <1>3, <2>1, RestTaken
  <2>3. Cat(Under, b) = Downloads \o (Slash \o b)
    BY UnderSplit, Zenon
  <2> QED BY <2>2, <2>3, Zenon
<1> HIDE DEF x, y
<1>4. \/ routed = AfterSecret("GET", s, y) /\ ElemIsEscaped(url) = FALSE /\ Len(PathForm(y)) = Len(x)
      \/ routed = AfterSecret("GET", EscapeSegment(s), x) /\ ElemIsEscaped(url) = Contains(wire, "%")
  BY <1>1, SecretRouted
<1> HIDE DEF wire, url, routed
<1>5. \/ routed = Handle("getDownload", <<s, id>>) /\ ElemIsEscaped(url) = FALSE
      \/ routed = Handle("getDownload", <<EscapeSegment(s), EscapeSegment(id)>>) /\ ElemIsEscaped(url) = Contains(wire, "%")
  <2>1. NoSlash(id) => AfterSecret("GET", s, y) = Handle("getDownload", <<s, id>>)
    BY <1>3 DEF y
  <2>2. AfterSecret("GET", EscapeSegment(s), x) = Handle("getDownload", <<EscapeSegment(s), EscapeSegment(id)>>)
    BY <1>2, <1>3 DEF x
  <2> QED BY <1>1, <1>4, <2>1, <2>2
<1>6. ~Contains(wire, "%") => NoEscape(EscapeSegment(s)) /\ NoEscape(EscapeSegment(id))
  <2>1. ~Contains(wire, "%") => NoEscape(EscapeSegment(s)) /\ NoEscape(x)
    BY <1>1, <1>2, PartsOfPath DEF wire
  <2>2. NoEscape(x) => NoEscape(EscapeSegment(id))
    <3> SUFFICES ASSUME NoEscape(x), NEW i \in DOMAIN EscapeSegment(id) PROVE EscapeSegment(id)[i] # "%"
      BY DEF NoEscape, HasNo
    <3>1. Len(Under) = 3
      BY KnownParts
    <3>2. ASSUME NEW e \in Seq(T), NEW j \in 1..Len(e)
          PROVE  3 + j \in DOMAIN Cat(Under, e) /\ Cat(Under, e)[3+j] = e[j]
      <4>1. Len(Cat(Under, e)) = 3 + Len(e) /\ Cat(Under, e) \in Seq(T)
        BY <1>2, <3>1, CatTyped
      <4>2. Cat(Under, e)[Len(Under)+j] = e[j]
        BY <1>2 DEF Cat
      <4> QED BY <3>1, <4>1, <4>2
    <3>3. 3 + i \in DOMAIN x /\ x[3+i] = EscapeSegment(id)[i]
      <4>1. i \in 1..Len(EscapeSegment(id))
        BY <1>2
      <4> QED BY <1>2, <3>2, <4>1, Zenon DEF x
    <3>4. x[3+i] # "%"
      BY <3>3 DEF NoEscape, HasNo
    <3> QED BY <3>3, <3>4
  <2> QED BY <2>1, <2>2
<1>7. Contains(wire, "%") \in BOOLEAN
  BY DEF Contains
<1>8. decodeParam(EscapeSegment(s), Contains(wire, "%")) = s /\ decodeParam(EscapeSegment(id), Contains(wire, "%")) = id
  BY <1>2, <1>6, <1>7, ArgumentDecoded
<1>9. decodeParam(s, FALSE) = s /\ decodeParam(id, FALSE) = id
  BY DEF decodeParam
<1>10. \E a, b : /\ routed = Handle("getDownload", <<a, b>>)
                 /\ decodeParam(a, ElemIsEscaped(url)) = s /\ decodeParam(b, ElemIsEscaped(url)) = id
  BY <1>5, <1>8, <1>9
<1>11. routed.op = "getDownload" /\ params = [secret |-> s, id |-> id]
  <2>1. PICK a, b : /\ routed = Handle("getDownload", <<a, b>>)
                    /\ decodeParam(a, ElemIsEscaped(url)) = s /\ decodeParam(b, ElemIsEscaped(url)) = id
    BY <1>10
  <2>2. routed.op = "getDownload" /\ routed.args = <<a, b>> /\ <<a, b>>[1] = a /\ <<a, b>>[2] = b
    BY <2>1 DEF Handle
  <2>3. DecodeParams("getDownload", <<a, b>>, ElemIsEscaped(url))
          = [secret |-> decodeParam(<<a, b>>[1], ElemIsEscaped(url)), id |-> decodeParam(<<a, b>>[2], ElemIsEscaped(url))]
    BY DEF DecodeParams, decodeGetDownloadParams
  <2> QED BY <2>1, <2>2, <2>3, Zenon
<1> HIDE DEF params
<1>12. ~Refused(params)
  BY <1>11 DEF Refused, Invalid
<1>13. Dispatched("GET", wire) = <<routed.op, params>>
  BY <1>11, <1>12 DEF Dispatched, url, routed, params
<1> QED BY <1>11, <1>13 DEF wire, x

LEMMA HealthDispatched ==
  Mux(<<"/", "health">>) = "api" /\ Dispatched("GET", <<"/", "health">>) = <<"healthcheck", <<>> >>
<1> DEFINE h == <<"/", "health">>
           T == {"/", "health"}
<1>1. h \in Seq(T) /\ NoEscape(h) /\ h # <<>> /\ Len(h) = 2 /\ h[1] = "/" /\ h[2] = "health"
  BY DEF NoEscape, HasNo
<1>2. h # <<"/", "api">>
  OBVIOUS
<1>3. ~IsPrefix(<<"/", "api", "/">>, h)
  BY DEF IsPrefix
<1> HIDE DEF h
<1>4. Mux(h) = "api"
  BY <1>1, <1>2 DEF Mux, Redirects, h
<1>5. ParsePath(h) = [Path |-> h, RawPath |-> <<>>]
  <2>1. PathUnescape(h) = h
    BY <1>1, UnescapeWhole DEF PathUnescape
  <2>2. Escape({"%"}, h) = h
    BY <1>1, PathFormPlain DEF PathForm
  <2> QED BY <2>1, <2>2 DEF ParsePath
<1>6. Elem(ParsePath(h)) = h
  BY <1>5 DEF Elem
<1>7. Tree("GET", h) = Handle("healthcheck", <<>>)
  BY <1>3 DEF Tree, Leaf, h
<1>8. DecodeParams("healthcheck", <<>>, ElemIsEscaped(ParsePath(h))) = <<>>
  BY DEF DecodeParams
<1>9. ~Refused(<<>>)
  BY DEF Refused
<1>10. ServeHTTP("GET", ParsePath(h)) = [op |-> "healthcheck", args |-> <<>>, allow |-> {}]
  BY <1>6, <1>7 DEF ServeHTTP, Handle
<1>11. Dispatched("GET", h) = <<"healthcheck", <<>> >>
  BY <1>8, <1>9, <1>10 DEF Dispatched
<1> QED BY <1>4, <1>11 DEF h

-----------------------------------------------------------------------------
(* Calls.                                                                  *)

LEMMA KnownTokens == Known \subseteq Tokens
BY TokensAssumption DEF Known, Marks

LEMMA OneParameterCall ==
  ASSUME NEW op \in {"getChannelInfo", "listDownloads", "createDownload"}, NEW s \in Seq(Tokens), s # <<>>
  PROVE  LET path == BuildURL(op, [secret |-> s])
         IN Mux(path) = "api" /\ Dispatched(Method[op], path) = <<op, [secret |-> s]>>
<1> DEFINE e == EscapeSegment(s)
           x == IF op = "getChannelInfo" THEN <<>> ELSE Downloads
<1>1. e \in Seq(Tokens) /\ e # <<>> /\ NoSlash(e) /\ Pre \in Seq(Tokens) /\ Downloads \in Seq(Tokens)
  BY KnownTokens, KnownParts, SegmentTyped, NotEmpty, SegmentIsOne
<1>2. x \in Rests /\ x \in Seq(Tokens) /\ NoDouble(x)
  <2>1. x \in Rests
    BY DEF Rests
  <2> HIDE DEF x
  <2> QED BY <2>1, KnownTokens, PlainRest
<1>3. \A a : AfterSecret(Method[op], a, x) = Handle(op, <<a>>)
  <2>1. <<>> \in Seq(Tokens) /\ NoSlash(<<>>) /\ {"/", "downloads"} \subseteq Tokens
    BY KnownTokens DEF NoSlash, HasNo, Known, Marks
  <2>2. \A a : /\ AfterSecret("GET", a, <<>>) = Handle("getChannelInfo", <<a>>)
               /\ AfterSecret("GET", a, Downloads) = Handle("listDownloads", <<a>>)
               /\ AfterSecret("POST", a, Downloads) = Handle("createDownload", <<a>>)
    BY <2>1, RestTaken
  <2>3. /\ Method["getChannelInfo"] = "GET" /\ Method["listDownloads"] = "GET"
        /\ Method["createDownload"] = "POST"
    BY DEF Method
  <2>4. CASE op = "getChannelInfo"
    <3>1. x = <<>>
      BY <2>4
    <3> QED BY <2>2, <2>3, <2>4, <3>1, Zenon
  <2>5. CASE op = "listDownloads"
    <3>1. x = Downloads
      BY <2>5
    <3> QED BY <2>2, <2>3, <2>5, <3>1, Zenon
  <2>6. CASE op = "createDownload"
    <3>1. x = Downloads
      BY <2>6
    <3> QED BY <2>2, <2>3, <2>6, <3>1, Zenon
  <2> QED BY <2>4, <2>5, <2>6
<1>4. BuildURL(op, [secret |-> s]) = Cat(Pre, Cat(e, x))
  <2> HIDE DEF e
  <2>1. [secret |-> s].secret = s
    OBVIOUS
  <2>2. CASE op = "getChannelInfo"
    <3>1. BuildURL(op, [secret |-> s]) = Pre \o e
      BY <2>1, <2>2 DEF BuildURL, Pre, e
    <3>2. e \o <<>> = e /\ x = <<>>
      BY <1>1, <2>2
    <3> QED BY <3>1, <3>2, Zenon DEF Cat
  <2>3. CASE op # "getChannelInfo"
    <3>1. BuildURL(op, [secret |-> s]) = (Pre \o e) \o Downloads
      BY <2>1, <2>3 DEF BuildURL, Pre, Downloads, e
    <3>2. (Pre \o e) \o Downloads = Pre \o (e \o Downloads) /\ x = Downloads
      BY <1>1, <2>3, Associative
    <3> QED BY <3>1, <3>2, Zenon DEF Cat
  <2> QED BY <2>2, <2>3
<1> HIDE DEF x
<1>5. Dispatched(Method[op], Cat(Pre, Cat(e, x))) = <<op, [secret |-> s]>>
  BY <1>2, <1>3, KnownTokens, OneParameter
<1> HIDE DEF e
<1>6. Mux(Cat(Pre, Cat(e, x))) = "api"
  BY <1>1, <1>2, KnownTokens, MuxTaken
<1> QED BY <1>4, <1>5, <1>6

LEMMA FourParts ==
  ASSUME NEW T, NEW a \in Seq(T), NEW b \in Seq(T), NEW c \in Seq(T), NEW d \in Seq(T)
  PROVE  Cat(Cat(Cat(a, b), c), d) = Cat(a, Cat(b, Cat(c, d)))
<1> DEFINE ab == a \o b
           cd == c \o d
<1>1. ab \in Seq(T) /\ cd \in Seq(T)
  BY Associative
<1> HIDE DEF ab, cd
<1>2. (ab \o c) \o d = ab \o (c \o d)
  BY <1>1, Associative
<1>3. (a \o b) \o cd = a \o (b \o cd)
  BY <1>1, Associative
<1> QED BY <1>2, <1>3, Zenon DEF ab, cd, Cat

LEMMA TwoParameterCall ==
  ASSUME NEW s \in Seq(Tokens), s # <<>>, NEW i \in Seq(Tokens), i # <<>>
  PROVE  LET path == BuildURL("getDownload", [secret |-> s, id |-> i])
         IN Mux(path) = "api" /\ Dispatched("GET", path) = <<"getDownload", [secret |-> s, id |-> i]>>
<1> DEFINE e == EscapeSegment(s)
           f == EscapeSegment(i)
           x == Cat(Under, f)
<1>1. /\ e \in Seq(Tokens) /\ e # <<>> /\ NoSlash(e) /\ f \in Seq(Tokens)
      /\ Pre \in Seq(Tokens) /\ Under \in Seq(Tokens)
  BY KnownTokens, KnownParts, SegmentTyped, NotEmpty, SegmentIsOne
<1>2. x \in Seq(Tokens) /\ NoDouble(x)
  BY KnownTokens, IdRest
<1>3. Dispatched("GET", Cat(Pre, Cat(e, x))) = <<"getDownload", [secret |-> s, id |-> i]>>
  BY KnownTokens, TwoParameters
<1>4. BuildURL("getDownload", [secret |-> s, id |-> i]) = Cat(Cat(Cat(Pre, e), Under), f)
  BY DEF BuildURL, Pre, Under, Cat
<1> HIDE DEF e, f
<1>5. Cat(Cat(Cat(Pre, e), Under), f) = Cat(Pre, Cat(e, x))
  BY <1>1, FourParts
<1>6. BuildURL("getDownload", [secret |-> s, id |-> i]) = Cat(Pre, Cat(e, x))
  BY <1>4, <1>5, Zenon
<1> HIDE DEF x
<1>7. Mux(Cat(Pre, Cat(e, x))) = "api"
  BY <1>1, <1>2, KnownTokens, MuxTaken
<1> QED BY <1>3, <1>6, <1>7

LEMMA CallArrives ==
  ASSUME NEW op, NEW params, IsCall(op, params)
  PROVE  LET path == BuildURL(op, params)
         IN Mux(path) = "api" /\ Dispatched(Method[op], path) = <<op, params>>
<1>1. CASE op = "healthcheck" /\ params = <<>>
  <2>1. BuildURL(op, params) = <<"/", "health">> /\ Method[op] = "GET"
    BY <1>1 DEF BuildURL, Method
  <2> QED BY <1>1, <2>1, HealthDispatched, Zenon
<1>2. CASE op \in {"getChannelInfo", "listDownloads", "createDownload"} /\ params \in [secret : Texts]
  <2>1. PICK s : s \in Seq(Tokens) /\ s # <<>> /\ params = [secret |-> s]
    BY <1>2 DEF Texts
  <2> QED BY <1>2, <2>1, OneParameterCall, Zenon
<1>3. CASE op = "getDownload" /\ params \in [secret : Texts, id : Texts]
  <2>1. PICK s, i : /\ s \in Seq(Tokens) /\ s # <<>> /\ i \in Seq(Tokens) /\ i # <<>>
                    /\ params = [secret |-> s, id |-> i]
    BY <1>3 DEF Texts
  <2>2. Method[op] = "GET"
    BY <1>3 DEF Method
  <2> QED BY <1>3, <2>1, <2>2, TwoParameterCall, Zenon
<1> QED BY <1>1, <1>2, <1>3 DEF IsCall

\* App.tsx takes the whole of a link of one segment.
LEMMA LinkSecret ==
  ASSUME NEW secret \in Texts, NoSlash(secret)
  PROVE  AppSecret(<<"/">> \o secret) = secret
<1> DEFINE path  == <<"/">> \o secret
           N     == Len(secret)
           first == SelectInSeq(path, LAMBDA t : t # "/")
           text  == {i \in 1..Len(path) : path[i] # "/"}
           named == IF first = 0 THEN <<>> ELSE SubSeq(path, first, Len(path))
           slash == SelectInSeq(named, LAMBDA t : t = "/")
<1>1. /\ secret \in Seq(Tokens) /\ N \in Nat /\ N >= 1
      /\ \A i \in 1..N : secret[i] # "/"
  BY DEF Texts, NoSlash, HasNo
<1>2. /\ Len(path) = N + 1 /\ path[1] = "/" /\ \A i \in 1..N : path[i + 1] = secret[i]
      /\ path \in Seq(Tokens)
  BY <1>1, TokensAssumption
<1>3. first = IF text # {} THEN Min(text) ELSE 0
  BY DEF SelectInSeq
<1>4. first = 2
  <2> HIDE DEF path
  <2>1. path[2] = secret[1]
    BY <1>1, <1>2
  <2>2. 2 \in text /\ \A i \in text : i \in Nat /\ 2 <= i
    BY <1>1, <1>2, <2>1
  <2> HIDE DEF text
  <2>3. Min(text) = 2
    <3>1. \A x \in text : (\A y \in text : x =< y) => x = 2
      BY <2>2
    <3> QED BY <2>2, <3>1 DEF Min
  <2> QED BY <1>3, <2>2, <2>3
<1>5. SubSeq(path, 2, Len(path)) = secret
  <2> HIDE DEF path, N
  <2>1. SubSeq(path, 2, Len(path)) = [i \in 1..N |-> path[i + 1]]
    BY <1>1, <1>2
  <2>2. secret = [i \in 1..N |-> secret[i]]
    BY <1>1 DEF N
  <2> QED BY <1>2, <2>1, <2>2
<1> HIDE DEF path
<1>6. named = secret
  <2> HIDE DEF first
  <2> QED BY <1>4, <1>5
<1>7. slash = 0
  <2>1. slash = IF {i \in 1..Len(named) : named[i] = "/"} # {} THEN Min({i \in 1..Len(named) : named[i] = "/"}) ELSE 0
    BY DEF SelectInSeq
  <2> HIDE DEF named, slash
  <2>2. {i \in 1..Len(named) : named[i] = "/"} = {}
    BY <1>1, <1>6
  <2> QED BY <2>1, <2>2
<1>8. AppSecret(path) = IF slash = 0 THEN named ELSE SubSeq(named, 1, slash - 1)
  BY DEF AppSecret
<1> HIDE DEF named, slash
<1>9. AppSecret(path) = secret
  BY <1>6, <1>7, <1>8
<1> QED BY <1>9 DEF path

\* The page asks for the channel of the segment as it is written in the location.
LEMMA PageArrives ==
  ASSUME NEW secret \in Texts
  PROVE  LET segment == EscapeSegment(secret)
             params  == [secret |-> segment]
         IN /\ segment \in Texts /\ AppSecret(Location(secret)) = segment
            /\ IsCall("getChannelInfo", params) /\ PageURL(segment) = BuildURL("getChannelInfo", params)
            /\ Dispatched("GET", PageURL(segment)) = <<"getChannelInfo", params>>
<1> DEFINE segment == EscapeSegment(secret)
           params  == [secret |-> segment]
<1>1. Marks \subseteq Tokens /\ secret \in Seq(Tokens) /\ secret # <<>>
  BY TokensAssumption DEF Marks, Texts
<1>2. segment \in Seq(Tokens) /\ NoSlash(segment)
  BY <1>1, SegmentTyped, SegmentIsOne
<1>3. segment # <<>>
  BY <1>1, NotEmpty
<1>4. segment \in Texts
  BY <1>2, <1>3 DEF Texts
<1>5. AppSecret(Location(secret)) = segment
  BY <1>2, <1>4, LinkSecret, Zenon DEF Location
<1> HIDE DEF segment
<1>6. IsCall("getChannelInfo", params)
  BY <1>4 DEF IsCall
<1>7. PageURL(segment) = BuildURL("getChannelInfo", params)
  BY DEF PageURL, BuildURL
<1>8. Dispatched(Method["getChannelInfo"], BuildURL("getChannelInfo", params)) = <<"getChannelInfo", params>>
  BY <1>6, CallArrives
<1>9. Method["getChannelInfo"] = "GET"
  BY DEF Method
<1> QED BY <1>4, <1>5, <1>6, <1>7, <1>8, <1>9 DEF segment

=============================================================================
