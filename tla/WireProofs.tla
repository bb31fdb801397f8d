----------------------------- MODULE WireProofs -----------------------------
(***************************************************************************)
(* Theorems about module Wire, for every set of requests, calls, responses *)
(* and documents.  MessageProofs has what becomes of a call and of a       *)
(* response; what becomes of a document and of a request is proved here.   *)
(*                                                                         *)
(* A request's path is any path: it is taken apart into the parts between  *)
(* its slashes, and the router, which looks at the path in one of two      *)
(* forms (its Views), is shown to take apart both forms alike.             *)
(***************************************************************************)
EXTENDS Wire, MessageProofs

-----------------------------------------------------------------------------
(* Documents.                                                              *)

MeetsAll(v, fields)  == Meets(v, fields, HasType)
MeaningOf(v, fields) == Meaning(v, fields, ValueOf)

\* The places where a field has its type, and what it then means there.
Right(v, fields) == {i \in 1..Len(v[2]) : HasType(fields[v[2][i][1]], v[2][i][2])}

Meant(v, fields) ==
  [i \in 1..Len(v[2]) |-> ValueOf(fields[v[2][i][1]], v[2][i][2])]

Required(fields) == {k \in DOMAIN fields : fields[k] \notin Optional}

\* The fields of v, read into s from s0.
ReadFrom(v, fields, s0, s, seen) ==
  DownloadFields!Read(v[2], Len(v[2]), DOMAIN fields, Meant(v, fields), s0, s, seen)

\* r is what reading the fields of v comes to.
ReadAs(v, fields, s0, r) ==
  IF \A i \in 1..Len(v[2]) : v[2][i][1] \in DOMAIN fields => i \in Right(v, fields)
  THEN \E s, seen : r = Ok([s |-> s, seen |-> seen]) /\ ReadFrom(v, fields, s0, s, seen)
  ELSE r = Fail

LEMMA PlacesOccur ==
  ASSUME NEW v, v[1] = "obj", IsFields(v), NEW key
  PROVE  /\ DownloadFields!Occurs(v[2], Len(v[2]), key) = Places(v, key)
         /\ Places(v, key) \subseteq 1..Len(v[2])
         /\ \A i \in Places(v, key) : v[2][i][1] = key
BY DEF IsFields, Places, DownloadFields!Occurs

\* What was read is the meaning of the object, if what is required was seen.
LEMMA ReadIsMeaning ==
  ASSUME NEW v, v[1] = "obj", IsFields(v), NEW fields, NEW s0, NEW s, NEW seen,
         ReadFrom(v, fields, s0, s, seen), Required(fields) \subseteq seen,
         \A k \in DOMAIN fields : fields[k] \in Optional => s0[k] = Unset
  PROVE  s = MeaningOf(v, fields)
<1>1. ASSUME NEW k \in DOMAIN fields, Places(v, k) = {}
      PROVE  s[k] = Unset
  <2>1. s[k] = s0[k] /\ k \notin seen
    BY <1>1, PlacesOccur DEF ReadFrom, DownloadFields!Read
  <2> QED BY <2>1 DEF Required
<1>2. ASSUME NEW k \in DOMAIN fields, Places(v, k) # {}
      PROVE  s[k] = ValueOf(fields[k], v[2][Max(Places(v, k))][2])
  <2>1. PICK i \in Places(v, k) : s[k] = Meant(v, fields)[i] /\ \A j \in Places(v, k) : j <= i
    BY <1>2, PlacesOccur DEF ReadFrom, DownloadFields!Read
  <2>2. Places(v, k) \subseteq 1..Len(v[2]) /\ v[2][i][1] = k
    BY PlacesOccur
  <2>3. Max(Places(v, k)) = i
    <3> DEFINE P == Places(v, k)
    <3>1. i \in P /\ P \subseteq Int /\ \A j \in P : j <= i
      BY <2>1, <2>2
    <3> HIDE DEF P
    <3>2. \E x \in P : \A y \in P : x >= y
      BY <3>1
    <3>3. Max(P) \in P /\ \A y \in P : Max(P) >= y
      BY <3>2, Zenon DEF Max
    <3>4. Max(P) \in Int /\ i \in Int /\ Max(P) >= i /\ Max(P) <= i
      BY <3>1, <3>3
    <3>5. Max(P) = i
      BY <3>4
    <3> QED BY <3>5 DEF P
  <2> QED BY <2>1, <2>2, <2>3 DEF Meant
<1>3. s = [k \in DOMAIN fields |-> s[k]]
  BY DEF ReadFrom, DownloadFields!Read
<1> QED BY <1>1, <1>2, <1>3 DEF MeaningOf, Meaning

\* A decoder that reads the fields and then checks what it saw.
LEMMA RequiredRead ==
  ASSUME NEW v, v[1] = "obj", IsFields(v), NEW fields, NEW s0, NEW r, ReadAs(v, fields, s0, r),
         \A k \in DOMAIN fields : fields[k] \in Optional => s0[k] = Unset
  PROVE  LET d == Require(Required(fields), r)
         IN (d.ok <=> MeetsAll(v, fields)) /\ (d.ok => d.value = MeaningOf(v, fields))
<1> DEFINE d == Require(Required(fields), r)
           Fits1 == \A i \in 1..Len(v[2]) : v[2][i][1] \in DOMAIN fields => i \in Right(v, fields)
<1>1. Fits1 <=> \A k \in DOMAIN fields : \A i \in Places(v, k) : HasType(fields[k], v[2][i][2])
  BY DEF IsFields, Places, Right
<1>2. CASE ~Fits1
  <2>1. r = Fail
    BY <1>2 DEF ReadAs
  <2> HIDE DEF Fits1
  <2>2. d = Fail
    BY <2>1 DEF Require, Fail
  <2> QED BY <1>1, <1>2, <2>2 DEF MeetsAll, Meets, Fail
<1>3. CASE Fits1
  <2>1. PICK s, seen : r = Ok([s |-> s, seen |-> seen]) /\ ReadFrom(v, fields, s0, s, seen)
    BY <1>3 DEF ReadAs
  <2> HIDE DEF Fits1
  <2>2. Required(fields) \subseteq seen <=> \A k \in DOMAIN fields : Places(v, k) = {} => fields[k] \in Optional
    BY <2>1, PlacesOccur DEF ReadFrom, DownloadFields!Read, Required
  <2>3. d = IF Required(fields) \subseteq seen THEN Ok(s) ELSE Fail
    BY <2>1 DEF Require, Ok
  <2>4. d.ok <=> Required(fields) \subseteq seen
    BY <2>3 DEF Ok, Fail
  <2>5. MeetsAll(v, fields) <=> Required(fields) \subseteq seen
    BY <1>1, <1>3, <2>2 DEF MeetsAll, Meets
  <2>6. d.ok => d.value = s /\ s = MeaningOf(v, fields)
    BY <2>1, <2>3, <2>4, ReadIsMeaning DEF Ok
  <2> QED BY <2>4, <2>5, <2>6
<1> QED BY <1>2, <1>3

LEMMA JsonObject ==
  ASSUME NEW v, NEW s
  PROVE  /\ v[1] # "obj" => ObjBytes(v, s, SingleField) = Fail /\ ObjBytes(v, s, DownloadField) = Fail
         /\ v[1] = "obj" =>
              /\ ObjBytes(v, s, SingleField) = SingleFields!After(SingleFields!State(s, {}), v[2])
              /\ ObjBytes(v, s, DownloadField) = DownloadFields!After(DownloadFields!State(s, {}), v[2])
<1>1. v[1] # "obj" => ObjBytes(v, s, SingleField) = Fail /\ ObjBytes(v, s, DownloadField) = Fail
  BY Zenon DEF ObjBytes
<1>2. ASSUME v[1] = "obj"
      PROVE  ObjBytes(v, s, SingleField) = SingleFields!After(SingleFields!State(s, {}), v[2])
  BY <1>2, Zenon DEF ObjBytes, SingleFields!After, SingleFields!Results, SingleFields!Follows,
                     SingleFields!Then, SingleFields!State, Fail, Ok, Undecoded
<1>3. ASSUME v[1] = "obj"
      PROVE  ObjBytes(v, s, DownloadField) = DownloadFields!After(DownloadFields!State(s, {}), v[2])
  BY <1>3, Zenon DEF ObjBytes, DownloadFields!After, DownloadFields!Results, DownloadFields!Follows,
                     DownloadFields!Then, DownloadFields!State, Fail, Ok, Undecoded
<1> QED BY <1>1, <1>2, <1>3

LEMMA AssignedOrFailed ==
  ASSUME NEW s, NEW seen, NEW k, NEW r
  PROVE  Assign([s |-> s, seen |-> seen], k, r)
           = IF r.ok THEN Ok([s |-> [s EXCEPT ![k] = r.value], seen |-> seen \union {k}]) ELSE Fail
BY DEF Assign

\* The decoders of the values take what has the type, and mean it.
LEMMA ValuesDecoded ==
  ASSUME NEW v
  PROVE  /\ DecodeStr(v) = IF HasType("string", v) THEN Ok(v[2]) ELSE Fail
         /\ DecodeOptString(v) = IF HasType("string?", v) THEN Ok(NewOpt(v[2])) ELSE Fail
         /\ DecodeDownloadStatus(v) = IF HasType("DownloadStatus", v) THEN Ok(v[2]) ELSE Fail
         /\ DecodeInt32(v) = IF HasType("int32", v) THEN Ok(v[2]) ELSE Fail
         /\ DecodeDateTime(v) = IF HasType("utcDateTime", v) THEN Ok(v[2]) ELSE Fail
         /\ DecodeOptDateTime(v) = IF HasType("utcDateTime?", v) THEN Ok(NewOpt(v[2])) ELSE Fail
<1>1. Ok(v[2]).ok = TRUE /\ Ok(v[2]).value = v[2] /\ Fail.ok = FALSE
  BY DEF Ok, Fail
<1>2. /\ DecodeStr(v) = IF HasType("string", v) THEN Ok(v[2]) ELSE Fail
      /\ DecodeInt32(v) = IF HasType("int32", v) THEN Ok(v[2]) ELSE Fail
      /\ DecodeDateTime(v) = IF HasType("utcDateTime", v) THEN Ok(v[2]) ELSE Fail
  BY DEF DecodeStr, DecodeInt32, DecodeDateTime, HasType, IsScalar, Enums
<1>3. /\ HasType("string?", v) <=> HasType("string", v)
      /\ HasType("DownloadStatus", v) <=> HasType("string", v)
      /\ HasType("utcDateTime?", v) <=> HasType("utcDateTime", v)
  BY DEF HasType, IsScalar, Enums
<1> QED BY <1>1, <1>2, <1>3 DEF DecodeOptString, DecodeOptDateTime, DecodeDownloadStatus

LEMMA SingleRead ==
  ASSUME NEW key, NEW v, v[1] = "obj", IsFields(v), NEW fields, fields = [k \in {key} |-> "string"]
  PROVE  ReadAs(v, fields, [k \in {key} |-> ""], ObjBytes(v, [k \in {key} |-> ""], SingleField))
<1> DEFINE f == v[2]
           s0 == [k \in {key} |-> ""]
           right == Right(v, fields)
           val == Meant(v, fields)
<1>1. Len(f) \in Nat
  BY DEF IsFields
<1>2. /\ DOMAIN fields = {key} /\ \A k \in {key} : fields[k] = "string"
      /\ \A y : ValueOf("string", y) = y[2]
  BY DEF ValueOf, ScalarValue, Optional
<1>3. ASSUME NEW i \in 1..Len(f), NEW s, NEW seen, s = [k \in {key} |-> s[k]]
      PROVE  SingleField([s |-> s, seen |-> seen], f[i][1], f[i][2])
               = IF f[i][1] \notin {key} THEN SingleFields!State(s, seen)
                 ELSE IF i \in right THEN SingleFields!State([s EXCEPT ![f[i][1]] = val[i]], seen \union {f[i][1]})
                 ELSE [ok |-> FALSE]
  <2> DEFINE k == f[i][1]
             x == f[i][2]
  <2>1. SingleField([s |-> s, seen |-> seen], k, x)
          = IF k \in {key} THEN Assign([s |-> s, seen |-> seen], k, DecodeStr(x)) ELSE Ok([s |-> s, seen |-> seen])
    <3>1. DOMAIN s = {key}
      BY <1>3
    <3> HIDE DEF k, x
    <3> QED BY <3>1 DEF SingleField
  <2>2. DecodeStr(x) = IF HasType("string", x) THEN Ok(x[2]) ELSE Fail
    BY ValuesDecoded, Zenon
  <2>3. k = key => (i \in right <=> HasType("string", x)) /\ val[i] = x[2]
    BY <1>2 DEF Right, Meant
  <2> HIDE DEF k, x, right, val
  <2>4. Assign([s |-> s, seen |-> seen], k, DecodeStr(x))
          = IF HasType("string", x) THEN Ok([s |-> [s EXCEPT ![k] = x[2]], seen |-> seen \union {k}]) ELSE Fail
    <3>1. Assign([s |-> s, seen |-> seen], k, DecodeStr(x))
            = IF DecodeStr(x).ok
              THEN Ok([s |-> [s EXCEPT ![k] = DecodeStr(x).value], seen |-> seen \union {k}]) ELSE Fail
      BY AssignedOrFailed, Zenon
    <3>2. IF HasType("string", x) THEN DecodeStr(x).ok = TRUE /\ DecodeStr(x).value = x[2] ELSE DecodeStr(x).ok = FALSE
      BY <2>2 DEF Ok, Fail
    <3> QED BY <3>1, <3>2
  <2>5. SingleField([s |-> s, seen |-> seen], k, x)
          = IF k \notin {key} THEN SingleFields!State(s, seen)
            ELSE IF i \in right THEN SingleFields!State([s EXCEPT ![k] = val[i]], seen \union {k})
            ELSE [ok |-> FALSE]
    BY <2>1, <2>3, <2>4 DEF SingleFields!State, Ok, Fail
  <2> QED BY <2>5 DEF k, x
<1>4. s0 = [k \in {key} |-> s0[k]]
  OBVIOUS
<1> HIDE DEF f, s0, right, val
<1>5. IF \A i \in 1..Len(f) : f[i][1] \in {key} => i \in right
      THEN \E s, seen : /\ SingleFields!After(SingleFields!State(s0, {}), f) = SingleFields!State(s, seen)
                       /\ SingleFields!Read(f, Len(f), {key}, val, s0, s, seen)
      ELSE SingleFields!After(SingleFields!State(s0, {}), f) = [ok |-> FALSE]
  <2>1. SingleFields!Decodes(f, {key}, right, val)
    BY <1>3, Zenon DEF SingleFields!Decodes
  <2>2. SingleFields!Comes(f, {key}, right, val, s0)
    BY <1>1, <1>4, <2>1, SingleFields!FieldsRead
  <2> QED BY <2>2, Zenon DEF SingleFields!Comes
<1>6. ObjBytes(v, s0, SingleField) = SingleFields!After(SingleFields!State(s0, {}), f)
  BY JsonObject DEF f
<1>7. ASSUME NEW s, NEW seen
      PROVE  /\ SingleFields!Read(f, Len(f), {key}, val, s0, s, seen) <=> ReadFrom(v, fields, s0, s, seen)
             /\ SingleFields!State(s, seen) = Ok([s |-> s, seen |-> seen])
  BY <1>2, Zenon DEF SingleFields!Read, SingleFields!Occurs, SingleFields!State, Ok, ReadFrom, DownloadFields!Read,
                     DownloadFields!Occurs, f, val
<1> QED BY <1>2, <1>5, <1>6, <1>7 DEF ReadAs, Fail, f, s0, right

LEMMA DownloadType ==
  LET fields == Schema["Download"]
  IN /\ DOMAIN fields = {"id", "url", "title", "status", "progress", "filename", "error", "createdAt", "completedAt"}
     /\ \A k \in {"id", "url"} : fields[k] = "string"
     /\ fields["status"] = "DownloadStatus"
     /\ \A k \in {"title", "filename", "error"} : fields[k] = "string?"
     /\ fields["progress"] = "int32" /\ fields["createdAt"] = "utcDateTime" /\ fields["completedAt"] = "utcDateTime?"
     /\ DOMAIN ZeroDownload = DOMAIN fields
     /\ ZeroDownload = [k \in DOMAIN fields |-> ZeroDownload[k]]
     /\ \A k \in {"title", "filename", "error", "completedAt"} : ZeroDownload[k] = Unset
<1> DEFINE fields == Schema["Download"]
           keys == {"id", "url", "title", "status", "progress", "filename", "error", "createdAt", "completedAt"}
           z == ZeroDownload
<1>1. fields = [id |-> "string", url |-> "string", title |-> "string?", status |-> "DownloadStatus",
                progress |-> "int32", filename |-> "string?", error |-> "string?", createdAt |-> "utcDateTime", completedAt |-> "utcDateTime?"]
  BY DEF Schema
<1> HIDE DEF fields
<1>2. DOMAIN fields = keys /\ DOMAIN z = keys
  BY <1>1 DEF ZeroDownload
<1>3. /\ \A k \in {"id", "url"} : fields[k] = "string"
      /\ fields["status"] = "DownloadStatus"
      /\ \A k \in {"title", "filename", "error"} : fields[k] = "string?"
      /\ fields["progress"] = "int32" /\ fields["createdAt"] = "utcDateTime" /\ fields["completedAt"] = "utcDateTime?"
  BY <1>1
<1>4. z = [k \in DOMAIN z |-> z[k]]
  BY DEF ZeroDownload
<1>5. \A k \in {"title", "filename", "error", "completedAt"} : z[k] = Unset
  <2>1. z.title = Unset /\ z.filename = Unset /\ z.error = Unset /\ z.completedAt = Unset
    BY DEF ZeroDownload
  <2> HIDE DEF z
  <2> QED BY <2>1
<1> HIDE DEF keys, z
<1>6. z = [k \in DOMAIN fields |-> z[k]]
  BY <1>2, <1>4
<1> QED BY <1>2, <1>3, <1>5, <1>6 DEF fields, keys, z

\* One field of a download, by what its type says.
LEMMA DownloadFieldRead ==
  ASSUME NEW s, NEW seen, NEW k, NEW x
  PROVE  LET fields == Schema["Download"]
             state  == [s |-> s, seen |-> seen]
         IN DownloadField(state, k, x)
              = IF k \notin DOMAIN fields THEN Ok(state)
                ELSE IF HasType(fields[k], x)
                THEN Ok([s |-> [s EXCEPT ![k] = ValueOf(fields[k], x)], seen |-> seen \union {k}])
                ELSE Fail
<1> DEFINE fields == Schema["Download"]
           state  == [s |-> s, seen |-> seen]
           Assigned1(y) == Ok([s |-> [s EXCEPT ![k] = y], seen |-> seen \union {k}])
<1>1. ASSUME NEW type, NEW y
      PROVE  Assign(state, k, IF HasType(type, x) THEN Ok(y) ELSE Fail)
               = IF HasType(type, x) THEN Assigned1(y) ELSE Fail
  <2> DEFINE r == IF HasType(type, x) THEN Ok(y) ELSE Fail
  <2>1. IF HasType(type, x) THEN r.ok = TRUE /\ r.value = y ELSE r.ok = FALSE
    BY DEF Ok, Fail
  <2> HIDE DEF r
  <2>2. Assign(state, k, r) = IF r.ok THEN Assigned1(r.value) ELSE Fail
    BY AssignedOrFailed
  <2> HIDE DEF Assigned1, state
  <2>3. Assign(state, k, r) = IF HasType(type, x) THEN Assigned1(y) ELSE Fail
    BY <2>1, <2>2
  <2> QED BY <2>3 DEF r
<1>2. k \in {"id", "url"} =>
        DownloadField(state, k, x) = IF HasType("string", x) THEN Assigned1(x[2]) ELSE Fail
  <2>1. k \in {"id", "url"} => DownloadField(state, k, x) = Assign(state, k, DecodeStr(x))
    BY DEF DownloadField
  <2> QED BY <1>1, <2>1, ValuesDecoded
<1>10. k = "status" => DownloadField(state, k, x) = IF HasType("DownloadStatus", x) THEN Assigned1(x[2]) ELSE Fail
  <2>1. k = "status" => DownloadField(state, k, x) = Assign(state, k, DecodeDownloadStatus(x))
    BY DEF DownloadField
  <2> QED BY <1>1, <2>1, ValuesDecoded
<1>3. k \in {"title", "filename", "error"} =>
        DownloadField(state, k, x) = IF HasType("string?", x) THEN Assigned1(NewOpt(x[2])) ELSE Fail
  <2>1. k \in {"title", "filename", "error"} => DownloadField(state, k, x) = Assign(state, k, DecodeOptString(x))
    BY DEF DownloadField
  <2> QED BY <1>1, <2>1, ValuesDecoded
<1>4. k = "progress" => DownloadField(state, k, x) = IF HasType("int32", x) THEN Assigned1(x[2]) ELSE Fail
  <2>1. k = "progress" => DownloadField(state, k, x) = Assign(state, k, DecodeInt32(x))
    BY DEF DownloadField
  <2> QED BY <1>1, <2>1, ValuesDecoded
<1>5. k = "createdAt" => DownloadField(state, k, x) = IF HasType("utcDateTime", x) THEN Assigned1(x[2]) ELSE Fail
  <2>1. k = "createdAt" => DownloadField(state, k, x) = Assign(state, k, DecodeDateTime(x))
    BY DEF DownloadField
  <2> QED BY <1>1, <2>1, ValuesDecoded
<1>6. k = "completedAt" =>
        DownloadField(state, k, x) = IF HasType("utcDateTime?", x) THEN Assigned1(NewOpt(x[2])) ELSE Fail
  <2>1. k = "completedAt" => DownloadField(state, k, x) = Assign(state, k, DecodeOptDateTime(x))
    BY DEF DownloadField
  <2> QED BY <1>1, <2>1, ValuesDecoded
<1>7. k \notin DOMAIN fields => DownloadField(state, k, x) = Ok(state)
  BY DownloadType DEF DownloadField
<1>8. /\ \A type \in {"string", "DownloadStatus", "int32", "utcDateTime"} : ValueOf(type, x) = x[2]
      /\ \A type \in {"string?", "utcDateTime?"} : ValueOf(type, x) = NewOpt(x[2])
  BY DEF ValueOf, ScalarValue, Optional
<1>9. DownloadField(state, k, x)
        = IF k \notin DOMAIN fields THEN Ok(state)
          ELSE IF HasType(fields[k], x) THEN Assigned1(ValueOf(fields[k], x))
          ELSE Fail
  <2> HIDE DEF Assigned1, state
  <2>1. CASE k \notin DOMAIN fields
    BY <1>7, <2>1
  <2>2. CASE k \in {"id", "url"}
    BY <1>2, <1>8, <2>2, DownloadType
  <2>5. CASE k = "status"
    BY <1>8, <1>10, <2>5, DownloadType
  <2>3. CASE k \in {"title", "filename", "error"}
    BY <1>3, <1>8, <2>3, DownloadType
  <2>4. CASE k \in {"progress", "createdAt", "completedAt"}
    BY <1>4, <1>5, <1>6, <1>8, <2>4, DownloadType
  <2> QED BY <2>1, <2>2, <2>3, <2>4, <2>5, DownloadType
<1> QED BY <1>9

LEMMA DownloadRead ==
  ASSUME NEW v, v[1] = "obj", IsFields(v)
  PROVE  ReadAs(v, Schema["Download"], ZeroDownload, ObjBytes(v, ZeroDownload, DownloadField))
<1> DEFINE f == v[2]
           fields == Schema["Download"]
           right == Right(v, fields)
           val == Meant(v, fields)
<1>1. Len(f) \in Nat
  BY DEF IsFields
<1>2. ASSUME NEW i \in 1..Len(f), NEW s, NEW seen
      PROVE  DownloadField([s |-> s, seen |-> seen], f[i][1], f[i][2])
               = IF f[i][1] \notin DOMAIN fields THEN DownloadFields!State(s, seen)
                 ELSE IF i \in right THEN DownloadFields!State([s EXCEPT ![f[i][1]] = val[i]], seen \union {f[i][1]})
                 ELSE [ok |-> FALSE]
  <2> DEFINE k == f[i][1]
             x == f[i][2]
  <2>1. (i \in right <=> HasType(fields[k], x)) /\ val[i] = ValueOf(fields[k], x)
    BY DEF Right, Meant
  <2>2. DownloadField([s |-> s, seen |-> seen], k, x)
          = IF k \notin DOMAIN fields THEN Ok([s |-> s, seen |-> seen])
            ELSE IF HasType(fields[k], x)
            THEN Ok([s |-> [s EXCEPT ![k] = ValueOf(fields[k], x)], seen |-> seen \union {k}])
            ELSE Fail
    BY DownloadFieldRead, Zenon
  <2> HIDE DEF k, x, right, val, fields
  <2>3. DownloadField([s |-> s, seen |-> seen], k, x)
          = IF k \notin DOMAIN fields THEN DownloadFields!State(s, seen)
            ELSE IF i \in right THEN DownloadFields!State([s EXCEPT ![k] = val[i]], seen \union {k})
            ELSE [ok |-> FALSE]
    BY <2>1, <2>2 DEF DownloadFields!State, Ok, Fail
  <2> QED BY <2>3 DEF k, x
<1>3. ZeroDownload = [k \in DOMAIN fields |-> ZeroDownload[k]]
  BY DownloadType
<1> HIDE DEF f, fields, right, val
<1>4. DownloadFields!Decodes(f, DOMAIN fields, right, val)
  BY <1>2, Zenon DEF DownloadFields!Decodes
<1>5. DownloadFields!Comes(f, DOMAIN fields, right, val, ZeroDownload)
  BY <1>1, <1>3, <1>4, DownloadFields!FieldsRead
<1>6. ObjBytes(v, ZeroDownload, DownloadField) = DownloadFields!After(DownloadFields!State(ZeroDownload, {}), f)
  BY JsonObject DEF f
<1>7. \A s, seen : DownloadFields!State(s, seen) = Ok([s |-> s, seen |-> seen])
  BY DEF DownloadFields!State, Ok
<1> QED BY <1>5, <1>6, <1>7 DEF DownloadFields!Comes, ReadAs, ReadFrom, Fail, f, fields, right, val

\* A decoder takes an object of its type, and what it makes of it is its meaning.
LEMMA SingleUnderstood ==
  ASSUME NEW key, NEW v, IsFields(v), NEW fields, fields = [k \in {key} |-> "string"]
  PROVE  (DecodeSingle(key, v).ok <=> MeetsAll(v, fields)) /\ (DecodeSingle(key, v).ok => DecodeSingle(key, v).value = MeaningOf(v, fields))
<1> DEFINE s0 == [k \in {key} |-> ""]
           r  == ObjBytes(v, s0, SingleField)
<1>1. DecodeSingle(key, v) = Require({key}, r)
  BY Zenon DEF DecodeSingle
<1>2. CASE v[1] # "obj"
  <2>1. r = Fail
    BY <1>2, JsonObject
  <2> HIDE DEF r
  <2>2. Require({key}, r).ok = FALSE
    BY <2>1 DEF Require, Fail
  <2> QED BY <1>1, <1>2, <2>2 DEF MeetsAll, Meets
<1>3. CASE v[1] = "obj"
  <2>1. ReadAs(v, fields, s0, r)
    BY <1>3, SingleRead, Zenon
  <2>2. Required(fields) = {key} /\ \A k \in DOMAIN fields : fields[k] \notin Optional
    BY DEF Required, Optional
  <2> HIDE DEF r, s0
  <2>3. LET d == Require(Required(fields), r)
        IN (d.ok <=> MeetsAll(v, fields)) /\ (d.ok => d.value = MeaningOf(v, fields))
    BY <1>3, <2>1, <2>2, RequiredRead
  <2> QED BY <1>1, <2>2, <2>3
<1> QED BY <1>2, <1>3

LEMMA DownloadUnderstood ==
  ASSUME NEW v, IsFields(v)
  PROVE  LET fields == Schema["Download"]
         IN (DecodeDownload(v).ok <=> MeetsAll(v, fields)) /\ (DecodeDownload(v).ok => DecodeDownload(v).value = MeaningOf(v, fields))
<1> DEFINE fields == Schema["Download"]
           r  == ObjBytes(v, ZeroDownload, DownloadField)
<1>1. DecodeDownload(v) = Require({"id", "url", "status", "progress", "createdAt"}, r)
  BY Zenon DEF DecodeDownload
<1>2. CASE v[1] # "obj"
  <2>1. r = Fail
    BY <1>2, JsonObject
  <2> QED BY <1>1, <1>2, <2>1 DEF Require, Fail, MeetsAll, Meets
<1>3. CASE v[1] = "obj"
  <2>1. ReadAs(v, fields, ZeroDownload, r)
    BY <1>3, DownloadRead, Zenon
  <2>2. /\ Required(fields) = {"id", "url", "status", "progress", "createdAt"}
        /\ \A k \in DOMAIN fields : fields[k] \in Optional => ZeroDownload[k] = Unset
    BY DownloadType DEF Required, Optional
  <2> HIDE DEF r, fields
  <2>3. LET d == Require(Required(fields), r)
        IN (d.ok <=> MeetsAll(v, fields)) /\ (d.ok => d.value = MeaningOf(v, fields))
    BY <1>3, <2>1, <2>2, RequiredRead
  <2> QED BY <1>1, <2>2, <2>3 DEF fields
<1> QED BY <1>2, <1>3

\* In an array, where no field is an array itself, the types are those of scalars.
LEMMA ElementFlat ==
  ASSUME NEW v
  PROVE  /\ Meets(v, Schema["Download"], IsScalar) <=> MeetsAll(v, Schema["Download"])
         /\ Meaning(v, Schema["Download"], ScalarValue) = MeaningOf(v, Schema["Download"])
<1> DEFINE fields == Schema["Download"]
<1>1. \A k \in DOMAIN fields : fields[k] # "Download[]"
  <2>1. DOMAIN fields = {"id", "url"} \union {"title", "filename", "error"}
                          \union {"status", "progress", "createdAt", "completedAt"}
    BY DownloadType
  <2> HIDE DEF fields
  <2> QED BY <2>1, DownloadType DEF fields
<1> HIDE DEF fields
<1>2. \A k \in DOMAIN fields : \A x : /\ HasType(fields[k], x) <=> IsScalar(fields[k], x)
                                      /\ ValueOf(fields[k], x) = ScalarValue(fields[k], x)
  BY <1>1 DEF HasType, ValueOf
<1>3. Meets(v, fields, IsScalar) <=> MeetsAll(v, fields)
  BY <1>2, Zenon DEF MeetsAll, Meets
<1>4. Meaning(v, fields, ScalarValue) = MeaningOf(v, fields)
  BY <1>2 DEF MeaningOf, Meaning
<1> QED BY <1>3, <1>4, Zenon DEF fields

\* An array of downloads.
LEMMA ArrayDecoded ==
  ASSUME NEW x, x[1] = "arr" => \A i \in DOMAIN x[2] : IsFields(x[2][i])
  PROVE  DecodeDownloads(x) = IF HasType("Download[]", x) THEN Ok(ValueOf("Download[]", x)) ELSE Fail
<1> DEFINE Fine == x[1] = "arr" /\ \A i \in DOMAIN x[2] : MeetsAll(x[2][i], Schema["Download"])
           means == [i \in DOMAIN x[2] |-> MeaningOf(x[2][i], Schema["Download"])]
<1>1. HasType("Download[]", x) <=> Fine
  <2>1. HasType("Download[]", x)
          <=> x[1] = "arr" /\ \A i \in DOMAIN x[2] : Meets(x[2][i], Schema["Download"], IsScalar)
    BY Zenon DEF HasType
  <2> QED BY <2>1, ElementFlat, Zenon
<1>2. ValueOf("Download[]", x) = means
  <2>1. ValueOf("Download[]", x) = [i \in DOMAIN x[2] |-> Meaning(x[2][i], Schema["Download"], ScalarValue)]
    BY Zenon DEF ValueOf
  <2>2. \A y : Meaning(y, Schema["Download"], ScalarValue) = MeaningOf(y, Schema["Download"])
    BY ElementFlat, Zenon
  <2> QED BY <2>1, <2>2, Zenon
<1>3. x[1] = "arr" => \A i \in DOMAIN x[2] :
        /\ DecodeDownload(x[2][i]).ok <=> MeetsAll(x[2][i], Schema["Download"])
        /\ DecodeDownload(x[2][i]).ok => DecodeDownload(x[2][i]).value = MeaningOf(x[2][i], Schema["Download"])
  BY DownloadUnderstood
<1>4. DecodeDownloads(x) = IF Fine THEN Ok(means) ELSE Fail
  BY <1>3 DEF DecodeDownloads
<1> QED BY <1>1, <1>2, <1>4

LEMMA ListRead ==
  ASSUME NEW v, v[1] = "obj", IsValue(v), NEW fields, fields = [k \in {"downloads"} |-> "Download[]"]
  PROVE  ReadAs(v, fields, [downloads |-> <<>>], ObjBytes(v, [downloads |-> <<>>], DownloadsField))
<1> DEFINE f == v[2]
           key == "downloads"
           s0 == [downloads |-> <<>>]
           right == Right(v, fields)
           val == Meant(v, fields)
<1>1. Len(f) \in Nat /\ DOMAIN f = 1..Len(f)
  BY DEF IsValue, IsFields
<1>2. DOMAIN fields = {key} /\ \A k \in {key} : fields[k] = "Download[]"
  OBVIOUS
<1>3. ASSUME NEW i \in 1..Len(f), NEW s, NEW seen, s = [k \in {key} |-> s[k]]
      PROVE  DownloadsField([s |-> s, seen |-> seen], f[i][1], f[i][2])
               = IF f[i][1] \notin {key} THEN ListFields!State(s, seen)
                 ELSE IF i \in right THEN ListFields!State([s EXCEPT ![f[i][1]] = val[i]], seen \union {f[i][1]})
                 ELSE [ok |-> FALSE]
  <2> DEFINE k == f[i][1]
             x == f[i][2]
             array == ValueOf("Download[]", x)
  <2>1. DownloadsField([s |-> s, seen |-> seen], k, x)
          = IF k = key THEN Assign([s |-> s, seen |-> seen], k, DecodeDownloads(x)) ELSE Ok([s |-> s, seen |-> seen])
    BY Zenon DEF DownloadsField
  <2>2. DecodeDownloads(x) = IF HasType("Download[]", x) THEN Ok(array) ELSE Fail
    <3>1. x[1] = "arr" => \A n \in DOMAIN x[2] : IsFields(x[2][n])
      BY <1>1 DEF IsValue
    <3> HIDE DEF x
    <3> QED BY <3>1, ArrayDecoded, Zenon
  <2>3. k = key => (i \in right <=> HasType("Download[]", x)) /\ val[i] = array
    BY <1>2 DEF Right, Meant
  <2> HIDE DEF k, x, array, right, val
  <2>4. Assign([s |-> s, seen |-> seen], k, DecodeDownloads(x))
          = IF HasType("Download[]", x) THEN Ok([s |-> [s EXCEPT ![k] = array], seen |-> seen \union {k}]) ELSE Fail
    <3>1. Assign([s |-> s, seen |-> seen], k, DecodeDownloads(x))
            = IF DecodeDownloads(x).ok
              THEN Ok([s |-> [s EXCEPT ![k] = DecodeDownloads(x).value], seen |-> seen \union {k}]) ELSE Fail
      BY AssignedOrFailed, Zenon
    <3>2. IF HasType("Download[]", x) THEN DecodeDownloads(x).ok = TRUE /\ DecodeDownloads(x).value = array
          ELSE DecodeDownloads(x).ok = FALSE
      BY <2>2 DEF Ok, Fail
    <3> QED BY <3>1, <3>2
  <2>5. DownloadsField([s |-> s, seen |-> seen], k, x)
          = IF k \notin {key} THEN ListFields!State(s, seen)
            ELSE IF i \in right THEN ListFields!State([s EXCEPT ![k] = val[i]], seen \union {k})
            ELSE [ok |-> FALSE]
    BY <2>1, <2>3, <2>4 DEF ListFields!State, Ok, Fail
  <2> QED BY <2>5 DEF k, x
<1>4. s0 = [k \in {key} |-> s0[k]]
  OBVIOUS
<1>6. ObjBytes(v, s0, DownloadsField) = ListFields!After(ListFields!State(s0, {}), f)
  <2>1. ASSUME NEW s
        PROVE  ObjBytes(v, s, DownloadsField) = ListFields!After(ListFields!State(s, {}), v[2])
    BY Zenon DEF ObjBytes, ListFields!After, ListFields!Results, ListFields!Follows,
                 ListFields!Then, ListFields!State, Fail, Ok, Undecoded
  <2> QED BY <2>1, Zenon DEF f
<1> HIDE DEF f, s0, right, val
<1>5. IF \A i \in 1..Len(f) : f[i][1] \in {key} => i \in right
      THEN \E s, seen : /\ ListFields!After(ListFields!State(s0, {}), f) = ListFields!State(s, seen)
                       /\ ListFields!Read(f, Len(f), {key}, val, s0, s, seen)
      ELSE ListFields!After(ListFields!State(s0, {}), f) = [ok |-> FALSE]
  <2>1. ListFields!Decodes(f, {key}, right, val)
    BY <1>3, Zenon DEF ListFields!Decodes
  <2>2. ListFields!Comes(f, {key}, right, val, s0)
    BY <1>1, <1>4, <2>1, ListFields!FieldsRead
  <2> QED BY <2>2, Zenon DEF ListFields!Comes
<1>7. ASSUME NEW s, NEW seen
      PROVE  /\ ListFields!Read(f, Len(f), {key}, val, s0, s, seen) <=> ReadFrom(v, fields, s0, s, seen)
             /\ ListFields!State(s, seen) = Ok([s |-> s, seen |-> seen])
  BY <1>2, Zenon DEF ListFields!Read, ListFields!Occurs, ListFields!State, Ok, ReadFrom, DownloadFields!Read,
                     DownloadFields!Occurs, f, val
<1> QED BY <1>2, <1>5, <1>6, <1>7 DEF ReadAs, Fail, f, s0, right

LEMMA ListUnderstood ==
  ASSUME NEW v, IsValue(v), NEW fields, fields = [k \in {"downloads"} |-> "Download[]"]
  PROVE  LET d == DecodeDownloadListResponse(v)
         IN (d.ok <=> MeetsAll(v, fields)) /\ (d.ok => d.value = MeaningOf(v, fields))
<1> DEFINE s0 == [downloads |-> <<>>]
           r  == ObjBytes(v, s0, DownloadsField)
<1>1. DecodeDownloadListResponse(v) = Require({"downloads"}, r)
  BY Zenon DEF DecodeDownloadListResponse
<1>2. CASE v[1] # "obj"
  <2>1. r = Fail
    BY <1>2, Zenon DEF ObjBytes
  <2> HIDE DEF r
  <2>2. Require({"downloads"}, r).ok = FALSE
    BY <2>1 DEF Require, Fail
  <2> QED BY <1>1, <1>2, <2>2 DEF MeetsAll, Meets
<1>3. CASE v[1] = "obj"
  <2>1. ReadAs(v, fields, s0, r)
    BY <1>3, ListRead, Zenon
  <2>2. Required(fields) = {"downloads"} /\ \A k \in DOMAIN fields : fields[k] \notin Optional
    BY DEF Required, Optional
  <2> HIDE DEF r, s0
  <2>3. IsFields(v)
    BY DEF IsValue
  <2>4. LET d == Require(Required(fields), r)
        IN (d.ok <=> MeetsAll(v, fields)) /\ (d.ok => d.value = MeaningOf(v, fields))
    BY <1>3, <2>1, <2>2, <2>3, RequiredRead
  <2> QED BY <1>1, <2>2, <2>4
<1> QED BY <1>2, <1>3

-----------------------------------------------------------------------------
(* Validation.                                                             *)

Understood(r, v, type) ==
  LET meaning == MeaningOf(v, Schema[type])
  IN /\ r.ok <=> MeetsAll(v, Schema[type]) /\ Allowed(type, meaning)
     /\ r.ok => r.value = meaning

\* A decoder and its validator refuse together what the description does.
LEMMA ReadThenValid ==
  ASSUME NEW r, NEW read, NEW valid \in BOOLEAN, NEW v, NEW type \in DOMAIN Schema,
         r.ok <=> MeetsAll(v, Schema[type]), r.ok => r.value = MeaningOf(v, Schema[type]),
         r.ok => (valid <=> Allowed(type, r.value)),
         read = IF r.ok /\ valid THEN r ELSE Fail
  PROVE  Understood(read, v, type)
BY DEF Understood, Fail

\* What the validators look at is what the enums allow.
LEMMA Validated ==
  ASSUME NEW value
  PROVE  /\ InEnums(value, Schema["Download"]) <=> ValidDownload(value)
         /\ Allowed("Download", value) <=> ValidDownload(value)
         /\ Allowed("DownloadListResponse", value) <=> ValidDownloadList(value)
         /\ \A type \in DOMAIN Schema \ {"Download", "DownloadListResponse"} : Allowed(type, value)
<1> DEFINE fields == Schema["Download"]
<1>1. /\ DOMAIN fields = {"id", "url"} \union {"title", "filename", "error"}
                           \union {"status", "progress", "createdAt", "completedAt"}
      /\ \A k \in DOMAIN fields : fields[k] \in DOMAIN Enums <=> k = "status"
      /\ Enums[fields["status"]] = StatusNames
  <2>1. DOMAIN Enums = {"DownloadStatus"} /\ Enums["DownloadStatus"] = StatusNames
    BY DEF Enums, StatusNames
  <2> HIDE DEF fields
  <2> QED BY <2>1, DownloadType DEF fields
<1>2. \A x : InEnums(x, fields) <=> ValidDownload(x)
  <2> HIDE DEF fields
  <2> QED BY <1>1 DEF InEnums, ValidDownload, ValidStatus
<1>3. Allowed("DownloadListResponse", value) <=> ValidDownloadList(value)
  BY <1>2 DEF Allowed, ValidDownloadList
<1>4. Allowed("Download", value) <=> ValidDownload(value)
  BY <1>2 DEF Allowed
<1>5. ASSUME NEW type \in DOMAIN Schema \ {"Download", "DownloadListResponse"}
      PROVE  Allowed(type, value)
  <2>1. \A k \in DOMAIN Schema[type] : Schema[type][k] = "string"
    BY <1>5 DEF Schema
  <2> QED BY <1>5, <2>1 DEF Allowed, InEnums, Enums
<1> QED BY <1>2, <1>3, <1>4, <1>5

\* Every JSON value, with as many fields as it may have, in any order, repeated,
\* unknown or of the wrong type, is taken exactly if the description allows it.
LEMMA DocumentUnderstood ==
  ASSUME NEW type \in DOMAIN Schema, NEW v, IsValue(v)
  PROVE  Understood(ReadDocument(type, v), v, type)
<1> DEFINE Single == {"ChannelInfoResponse", "CreateDownloadRequest", "ErrorResponse", "HealthResponse"}
           keyOf(t) == CASE t = "ChannelInfoResponse" -> "name" [] t = "CreateDownloadRequest" -> "url"
                         [] t = "ErrorResponse" -> "message" [] t = "HealthResponse" -> "status"
           body == [type |-> JSON, body |-> <<v>>]
<1>1. /\ DOMAIN Schema = Single \union {"DownloadListResponse", "Download"}
      /\ Schema["DownloadListResponse"] = [k \in {"downloads"} |-> "Download[]"]
      /\ \A t \in Single : Schema[t] = [k \in {keyOf(t)} |-> "string"]
  BY DEF Schema
<1>2. body.type = JSON /\ Len(body.body) = 1 /\ body.body[1] = v
  OBVIOUS
<1>3. IsFields(v)
  BY DEF IsValue
<1>4. CASE type \in Single
  <2> DEFINE r == DecodeSingle(keyOf(type), v)
  <2>1. ReadDocument(type, v) = IF r.ok /\ TRUE THEN r ELSE Fail
    <3>1. \A s : Unvalidated(s)
      BY NotValidated
    <3>2. CASE type = "ChannelInfoResponse"
      BY <1>2, <3>1, <3>2, Zenon DEF ReadDocument, DecodeBody, DecodeChannelInfoResponse
    <3>3. CASE type = "CreateDownloadRequest"
      BY <1>2, <3>1, <3>3, Zenon DEF ReadDocument, DecodeBody, DecodeCreateDownloadRequest
    <3>4. CASE type = "ErrorResponse"
      BY <1>2, <3>1, <3>4, Zenon DEF ReadDocument, DecodeBody, DecodeErrorResponse
    <3>5. CASE type = "HealthResponse"
      BY <1>2, <3>1, <3>5, Zenon DEF ReadDocument, DecodeBody, DecodeHealthResponse
    <3> QED BY <1>4, <3>2, <3>3, <3>4, <3>5
  <2>2. Schema[type] = [k \in {keyOf(type)} |-> "string"]
    BY <1>1, <1>4
  <2> HIDE DEF keyOf
  <2>3. (r.ok <=> MeetsAll(v, Schema[type])) /\ (r.ok => r.value = MeaningOf(v, Schema[type]))
    BY <1>3, <2>2, SingleUnderstood
  <2>4. \A value : Allowed(type, value)
    BY <1>1, <1>4, Validated
  <2> HIDE DEF r
  <2> QED BY <2>1, <2>3, <2>4, ReadThenValid
<1>5. CASE type = "Download"
  <2> DEFINE r == DecodeDownload(v)
             valid == ValidDownload(r.value)
  <2>1. ReadDocument(type, v) = IF r.ok /\ valid THEN r ELSE Fail
    BY <1>2, <1>5, Zenon DEF ReadDocument, DecodeBody
  <2>2. (r.ok <=> MeetsAll(v, Schema[type])) /\ (r.ok => r.value = MeaningOf(v, Schema[type]))
    BY <1>3, <1>5, DownloadUnderstood
  <2>3. valid \in BOOLEAN /\ (valid <=> Allowed(type, r.value))
    <3>1. valid \in BOOLEAN
      BY DEF ValidDownload, ValidStatus
    <3> QED BY <1>5, <3>1, Validated
  <2> HIDE DEF r, valid
  <2> QED BY <2>1, <2>2, <2>3, ReadThenValid
<1>6. CASE type = "DownloadListResponse"
  <2> DEFINE r == DecodeDownloadListResponse(v)
             valid == ValidDownloadList(r.value)
  <2>1. ReadDocument(type, v) = IF r.ok /\ valid THEN r ELSE Fail
    BY <1>2, <1>6, Zenon DEF ReadDocument, DecodeBody
  <2>2. (r.ok <=> MeetsAll(v, Schema[type])) /\ (r.ok => r.value = MeaningOf(v, Schema[type]))
    BY <1>1, <1>6, ListUnderstood
  <2>3. valid \in BOOLEAN /\ (valid <=> Allowed(type, r.value))
    <3>1. valid \in BOOLEAN
      BY DEF ValidDownloadList
    <3> QED BY <1>6, <3>1, Validated
  <2> HIDE DEF r, valid
  <2> QED BY <2>1, <2>2, <2>3, ReadThenValid
<1> QED BY <1>1, <1>4, <1>5, <1>6

-----------------------------------------------------------------------------
(* Paths as they are on the wire.                                          *)

LEMMA WellEscapedFirst ==
  ASSUME NEW T, NEW t \in T, NEW rest \in Seq(T)
  PROVE  WellEscaped(<<t>> \o rest)
           <=> WellEscaped(rest) /\ (t = "%" => rest # <<>> /\ rest[1] \in DOMAIN Decoded)
<1> DEFINE f == <<t>> \o rest
<1>1. /\ DOMAIN f = 1..Len(rest)+1 /\ Len(f) = Len(rest)+1 /\ f[1] = t /\ Len(rest) \in Nat
      /\ DOMAIN rest = 1..Len(rest) /\ (rest # <<>> <=> Len(rest) > 0)
      /\ \A i \in 1..Len(rest) : f[i+1] = rest[i]
  OBVIOUS
<1> HIDE DEF f
<1>2. ASSUME WellEscaped(f)
      PROVE  WellEscaped(rest) /\ (t = "%" => rest # <<>> /\ rest[1] \in DOMAIN Decoded)
  <2>1. \A i \in 1..Len(rest)+1 : f[i] = "%" => i < Len(rest) + 1 /\ f[i+1] \in DOMAIN Decoded
    BY <1>1, <1>2 DEF WellEscaped
  <2>2. ASSUME NEW i \in 1..Len(rest), rest[i] = "%"
        PROVE  i < Len(rest) /\ rest[i+1] \in DOMAIN Decoded
    <3>1. i + 1 \in 1..Len(rest)+1 /\ f[i+1] = "%"
      BY <1>1, <2>2
    <3>2. i + 1 < Len(rest) + 1 /\ f[(i+1)+1] \in DOMAIN Decoded
      BY <2>1, <3>1
    <3>3. i + 1 \in 1..Len(rest) /\ i < Len(rest)
      BY <1>1, <3>2
    <3>4. f[(i+1)+1] = rest[i+1]
      BY <1>1, <3>3
    <3> QED BY <3>2, <3>3, <3>4
  <2>3. ASSUME t = "%"
        PROVE  rest # <<>> /\ rest[1] \in DOMAIN Decoded
    <3>1. 1 < Len(rest) + 1 /\ f[1+1] \in DOMAIN Decoded
      BY <1>1, <2>1, <2>3
    <3> QED BY <1>1, <3>1
  <2> QED BY <1>1, <2>2, <2>3 DEF WellEscaped
<1>3. ASSUME WellEscaped(rest), t = "%" => rest # <<>> /\ rest[1] \in DOMAIN Decoded
      PROVE  WellEscaped(f)
  <2>1. \A i \in 1..Len(rest) : rest[i] = "%" => i < Len(rest) /\ rest[i+1] \in DOMAIN Decoded
    BY <1>1, <1>3 DEF WellEscaped
  <2>2. ASSUME NEW i \in 1..Len(rest)+1, f[i] = "%"
        PROVE  i < Len(f) /\ f[i+1] \in DOMAIN Decoded
    <3>1. CASE i = 1
      BY <1>1, <1>3, <2>2, <3>1
    <3>2. ASSUME NEW j \in 1..Len(rest), i = j + 1
          PROVE  i < Len(f) /\ f[i+1] \in DOMAIN Decoded
      <4>1. rest[j] = "%"
        BY <1>1, <2>2, <3>2
      <4>2. j < Len(rest) /\ rest[j+1] \in DOMAIN Decoded
        BY <2>1, <4>1
      <4>3. j + 1 \in 1..Len(rest) /\ f[(j+1)+1] = rest[j+1]
        BY <1>1, <4>2
      <4> QED BY <1>1, <3>2, <4>2, <4>3
    <3>3. i = 1 \/ (i - 1 \in 1..Len(rest) /\ i = (i - 1) + 1)
      BY <1>1
    <3> QED BY <3>1, <3>2, <3>3
  <2> QED BY <1>1, <2>2 DEF WellEscaped
<1> QED BY <1>2, <1>3 DEF f

LEMMA HexDecoded ==
  /\ DOMAIN Decoded = {"2F", "25", "78"}
  /\ Decoded["2F"] = "/" /\ Decoded["25"] = "%" /\ Decoded["78"] = "x"
  /\ "%" \notin DOMAIN Decoded /\ "/" \notin DOMAIN Decoded
BY DEF Decoded

\* What paths and the names in them are made of.
Letters == Tokens \union {"x", "78", "health"}
Text    == Seq(Letters)

LEMMA LettersKnown ==
  /\ Known \subseteq Letters /\ Marks \subseteq Letters
  /\ "/" \in Letters /\ "%" \in Letters /\ "x" \in Letters /\ "25" \in Letters
  /\ "api" \in Letters /\ "downloads" \in Letters /\ "health" \in Letters
  /\ \A hex \in DOMAIN Decoded : hex \in Letters /\ Decoded[hex] \in Letters
  /\ Seq(Tokens) \subseteq Text
<1>1. Known \subseteq Letters /\ Marks \subseteq Letters
  BY KnownTokens DEF Known, Letters
<1>2. Tokens \subseteq Letters /\ "x" \in Letters /\ "78" \in Letters /\ "health" \in Letters
  BY DEF Letters
<1>3. \A path \in Seq(Tokens) : path \in Text
  <2>1. \A path \in Seq(Tokens) : path \in Seq(Letters)
    BY <1>2
  <2> QED BY <2>1 DEF Text
<1> QED BY <1>1, <1>2, <1>3, HexDecoded DEF Known, Marks

\* An escape in front of a text; a token in front of it is Before.
Coded(hex, later) == Before("%", Before(hex, later))

LEMMA NoTokens ==
  /\ <<>> \in Text /\ Len(<<>>) = 0 /\ WellEscaped(<<>>) /\ NoSlash(<<>>) /\ NoEscape(<<>>)
  /\ \A b \in Text : Cat(<<>>, b) = b
  /\ \A chars : Unescape(chars, <<>>) = <<>>
  /\ PathForm(<<>>) = <<>>
<1>1. \A b \in Text : <<>> \o b = b
  BY DEF Text
<1>2. <<>> \in Text /\ Len(<<>>) = 0
  BY DEF Text
<1>3. WellEscaped(<<>>) /\ NoSlash(<<>>) /\ NoEscape(<<>>)
  BY DEF WellEscaped, NoSlash, NoEscape, HasNo
<1> QED BY <1>1, <1>2, <1>3, UnescapeNone, EscapeNone DEF Cat, PathForm

LEMMA CatText ==
  ASSUME NEW a \in Text, NEW b \in Text
  PROVE  Cat(a, b) \in Text /\ Len(a) \in Nat /\ (a = <<>> <=> Len(a) = 0)
<1>1. a \o b \in Seq(Letters) /\ Len(a) \in Nat /\ (a = <<>> <=> Len(a) = 0)
  BY DEF Text
<1> QED BY <1>1 DEF Text, Cat

LEMMA FormTyped ==
  ASSUME NEW a \in Text
  PROVE  PathForm(a) \in Text
BY LettersKnown, PathFormTyped DEF Text

\* A token in front.
LEMMA OneBefore ==
  ASSUME NEW t \in Letters, NEW a \in Text
  PROVE  /\ Before(t, a) \in Text /\ Before(t, a) # <<>>
         /\ Before(t, a)[1] = t /\ Len(Before(t, a)) = Len(a) + 1
         /\ \A b \in Text : Cat(Before(t, a), b) = Before(t, Cat(a, b))
<1>1. /\ <<t>> \o a \in Text /\ <<t>> \o a # <<>> /\ (<<t>> \o a)[1] = t /\ Len(<<t>> \o a) = Len(a) + 1
      /\ \A b \in Text : (<<t>> \o a) \o b = <<t>> \o (a \o b)
  BY DEF Text
<1> QED BY <1>1 DEF Before, Cat

LEMMA BeforeEscaped ==
  ASSUME NEW t \in Letters, NEW a \in Text
  PROVE  /\ WellEscaped(Before(t, a)) <=> (WellEscaped(a) /\ (t = "%" => a # <<>> /\ a[1] \in DOMAIN Decoded))
         /\ NoSlash(Before(t, a)) <=> (t # "/" /\ NoSlash(a))
         /\ NoEscape(Before(t, a)) <=> (t # "%" /\ NoEscape(a))
<1>1. a \in Seq(Letters)
  BY DEF Text
<1> QED BY <1>1, WellEscapedFirst, HasNoneFirst DEF Before

LEMMA BeforeUnescaped ==
  ASSUME NEW t \in Letters, t # "%", NEW a \in Text, NEW chars
  PROVE  /\ Unescape(chars, Before(t, a)) = Before(t, Unescape(chars, a))
         /\ PathForm(Before(t, a)) = Before(t, PathForm(a))
<1>1. a \in Seq(Letters)
  BY DEF Text
<1> QED BY <1>1, UnescapeFirst, PathFormFirst DEF Before

LEMMA PercentForm ==
  ASSUME NEW a \in Text
  PROVE  PathForm(Before("%", a)) = Coded("25", PathForm(a))
<1>1. a \in Seq(Letters) /\ PathForm(a) \in Seq(Letters)
  BY FormTyped DEF Text
<1>2. PathForm(<<"%">> \o a) = <<"%", "25">> \o PathForm(a)
  BY <1>1, LettersKnown, PathFormFirst
<1>3. <<"%">> \o (<<"25">> \o PathForm(a)) = <<"%", "25">> \o PathForm(a)
  BY <1>1, LettersKnown, Two
<1> QED BY <1>2, <1>3, Zenon DEF Before, Coded

LEMMA TokenThen ==
  ASSUME NEW a \in Text
  PROVE  a = <<>> \/ \E t \in Letters, rest \in Text : a = Before(t, rest)
<1>1. a # <<>> => Head(a) \in Letters /\ Tail(a) \in Text /\ a = <<Head(a)>> \o Tail(a)
  BY DEF Text
<1> QED BY <1>1 DEF Before

\* Two paths with a token in front.
LEMMA BeforeSame ==
  ASSUME NEW t \in Letters, NEW a \in Text, NEW u \in Letters, NEW b \in Text, Before(t, a) = Before(u, b)
  PROVE  t = u /\ a = b
<1>1. Head(<<t>> \o a) = t /\ Tail(<<t>> \o a) = a /\ Head(<<u>> \o b) = u /\ Tail(<<u>> \o b) = b
  BY DEF Text
<1> QED BY <1>1, Zenon DEF Before

\* An escape in front.
LEMMA OneCoded ==
  ASSUME NEW hex \in Letters, NEW a \in Text
  PROVE  /\ Coded(hex, a) \in Text /\ Coded(hex, a) # <<>> /\ Len(Coded(hex, a)) = Len(a) + 2
         /\ \A b \in Text : Cat(Coded(hex, a), b) = Coded(hex, Cat(a, b))
<1> DEFINE h == Before(hex, a)
<1>1. /\ h \in Text /\ Len(h) = Len(a) + 1 /\ Len(a) \in Nat /\ "%" \in Letters
      /\ \A b \in Text : Cat(h, b) = Before(hex, Cat(a, b))
  BY OneBefore, CatText, LettersKnown
<1> HIDE DEF h
<1>2. /\ Before("%", h) \in Text /\ Before("%", h) # <<>> /\ Len(Before("%", h)) = Len(h) + 1
      /\ \A b \in Text : Cat(Before("%", h), b) = Before("%", Cat(h, b))
  BY <1>1, OneBefore
<1>3. Len(Before("%", h)) = Len(a) + 2
  BY <1>1, <1>2
<1> QED BY <1>1, <1>2, <1>3 DEF Coded, h

LEMMA CodedEscaped ==
  ASSUME NEW hex \in Letters, NEW a \in Text
  PROVE  /\ WellEscaped(Coded(hex, a)) <=> (hex \in DOMAIN Decoded /\ WellEscaped(a))
         /\ NoSlash(Coded(hex, a)) <=> (hex # "/" /\ NoSlash(a))
<1> DEFINE h == Before(hex, a)
<1>1. h \in Text /\ h # <<>> /\ h[1] = hex /\ "%" \in Letters
  BY OneBefore, LettersKnown
<1>2. /\ WellEscaped(h) <=> (WellEscaped(a) /\ (hex = "%" => a # <<>> /\ a[1] \in DOMAIN Decoded))
      /\ NoSlash(h) <=> (hex # "/" /\ NoSlash(a))
  BY BeforeEscaped
<1> HIDE DEF h
<1>3. /\ WellEscaped(Before("%", h)) <=> (WellEscaped(h) /\ h[1] \in DOMAIN Decoded)
      /\ NoSlash(Before("%", h)) <=> NoSlash(h)
  BY <1>1, BeforeEscaped
<1> QED BY <1>1, <1>2, <1>3, HexDecoded DEF Coded, h

\* An escape of a path, unescaped or left as it is.
LEMMA CodedUnescaped ==
  ASSUME NEW chars, NEW hex \in DOMAIN Decoded, NEW a \in Text
  PROVE  /\ Decoded[hex] \in chars => Unescape(chars, Coded(hex, a)) = Before(Decoded[hex], Unescape(chars, a))
         /\ Decoded[hex] \notin chars => Unescape(chars, Coded(hex, a)) = Coded(hex, Unescape(chars, a))
<1>1. a \in Seq(Letters) /\ hex \in Letters /\ "%" \in Letters
  BY LettersKnown DEF Text
<1>2. /\ Decoded[hex] \in chars => Unescape(chars, <<"%", hex>> \o a) = <<Decoded[hex]>> \o Unescape(chars, a)
      /\ Decoded[hex] \notin chars => Unescape(chars, <<"%", hex>> \o a) = <<"%">> \o (<<hex>> \o Unescape(chars, a))
  BY <1>1, UnescapeEscape
<1>3. <<"%">> \o (<<hex>> \o a) = <<"%", hex>> \o a
  BY <1>1, Two
<1> QED BY <1>2, <1>3, Zenon DEF Coded, Before

\* What holds of <<>>, and is kept by a character and by an escape before it, holds of
\* every path.
LEMMA PathInduction ==
  ASSUME NEW S, <<>> \in S,
         \A t \in Letters, rest \in Text : t # "%" /\ WellEscaped(rest) /\ rest \in S => Before(t, rest) \in S,
         \A hex \in DOMAIN Decoded, rest \in Text : WellEscaped(rest) /\ rest \in S => Coded(hex, rest) \in S
  PROVE  \A text \in Text : WellEscaped(text) => text \in S
<1> DEFINE Good(text) == WellEscaped(text) => text \in S
           Q == {text \in Text : Good(text) /\ \A t \in Letters : Good(Before(t, text))}
<1>1. <<>> \in Q
  <2>1. ASSUME NEW t \in Letters
        PROVE  Good(Before(t, <<>>))
    <3>1. <<>> \in Text /\ WellEscaped(<<>>)
      BY NoTokens
    <3>2. WellEscaped(Before(t, <<>>)) => t # "%"
      BY <3>1, BeforeEscaped
    <3> QED BY <3>1, <3>2
  <2> QED BY <2>1, NoTokens
<1>2. ASSUME NEW u \in Letters, NEW rest \in Text, rest \in Q
      PROVE  Before(u, rest) \in Q
  <2> DEFINE more == Before(u, rest)
  <2>1. more \in Text /\ Good(more) /\ Good(rest)
    BY <1>2, OneBefore
  <2>2. ASSUME NEW t \in Letters, WellEscaped(Before(t, more))
        PROVE  Before(t, more) \in S
    <3>1. CASE t = "%"
      <4>1. Coded(u, rest) = Before(t, more)
        BY <3>1 DEF Coded
      <4>2. u \in DOMAIN Decoded /\ WellEscaped(rest)
        BY <2>2, <4>1, CodedEscaped
      <4> HIDE DEF more
      <4> QED BY <2>1, <4>1, <4>2
    <3>2. CASE t # "%"
      <4>1. WellEscaped(more)
        BY <2>1, <2>2, BeforeEscaped
      <4> HIDE DEF more
      <4> QED BY <2>1, <3>2, <4>1
    <3> QED BY <3>1, <3>2
  <2> QED BY <2>1, <2>2
<1>3. \A text \in Text : text \in Q
  <2> HIDE DEF Q
  <2>1. \A t \in Letters, rest \in Seq(Letters) : rest \in Q => <<t>> \o rest \in Q
    BY <1>2 DEF Before, Text
  <2>2. \A text \in Seq(Letters) : text \in Q
    BY <1>1, <2>1, TextInduction
  <2> QED BY <2>2 DEF Text
<1> QED BY <1>3

\* A path is unescaped part by part; only an empty one becomes empty.
LEMMA UnescapeTyped ==
  ASSUME NEW chars
  PROVE  \A a \in Text : WellEscaped(a) => Unescape(chars, a) \in Text /\ (Unescape(chars, a) = <<>> <=> a = <<>>)
<1> DEFINE S == {a \in Text : Unescape(chars, a) \in Text /\ (Unescape(chars, a) = <<>> <=> a = <<>>)}
<1>1. <<>> \in S
  BY NoTokens
<1>2. ASSUME NEW t \in Letters, NEW rest \in Text, t # "%", rest \in S
      PROVE  Before(t, rest) \in S
  <2>1. Unescape(chars, Before(t, rest)) = Before(t, Unescape(chars, rest)) /\ Unescape(chars, rest) \in Text
    BY <1>2, BeforeUnescaped
  <2> QED BY <2>1, OneBefore
<1>3. ASSUME NEW hex \in DOMAIN Decoded, NEW rest \in Text, rest \in S
      PROVE  Coded(hex, rest) \in S
  <2>1. PICK r \in Text : r = Unescape(chars, rest)
    BY <1>3
  <2>2. hex \in Letters /\ Decoded[hex] \in Letters
    BY LettersKnown
  <2>3. Before(Decoded[hex], r) \in Text /\ Before(Decoded[hex], r) # <<>>
    BY <2>2, OneBefore
  <2>4. /\ Coded(hex, r) \in Text /\ Coded(hex, r) # <<>>
        /\ Coded(hex, rest) \in Text /\ Coded(hex, rest) # <<>>
    BY <2>2, OneCoded
  <2>5. Unescape(chars, Coded(hex, rest)) \in {Before(Decoded[hex], r), Coded(hex, r)}
    BY <2>1, CodedUnescaped
  <2> QED BY <2>3, <2>4, <2>5
<1> HIDE DEF S
<1>4. \A a \in Text : WellEscaped(a) => a \in S
  BY <1>1, <1>2, <1>3, PathInduction
<1> QED BY <1>4 DEF S

LEMMA UnescapeParts ==
  ASSUME NEW chars, NEW x \in Text, WellEscaped(x)
  PROVE  \A a \in Text : WellEscaped(a) => Unescape(chars, Cat(a, x)) = Cat(Unescape(chars, a), Unescape(chars, x))
<1> DEFINE y == Unescape(chars, x)
           S == {a \in Text : WellEscaped(a) /\ Unescape(chars, Cat(a, x)) = Cat(Unescape(chars, a), y)}
<1>0. y \in Text
  BY UnescapeTyped
<1>1. <<>> \in S
  BY <1>0, NoTokens
<1> HIDE DEF y
<1>2. ASSUME NEW t \in Letters, NEW rest \in Text, t # "%", rest \in S
      PROVE  Before(t, rest) \in S
  <2>1. PICK r \in Text : r = Unescape(chars, rest)
    BY <1>2, UnescapeTyped
  <2>2. /\ Unescape(chars, Cat(rest, x)) = Cat(r, y) /\ Cat(rest, x) \in Text
        /\ Unescape(chars, Before(t, rest)) = Before(t, r)
    BY <1>2, <2>1, CatText, BeforeUnescaped
  <2>3. Unescape(chars, Before(t, Cat(rest, x))) = Before(t, Cat(r, y))
    BY <1>2, <2>2, BeforeUnescaped
  <2>4. Cat(Before(t, rest), x) = Before(t, Cat(rest, x)) /\ Cat(Before(t, r), y) = Before(t, Cat(r, y))
    BY <1>0, OneBefore
  <2>5. Before(t, rest) \in Text /\ WellEscaped(Before(t, rest))
    BY <1>2, OneBefore, BeforeEscaped
  <2> QED BY <2>2, <2>3, <2>4, <2>5
<1>3. ASSUME NEW hex \in DOMAIN Decoded, NEW rest \in Text, rest \in S
      PROVE  Coded(hex, rest) \in S
  <2>1. PICK r \in Text : r = Unescape(chars, rest)
    BY <1>3, UnescapeTyped
  <2>2. hex \in Letters /\ Decoded[hex] \in Letters
    BY LettersKnown
  <2>3. Unescape(chars, Cat(rest, x)) = Cat(r, y) /\ Cat(rest, x) \in Text
    BY <1>3, <2>1, CatText
  <2>4. Cat(Coded(hex, rest), x) = Coded(hex, Cat(rest, x)) /\ Cat(Coded(hex, r), y) = Coded(hex, Cat(r, y))
    BY <1>0, <2>2, OneCoded
  <2>5. Coded(hex, rest) \in Text /\ WellEscaped(Coded(hex, rest))
    BY <1>3, <2>2, OneCoded, CodedEscaped
  <2>6. CASE Decoded[hex] \in chars
    <3>1. Cat(Before(Decoded[hex], r), y) = Before(Decoded[hex], Cat(r, y))
      BY <1>0, <2>2, OneBefore
    <3>2. Unescape(chars, Coded(hex, rest)) = Before(Decoded[hex], r)
      BY <2>1, <2>6, CodedUnescaped
    <3>3. Unescape(chars, Coded(hex, Cat(rest, x))) = Before(Decoded[hex], Cat(r, y))
      BY <2>3, <2>6, CodedUnescaped
    <3> QED BY <2>4, <2>5, <3>1, <3>2, <3>3
  <2>7. CASE Decoded[hex] \notin chars
    <3>1. Unescape(chars, Coded(hex, rest)) = Coded(hex, r)
      BY <2>1, <2>7, CodedUnescaped
    <3>2. Unescape(chars, Coded(hex, Cat(rest, x))) = Coded(hex, Cat(r, y))
      BY <2>3, <2>7, CodedUnescaped
    <3> QED BY <2>4, <2>5, <3>1, <3>2
  <2> QED BY <2>6, <2>7
<1> HIDE DEF S
<1>4. \A a \in Text : WellEscaped(a) => a \in S
  BY <1>1, <1>2, <1>3, PathInduction
<1> QED BY <1>4 DEF S, y

\* A path has at least one token, an escape two.
LEMMA PathStart ==
  ASSUME NEW a \in Text, WellEscaped(a)
  PROVE  \/ a = <<>>
         \/ \E t \in Letters, rest \in Text : t # "%" /\ WellEscaped(rest) /\ a = Before(t, rest)
         \/ \E hex \in DOMAIN Decoded, rest \in Text : WellEscaped(rest) /\ a = Coded(hex, rest)
<1> DEFINE Starts(u) == \/ u = <<>>
                        \/ \E t \in Letters, rest \in Text : t # "%" /\ WellEscaped(rest) /\ u = Before(t, rest)
                        \/ \E hex \in DOMAIN Decoded, rest \in Text : WellEscaped(rest) /\ u = Coded(hex, rest)
           S == {u \in Text : Starts(u)}
<1>1. <<>> \in S
  BY NoTokens
<1>2. ASSUME NEW t \in Letters, NEW rest \in Text, t # "%", WellEscaped(rest)
      PROVE  Before(t, rest) \in S
  BY <1>2, OneBefore
<1>3. ASSUME NEW hex \in DOMAIN Decoded, NEW rest \in Text, WellEscaped(rest)
      PROVE  Coded(hex, rest) \in S
  BY <1>3, OneCoded, LettersKnown
<1> HIDE DEF S
<1>4. \A u \in Text : WellEscaped(u) => u \in S
  BY <1>1, <1>2, <1>3, PathInduction
<1> QED BY <1>4 DEF S

\* A name of one token.
Only(t) == Before(t, <<>>)

\* A token that no escape stands for is there before if it is there after.
LEMMA UnescapedToken ==
  ASSUME NEW chars, NEW a \in Text, WellEscaped(a), NEW t \in Letters, t \notin Characters
  PROVE  Unescape(chars, a) = Only(t) <=> a = Only(t)
<1>0. <<>> \in Text /\ Only(t) # <<>> /\ t # "%"
  BY NoTokens, OneBefore DEF Characters, Only
<1>1. CASE a = <<>>
  BY <1>0, <1>1, NoTokens
<1>2. ASSUME NEW c \in Letters, NEW rest \in Text, WellEscaped(rest), a = Before(c, rest), c # "%"
      PROVE  Unescape(chars, a) = Only(t) <=> a = Only(t)
  <2>1. PICK r \in Text : r = Unescape(chars, rest) /\ (r = <<>> <=> rest = <<>>)
    BY <1>2, UnescapeTyped
  <2>2. Unescape(chars, a) = Before(c, r)
    BY <1>2, <2>1, BeforeUnescaped
  <2>3. Before(c, r) = Only(t) <=> c = t /\ r = <<>>
    BY <1>0, BeforeSame DEF Only
  <2>4. Before(c, rest) = Only(t) <=> c = t /\ rest = <<>>
    BY <1>0, BeforeSame DEF Only
  <2> QED BY <1>2, <2>1, <2>2, <2>3, <2>4
<1>3. ASSUME NEW hex \in DOMAIN Decoded, NEW rest \in Text, WellEscaped(rest), a = Coded(hex, rest)
      PROVE  Unescape(chars, a) # Only(t) /\ a # Only(t)
  <2>1. PICK r \in Text : r = Unescape(chars, rest)
    BY <1>3, UnescapeTyped
  <2>2. hex \in Letters /\ Decoded[hex] \in Letters /\ "%" \in Letters
    BY LettersKnown
  <2>3. Decoded[hex] # t
    BY HexDecoded DEF Characters
  <2>4. Unescape(chars, a) \in {Before(Decoded[hex], r), Coded(hex, r)}
    BY <1>3, <2>1, CodedUnescaped
  <2>5. Before(hex, r) \in Text /\ Before(hex, rest) \in Text
    BY <2>2, OneBefore
  <2>6. Before("%", Before(hex, r)) # Only(t) /\ Before("%", Before(hex, rest)) # Only(t)
    BY <1>0, <2>2, <2>5, BeforeSame DEF Only
  <2>7. Before(Decoded[hex], r) # Only(t)
    BY <1>0, <2>2, <2>3, BeforeSame DEF Only
  <2> QED BY <1>3, <2>4, <2>6, <2>7 DEF Coded
<1> QED BY <1>1, <1>2, <1>3, PathStart

\* Undoing the escapes that need not be there changes nothing else.
LEMMA NormalizeWell ==
  \A a \in Text : WellEscaped(a) =>
     /\ WellEscaped(NormalizeEscapedPath(a))
     /\ PathUnescape(NormalizeEscapedPath(a)) = PathUnescape(a)
     /\ NoSlash(a) => NoSlash(NormalizeEscapedPath(a))
<1> DEFINE N(a) == Unescape({"x"}, a)
           U(a) == Unescape(Characters, a)
           S == {a \in Text : N(a) \in Text /\ WellEscaped(N(a)) /\ U(N(a)) = U(a) /\ (NoSlash(a) => NoSlash(N(a)))}
<1>1. <<>> \in S
  BY NoTokens
<1>2. ASSUME NEW t \in Letters, NEW rest \in Text, t # "%", rest \in S
      PROVE  Before(t, rest) \in S
  <2>1. PICK n \in Text : n = N(rest) /\ WellEscaped(n) /\ U(n) = U(rest) /\ (NoSlash(rest) => NoSlash(n))
    BY <1>2
  <2>2. N(Before(t, rest)) = Before(t, n) /\ U(Before(t, rest)) = Before(t, U(rest)) /\ U(Before(t, n)) = Before(t, U(n))
    BY <1>2, <2>1, BeforeUnescaped
  <2>3. WellEscaped(Before(t, n)) /\ (NoSlash(Before(t, rest)) => NoSlash(Before(t, n)))
    BY <1>2, <2>1, BeforeEscaped
  <2>4. Before(t, n) \in Text /\ Before(t, rest) \in Text
    BY OneBefore
  <2> QED BY <2>1, <2>2, <2>3, <2>4
<1>3. ASSUME NEW hex \in DOMAIN Decoded, NEW rest \in Text, rest \in S
      PROVE  Coded(hex, rest) \in S
  <2>1. PICK n \in Text : n = N(rest) /\ WellEscaped(n) /\ U(n) = U(rest) /\ (NoSlash(rest) => NoSlash(n))
    BY <1>3
  <2>2. hex \in Letters /\ Decoded[hex] \in Letters /\ Decoded[hex] \in Characters
    BY LettersKnown, HexDecoded DEF Characters
  <2>3. U(Coded(hex, rest)) = Before(Decoded[hex], U(n)) /\ U(Coded(hex, n)) = Before(Decoded[hex], U(n))
    BY <2>1, <2>2, CodedUnescaped
  <2>4. Coded(hex, rest) \in Text
    BY <2>2, OneCoded
  <2>5. NoSlash(Coded(hex, rest)) => NoSlash(n) /\ hex # "/"
    BY <2>1, <2>2, CodedEscaped
  <2>6. CASE Decoded[hex] = "x"
    <3>1. N(Coded(hex, rest)) = Before("x", n)
      BY <2>1, <2>6, CodedUnescaped
    <3>2. "x" \in Letters /\ "x" # "%" /\ "x" # "/"
      BY LettersKnown
    <3>3. U(Before("x", n)) = Before("x", U(n))
      BY <3>2, BeforeUnescaped
    <3>4. Before("x", n) \in Text /\ WellEscaped(Before("x", n)) /\ (NoSlash(n) => NoSlash(Before("x", n)))
      BY <2>1, <3>2, OneBefore, BeforeEscaped
    <3> QED BY <2>3, <2>4, <2>5, <2>6, <3>1, <3>3, <3>4
  <2>7. CASE Decoded[hex] # "x"
    <3>1. N(Coded(hex, rest)) = Coded(hex, n)
      BY <2>1, <2>7, CodedUnescaped
    <3>2. Coded(hex, n) \in Text
      BY <2>2, OneCoded
    <3>3. WellEscaped(Coded(hex, n)) /\ (NoSlash(n) /\ hex # "/" => NoSlash(Coded(hex, n)))
      BY <2>1, <2>2, CodedEscaped
    <3> QED BY <2>3, <2>4, <2>5, <3>1, <3>2, <3>3
  <2> QED BY <2>6, <2>7
<1> HIDE DEF S
<1>4. \A a \in Text : WellEscaped(a) => a \in S
  BY <1>1, <1>2, <1>3, PathInduction
<1> QED BY <1>4 DEF S, NormalizeEscapedPath, PathUnescape

\* A part is never shorter than what it is unescaped to in the form url.Parse compares
\* with, and longer if a slash was escaped in it.
LEMMA FormLength ==
  \A a \in Text : WellEscaped(a) =>
     /\ Len(PathForm(PathUnescape(a))) <= Len(a)
     /\ Len(PathForm(PathUnescape(a))) = Len(a) /\ NoSlash(a) => NoSlash(PathUnescape(a))
<1> DEFINE U(a) == Unescape(Characters, a)
           F(a) == Len(PathForm(a))
           S == {a \in Text : U(a) \in Text /\ F(U(a)) <= Len(a) /\ (F(U(a)) = Len(a) /\ NoSlash(a) => NoSlash(U(a)))}
<1>1. <<>> \in S
  BY NoTokens
<1>2. ASSUME NEW t \in Letters, NEW rest \in Text, t # "%", rest \in S
      PROVE  Before(t, rest) \in S
  <2>1. PICK u \in Text : u = U(rest) /\ F(u) <= Len(rest) /\ (F(u) = Len(rest) /\ NoSlash(rest) => NoSlash(u))
    BY <1>2
  <2>2. U(Before(t, rest)) = Before(t, u) /\ PathForm(Before(t, u)) = Before(t, PathForm(u))
    BY <1>2, <2>1, BeforeUnescaped
  <2>3. PathForm(u) \in Text /\ F(u) \in Nat /\ Len(rest) \in Nat
    BY FormTyped, CatText
  <2>4. F(Before(t, u)) = F(u) + 1 /\ Len(Before(t, rest)) = Len(rest) + 1
    BY <2>2, <2>3, OneBefore
  <2>5. /\ NoSlash(Before(t, rest)) => NoSlash(rest) /\ t # "/"
        /\ NoSlash(u) /\ t # "/" => NoSlash(Before(t, u))
    BY BeforeEscaped
  <2>6. Before(t, u) \in Text /\ Before(t, rest) \in Text
    BY OneBefore
  <2>7. F(Before(t, u)) <= Len(Before(t, rest)) /\ (F(Before(t, u)) = Len(Before(t, rest)) => F(u) = Len(rest))
    BY <2>1, <2>3, <2>4
  <2> HIDE DEF F, U
  <2> QED BY <2>1, <2>2, <2>5, <2>6, <2>7
<1>3. ASSUME NEW hex \in DOMAIN Decoded, NEW rest \in Text, rest \in S
      PROVE  Coded(hex, rest) \in S
  <2>1. PICK u \in Text : u = U(rest) /\ F(u) <= Len(rest) /\ (F(u) = Len(rest) /\ NoSlash(rest) => NoSlash(u))
    BY <1>3
  <2>2. hex \in Letters /\ Decoded[hex] \in Letters /\ Decoded[hex] \in Characters
    BY LettersKnown, HexDecoded DEF Characters
  <2>3. U(Coded(hex, rest)) = Before(Decoded[hex], u)
    BY <2>1, <2>2, CodedUnescaped
  <2>4. PathForm(u) \in Text /\ F(u) \in Nat /\ Len(rest) \in Nat /\ "25" \in Letters
    BY FormTyped, CatText, LettersKnown
  <2>5. Coded(hex, rest) \in Text /\ Len(Coded(hex, rest)) = Len(rest) + 2 /\ Before(Decoded[hex], u) \in Text
    BY <2>2, OneCoded, OneBefore
  <2>6. CASE Decoded[hex] = "%"
    <3>1. F(Before("%", u)) = F(u) + 2
      BY <2>4, PercentForm, OneCoded
    <3>2. F(Before("%", u)) <= Len(Coded(hex, rest)) /\ (F(Before("%", u)) = Len(Coded(hex, rest)) => F(u) = Len(rest))
      BY <2>1, <2>4, <2>5, <3>1
    <3>3. NoSlash(Coded(hex, rest)) => NoSlash(rest)
      BY <2>2, CodedEscaped
    <3>4. NoSlash(u) => NoSlash(Before("%", u))
      BY LettersKnown, BeforeEscaped
    <3> HIDE DEF F, U
    <3> QED BY <2>1, <2>3, <2>5, <2>6, <3>2, <3>3, <3>4
  <2>7. CASE Decoded[hex] # "%"
    <3>1. PathForm(Before(Decoded[hex], u)) = Before(Decoded[hex], PathForm(u))
      BY <2>2, <2>7, BeforeUnescaped
    <3>2. F(Before(Decoded[hex], u)) = F(u) + 1
      BY <2>2, <2>4, <3>1, OneBefore
    <3>3. F(Before(Decoded[hex], u)) < Len(Coded(hex, rest))
      BY <2>1, <2>4, <2>5, <3>2
    <3>4. F(Before(Decoded[hex], u)) <= Len(Coded(hex, rest)) /\ F(Before(Decoded[hex], u)) # Len(Coded(hex, rest))
      BY <2>4, <2>5, <3>2, <3>3
    <3> HIDE DEF F, U
    <3> QED BY <2>3, <2>5, <3>4
  <2> QED BY <2>6, <2>7
<1> HIDE DEF S
<1>4. \A a \in Text : WellEscaped(a) => a \in S
  BY <1>1, <1>2, <1>3, PathInduction
<1> QED BY <1>4 DEF S, PathUnescape

-----------------------------------------------------------------------------
(* The parts of a path.                                                    *)

\* What is between two slashes, and what follows it.
IsPart(a) == a \in Text /\ WellEscaped(a) /\ NoSlash(a)
IsRest(x) == x \in Text /\ WellEscaped(x) /\ (x = <<>> \/ x[1] = "/")

\* A part after a slash, with what follows it.
Part(a, x) == Before("/", Cat(a, x))

\* A part in front of a rest stays apart from it.
LEMMA PartRest ==
  ASSUME NEW u \in Text, WellEscaped(u)
  PROVE  \E a, x : IsPart(a) /\ IsRest(x) /\ u = Cat(a, x)
<1> DEFINE S == {v \in Text : \E a, x : IsPart(a) /\ IsRest(x) /\ v = Cat(a, x)}
<1>1. IsPart(<<>>) /\ IsRest(<<>>) /\ Cat(<<>>, <<>>) = <<>>
  BY NoTokens DEF IsPart, IsRest
<1>2. <<>> \in S
  BY <1>1, NoTokens
<1>3. ASSUME NEW t \in Letters, NEW rest \in Text, t # "%", WellEscaped(rest), rest \in S
      PROVE  Before(t, rest) \in S
  <2>1. PICK a, x : IsPart(a) /\ IsRest(x) /\ rest = Cat(a, x)
    BY <1>3
  <2>2. a \in Text /\ x \in Text /\ WellEscaped(a) /\ NoSlash(a)
    BY <2>1 DEF IsPart, IsRest
  <2>3. Before(t, rest) \in Text /\ Before(t, rest)[1] = t /\ Cat(Before(t, a), x) = Before(t, rest)
    BY <2>1, <2>2, OneBefore
  <2>4. CASE t = "/"
    <3>1. WellEscaped(Before(t, rest))
      BY <1>3, BeforeEscaped
    <3>2. Cat(<<>>, Before(t, rest)) = Before(t, rest)
      BY <2>3, NoTokens
    <3> QED BY <1>1, <2>3, <2>4, <3>1, <3>2 DEF IsRest
  <2>5. CASE t # "/"
    <3>1. WellEscaped(Before(t, a)) /\ NoSlash(Before(t, a)) /\ Before(t, a) \in Text
      BY <1>3, <2>2, <2>5, BeforeEscaped, OneBefore
    <3> QED BY <2>1, <2>3, <3>1 DEF IsPart
  <2> QED BY <2>4, <2>5
<1>4. ASSUME NEW hex \in DOMAIN Decoded, NEW rest \in Text, WellEscaped(rest), rest \in S
      PROVE  Coded(hex, rest) \in S
  <2>1. PICK a, x : IsPart(a) /\ IsRest(x) /\ rest = Cat(a, x)
    BY <1>4
  <2>2. a \in Text /\ x \in Text /\ WellEscaped(a) /\ NoSlash(a) /\ hex \in Letters /\ hex # "/"
    BY <2>1, LettersKnown, HexDecoded DEF IsPart, IsRest
  <2>3. Coded(hex, rest) \in Text /\ Cat(Coded(hex, a), x) = Coded(hex, rest) /\ Coded(hex, a) \in Text
    BY <2>1, <2>2, OneCoded
  <2>4. WellEscaped(Coded(hex, a)) /\ NoSlash(Coded(hex, a))
    BY <2>2, CodedEscaped
  <2> QED BY <2>1, <2>3, <2>4 DEF IsPart
<1> HIDE DEF S
<1>5. \A v \in Text : WellEscaped(v) => v \in S
  BY <1>2, <1>3, <1>4, PathInduction
<1> QED BY <1>5 DEF S

LEMMA RestSplit ==
  ASSUME NEW r, IsRest(r), r # <<>>
  PROVE  \E a, x : IsPart(a) /\ IsRest(x) /\ r = Part(a, x)
<1>1. PICK t \in Letters, u \in Text : r = Before(t, u)
  BY TokenThen DEF IsRest
<1>2. t = "/"
  BY <1>1, OneBefore DEF IsRest
<1>3. WellEscaped(u)
  BY <1>1, BeforeEscaped DEF IsRest
<1>4. PICK a, x : IsPart(a) /\ IsRest(x) /\ u = Cat(a, x)
  BY <1>3, PartRest
<1> QED BY <1>1, <1>2, <1>4 DEF Part

LEMMA PartTyped ==
  ASSUME NEW a \in Text, NEW x \in Text
  PROVE  Cat(a, x) \in Text /\ Part(a, x) \in Text /\ Part(a, x) # <<>> /\ Part(a, x)[1] = "/"
BY CatText, LettersKnown, OneBefore DEF Part

LEMMA NoEscapeParts ==
  ASSUME NEW x \in Text
  PROVE  \A a \in Text : NoEscape(Cat(a, x)) => NoEscape(a) /\ NoEscape(x)
<1> DEFINE S == {a \in Text : NoEscape(Cat(a, x)) => NoEscape(a) /\ NoEscape(x)}
<1>1. <<>> \in S
  BY NoTokens
<1>2. ASSUME NEW t \in Letters, NEW rest \in Text, rest \in S
      PROVE  Before(t, rest) \in S
  <2>1. Cat(Before(t, rest), x) = Before(t, Cat(rest, x)) /\ Cat(rest, x) \in Text /\ Before(t, rest) \in Text
    BY OneBefore, CatText
  <2>2. NoEscape(Before(t, Cat(rest, x))) => t # "%" /\ NoEscape(Cat(rest, x))
    BY <2>1, BeforeEscaped
  <2>3. t # "%" /\ NoEscape(rest) => NoEscape(Before(t, rest))
    BY BeforeEscaped
  <2> QED BY <1>2, <2>1, <2>2, <2>3
<1> HIDE DEF S
<1>3. \A t \in Letters, rest \in Seq(Letters) : rest \in S => <<t>> \o rest \in S
  BY <1>2 DEF Before, Text
<1>4. \A a \in Seq(Letters) : a \in S
  BY <1>1, <1>3, TextInduction
<1> QED BY <1>4 DEF S, Text

\* The router looks at a path in one of two forms: with the escapes that need not be
\* there undone, or with all of them undone if url.Parse finds that nothing is lost.
Views == {{"x"}, Characters}

Seen(chars, w) == chars = {"x"} \/ Len(PathForm(PathUnescape(w))) = Len(w)

LEMMA PartSeen ==
  ASSUME NEW chars \in Views, NEW a, IsPart(a), Seen(chars, a)
  PROVE  /\ Unescape(chars, a) \in Text /\ NoSlash(Unescape(chars, a))
         /\ PathUnescape(Unescape({"x"}, a)) = PathUnescape(a) /\ WellEscaped(Unescape({"x"}, a))
<1>1. a \in Text /\ WellEscaped(a) /\ NoSlash(a)
  BY DEF IsPart
<1>2. Unescape(chars, a) \in Text
  BY <1>1, UnescapeTyped
<1>3. /\ WellEscaped(Unescape({"x"}, a)) /\ NoSlash(Unescape({"x"}, a))
      /\ PathUnescape(Unescape({"x"}, a)) = PathUnescape(a)
  BY <1>1, NormalizeWell DEF NormalizeEscapedPath
<1>4. chars # {"x"} => NoSlash(Unescape(Characters, a))
  BY <1>1, FormLength DEF Seen, PathUnescape
<1> QED BY <1>2, <1>3, <1>4 DEF Views

\* Both forms of a path are taken apart like the path itself.
LEMMA PathSeen ==
  ASSUME NEW chars \in Views, NEW a, IsPart(a), NEW x, IsRest(x), Seen(chars, Part(a, x))
  PROVE  /\ Unescape(chars, Part(a, x)) = Part(Unescape(chars, a), Unescape(chars, x))
         /\ Seen(chars, a) /\ Seen(chars, x)
<1>1. a \in Text /\ x \in Text /\ WellEscaped(a) /\ WellEscaped(x)
  BY DEF IsPart, IsRest
<1>2. Cat(a, x) \in Text /\ "/" \in Letters
  BY <1>1, CatText, LettersKnown
<1>3. ASSUME NEW c
      PROVE  Unescape(c, Part(a, x)) = Part(Unescape(c, a), Unescape(c, x))
  <2>1. Unescape(c, Cat(a, x)) = Cat(Unescape(c, a), Unescape(c, x))
    BY <1>1, UnescapeParts
  <2>2. Unescape(c, Before("/", Cat(a, x))) = Before("/", Unescape(c, Cat(a, x)))
    BY <1>2, BeforeUnescaped
  <2> QED BY <2>1, <2>2 DEF Part
<1>4. ASSUME Len(PathForm(PathUnescape(Part(a, x)))) = Len(Part(a, x))
      PROVE  Len(PathForm(PathUnescape(a))) = Len(a) /\ Len(PathForm(PathUnescape(x))) = Len(x)
  <2>1. PICK u \in Text : u = PathUnescape(a)
    BY <1>1, UnescapeTyped DEF PathUnescape
  <2>2. PICK v \in Text : v = PathUnescape(x)
    BY <1>1, UnescapeTyped DEF PathUnescape
  <2>3. PathUnescape(Part(a, x)) = Before("/", Cat(u, v)) /\ Cat(u, v) \in Text
    BY <1>3, <2>1, <2>2, CatText DEF PathUnescape, Part
  <2>4. PathForm(Before("/", Cat(u, v))) = Before("/", PathForm(Cat(u, v))) /\ PathForm(Cat(u, v)) \in Text
    BY <1>2, <2>3, BeforeUnescaped, FormTyped
  <2>5. PathForm(Cat(u, v)) = Cat(PathForm(u), PathForm(v)) /\ PathForm(u) \in Text /\ PathForm(v) \in Text
    BY LettersKnown, PathFormTyped DEF Cat, Text
  <2>6. Len(Before("/", PathForm(Cat(u, v)))) = Len(PathForm(Cat(u, v))) + 1 /\ Len(Part(a, x)) = Len(Cat(a, x)) + 1
    BY <1>2, <2>4, OneBefore DEF Part
  <2>7. Len(Cat(PathForm(u), PathForm(v))) = Len(PathForm(u)) + Len(PathForm(v)) /\ Len(Cat(a, x)) = Len(a) + Len(x)
    BY <1>1, <2>5, CatTyped DEF Text
  <2>8. Len(PathForm(u)) <= Len(a) /\ Len(PathForm(v)) <= Len(x)
    BY <1>1, <2>1, <2>2, FormLength
  <2>9. /\ Len(PathForm(u)) \in Nat /\ Len(PathForm(v)) \in Nat /\ Len(a) \in Nat /\ Len(x) \in Nat
    BY <1>1, <2>5, CatText
  <2> QED BY <1>4, <2>1, <2>2, <2>3, <2>4, <2>5, <2>6, <2>7, <2>8, <2>9
<1> QED BY <1>3, <1>4 DEF Seen

\* What is left of a path is left of its form.
LEMMA RestSeen ==
  ASSUME NEW chars \in Views, NEW x, IsRest(x), Seen(chars, x)
  PROVE  LET v == Unescape(chars, x) IN v \in Text /\ (v = <<>> <=> x = <<>>) /\ (v = <<>> \/ v[1] = "/")
<1>1. Unescape(chars, x) \in Text /\ (Unescape(chars, x) = <<>> <=> x = <<>>)
  BY UnescapeTyped DEF IsRest
<1>2. ASSUME x # <<>>
      PROVE  Unescape(chars, x)[1] = "/"
  <2>1. PICK a, y : IsPart(a) /\ IsRest(y) /\ x = Part(a, y)
    BY <1>2, RestSplit
  <2>2. Unescape(chars, x) = Part(Unescape(chars, a), Unescape(chars, y))
    BY <2>1, PathSeen
  <2>3. Unescape(chars, a) \in Text /\ Unescape(chars, y) \in Text
    BY <2>1, UnescapeTyped DEF IsPart, IsRest
  <2> QED BY <2>2, <2>3, PartTyped
<1> QED BY <1>1, <1>2

-----------------------------------------------------------------------------
(* The segments of a path.                                                 *)

SplitThen(t, later) == IF t = "/" THEN << <<>> >> \o later ELSE [later EXCEPT ![1] = <<t>> \o @]

\* from[i] are the parts of the path from i on.
Splits(path, from) ==
  from = [i \in 1..Len(path)+1 |-> IF i > Len(path) THEN << <<>> >> ELSE SplitThen(path[i], from[i+1])]

Split(path) == (CHOOSE from : Splits(path, from))[1]

LEMMA SplitsExist ==
  ASSUME NEW path, Len(path) \in Nat
  PROVE  \E from : Splits(path, from)
<1> DEFINE N == Len(path)
           LastOnes(k, g) == g = [i \in N+1-k..N+1 |-> IF i > N THEN << <<>> >> ELSE SplitThen(path[i], g[i+1])]
           Solved == {k \in Nat : k <= N => \E g : LastOnes(k, g)}
<1>1. 0 \in Solved
  <2> DEFINE g == [i \in N+1-0..N+1 |-> << <<>> >>]
  <2>1. LastOnes(0, g)
    OBVIOUS
  <2> HIDE DEF LastOnes, g
  <2> QED BY <2>1
<1>2. ASSUME NEW k \in Nat, k \in Solved
      PROVE  k + 1 \in Solved
  <2> SUFFICES ASSUME k + 1 <= N PROVE \E h : LastOnes(k + 1, h)
    BY DEF Solved
  <2>1. PICK g : LastOnes(k, g)
    <3> HIDE DEF LastOnes
    <3> QED BY <1>2
  <2> DEFINE h == [i \in N+1-(k+1)..N+1 |-> IF i = N - k THEN SplitThen(path[i], g[i+1]) ELSE g[i]]
  <2>2. ASSUME NEW i \in N+1-(k+1)..N+1
        PROVE  h[i] = IF i > N THEN << <<>> >> ELSE SplitThen(path[i], h[i+1])
    <3>1. CASE i = N - k
      BY <3>1
    <3>2. CASE i # N - k
      <4>1. i \in N+1-k..N+1
        BY <3>2
      <4>2. g[i] = IF i > N THEN << <<>> >> ELSE SplitThen(path[i], g[i+1])
        BY <2>1, <4>1
      <4>3. h[i] = g[i] /\ (i <= N => h[i+1] = g[i+1])
        BY <4>1
      <4> QED BY <4>2, <4>3
    <3> QED BY <3>1, <3>2
  <2>3. LastOnes(k + 1, h)
    BY <2>2
  <2> HIDE DEF LastOnes, h
  <2> QED BY <2>3
<1>3. N \in Solved
  <2> HIDE DEF Solved
  <2> QED BY <1>1, <1>2, SetInduction
<1> QED BY <1>3 DEF Splits

LEMMA SplitFollows ==
  ASSUME NEW path, Len(path) \in Nat
  PROVE  /\ Segments(path) = Tail(Split(path))
         /\ \E from : Splits(path, from) /\ Split(path) = from[1]
<1>1. Segments(path) = Tail(Split(path))
  BY Zenon DEF Segments, Split, Splits, SplitThen
<1>2. Splits(path, CHOOSE from : Splits(path, from))
  BY SplitsExist
<1> QED BY <1>1, <1>2 DEF Split

LEMMA SplitNone == Split(<<>>) = << <<>> >>
<1>1. Len(<<>>) = 0
  OBVIOUS
<1> QED BY <1>1, SplitFollows DEF Splits

LEMMA SplitFirst ==
  ASSUME NEW t \in Letters, NEW rest \in Text
  PROVE  Split(Before(t, rest)) = SplitThen(t, Split(rest))
<1> DEFINE path == Before(t, rest)
<1>1. /\ Len(rest) \in Nat /\ Len(path) = Len(rest) + 1
      /\ path[1] = t /\ \A i \in 1..Len(rest) : path[i+1] = rest[i]
  BY DEF Before, Text
<1> HIDE DEF path
<1>2. PICK f : Splits(path, f) /\ Split(path) = f[1]
  BY <1>1, SplitFollows
<1>3. PICK g : Splits(rest, g) /\ Split(rest) = g[1]
  BY <1>1, SplitFollows
<1> DEFINE N == Len(rest)
           Same == {k \in Nat : k <= N => f[N+1-k+1] = g[N+1-k]}
<1>4. \A i \in 1..N : g[i] = SplitThen(rest[i], g[i+1])
  BY <1>1, <1>3 DEF Splits
<1>10. \A i \in 1..N : f[i+1] = SplitThen(path[i+1], f[i+2])
  BY <1>1, <1>2 DEF Splits
<1>5. 0 \in Same
  BY <1>1, <1>2, <1>3 DEF Splits
<1>6. ASSUME NEW k \in Nat, k \in Same
      PROVE  k + 1 \in Same
  <2> SUFFICES ASSUME NEW j \in 1..N, j = N - k PROVE f[j+1] = g[j]
    BY <1>1
  <2>1. f[j+2] = g[j+1]
    BY <1>1, <1>6
  <2> QED BY <1>1, <1>4, <1>10, <2>1
<1>7. N \in Same
  <2> HIDE DEF Same
  <2> QED BY <1>1, <1>5, <1>6, SetInduction
<1>8. f[2] = g[1]
  BY <1>1, <1>7
<1>9. f[1] = SplitThen(t, f[2])
  BY <1>1, <1>2 DEF Splits
<1> QED BY <1>2, <1>3, <1>8, <1>9 DEF path

\* A list of texts with one more in front.
LEMMA OneMoreText ==
  ASSUME NEW a \in Text, NEW s \in Seq(Text)
  PROVE  /\ Before(a, s) \in Seq(Text) /\ Tail(Before(a, s)) = s
         /\ Len(Before(a, s)) = Len(s) + 1 /\ Before(a, s)[1] = a /\ \A k \in 1..Len(s) : Before(a, s)[k+1] = s[k]
         /\ \A t \in Letters : t # "/" => SplitThen(t, Before(a, s)) = Before(Before(t, a), s)
         /\ SplitThen("/", Before(a, s)) = Before(<<>>, Before(a, s))
<1>1. /\ <<a>> \o s \in Seq(Text) /\ Tail(<<a>> \o s) = s
      /\ Len(<<a>> \o s) = Len(s) + 1 /\ (<<a>> \o s)[1] = a /\ \A k \in 1..Len(s) : (<<a>> \o s)[k+1] = s[k]
  OBVIOUS
<1>2. ASSUME NEW b \in Text
      PROVE  [<<a>> \o s EXCEPT ![1] = b] = <<b>> \o s
  <2> DEFINE w == <<a>> \o s
             u == [w EXCEPT ![1] = b]
             v == <<b>> \o s
  <2>1. /\ v \in Seq(Text) /\ Len(v) = Len(s) + 1 /\ v[1] = b /\ \A k \in 1..Len(s) : v[k+1] = s[k]
    OBVIOUS
  <2>2. w \in Seq(Text) /\ Len(w) = Len(s) + 1 /\ Len(s) \in Nat /\ \A k \in 1..Len(s) : w[k+1] = s[k]
    BY <1>1
  <2> HIDE DEF w
  <2>6. u \in Seq(Text) /\ Len(u) = Len(w) /\ u[1] = b /\ \A k \in 1..Len(s) : u[k+1] = w[k+1]
    <3>1. 1 \in 1..Len(w)
      BY <2>2
    <3>2. u \in Seq(Text) /\ Len(u) = Len(w)
      BY <2>2, <3>1, ExceptSeq
    <3>3. \A k \in 1..Len(w) : u[k] = IF k = 1 THEN b ELSE w[k]
      BY <2>2, <3>1, ExceptSeq
    <3>4. \A k \in 1..Len(s) : k + 1 \in 1..Len(w) /\ k + 1 # 1
      BY <2>2
    <3> QED BY <3>1, <3>2, <3>3, <3>4
  <2>3. u[1] = b /\ Len(u) = Len(s) + 1 /\ \A k \in 1..Len(s) : u[k+1] = s[k]
    BY <2>2, <2>6
  <2> HIDE DEF u, v
  <2>4. ASSUME NEW k \in 1..Len(s)+1
        PROVE  u[k] = v[k]
    <3>1. k = 1 \/ (k - 1 \in 1..Len(s) /\ k = (k - 1) + 1)
      OBVIOUS
    <3> QED BY <2>1, <2>3, <3>1
  <2>5. u = v
    BY <2>1, <2>3, <2>4, <2>6, SeqEqual
  <2> QED BY <2>5 DEF u, v, w
<1>3. ASSUME NEW t \in Letters, t # "/"
      PROVE  SplitThen(t, <<a>> \o s) = <<(<<t>> \o a)>> \o s
  <2>1. [<<a>> \o s EXCEPT ![1] = <<t>> \o @] = [<<a>> \o s EXCEPT ![1] = <<t>> \o a]
    BY <1>1
  <2>2. <<t>> \o a \in Text
    BY DEF Text
  <2> QED BY <1>2, <1>3, <2>1, <2>2 DEF SplitThen
<1> QED BY <1>1, <1>3 DEF Before, SplitThen

\* The first part of a path is its first segment.
LEMMA SplitParts ==
  ASSUME NEW x \in Text, NEW s \in Seq(Text), Split(x) = Before(<<>>, s)
  PROVE  \A a \in Text : NoSlash(a) => Split(Cat(a, x)) = Before(a, s)
<1> DEFINE S == {a \in Text : NoSlash(a) => Split(Cat(a, x)) = Before(a, s)}
<1>1. <<>> \in S
  BY NoTokens
<1>2. ASSUME NEW t \in Letters, NEW rest \in Text, rest \in S
      PROVE  Before(t, rest) \in S
  <2>1. Cat(Before(t, rest), x) = Before(t, Cat(rest, x)) /\ Cat(rest, x) \in Text /\ Before(t, rest) \in Text
    BY OneBefore, CatText
  <2>2. Split(Before(t, Cat(rest, x))) = SplitThen(t, Split(Cat(rest, x)))
    BY <2>1, SplitFirst
  <2>3. NoSlash(Before(t, rest)) => t # "/" /\ NoSlash(rest)
    BY BeforeEscaped
  <2>4. t # "/" => SplitThen(t, Before(rest, s)) = Before(Before(t, rest), s)
    BY OneMoreText
  <2> QED BY <1>2, <2>1, <2>2, <2>3, <2>4
<1> HIDE DEF S
<1>3. \A t \in Letters, rest \in Seq(Letters) : rest \in S => <<t>> \o rest \in S
  BY <1>2 DEF Before, Text
<1>4. \A a \in Seq(Letters) : a \in S
  BY <1>1, <1>3, TextInduction
<1> QED BY <1>4 DEF S, Text

\* The lists of segments.
LEMMA RestSegments ==
  \A x \in Text : IsRest(x) => Segments(x) \in Seq(Text) /\ Split(x) = Before(<<>>, Segments(x))
<1> DEFINE Shape(x) == \E a \in Text, s \in Seq(Text) : Split(x) = Before(a, s)
           S == {x \in Text : Shape(x)}
<1>1. << <<>> >> = Before(<<>>, <<>>) /\ <<>> \in Seq(Text)
  BY DEF Before
<1>2. <<>> \in S
  BY <1>1, SplitNone, NoTokens
<1>3. ASSUME NEW t \in Letters, NEW rest \in Text, rest \in S
      PROVE  Before(t, rest) \in S
  <2>1. PICK a \in Text, s \in Seq(Text) : Split(rest) = Before(a, s)
    BY <1>3
  <2>2. Split(Before(t, rest)) = SplitThen(t, Before(a, s)) /\ Before(t, rest) \in Text
    BY <2>1, SplitFirst, OneBefore
  <2>3. CASE t = "/"
    <3>1. SplitThen(t, Before(a, s)) = Before(<<>>, Before(a, s)) /\ Before(a, s) \in Seq(Text)
      BY <2>3, OneMoreText
    <3> QED BY <2>2, <3>1, NoTokens
  <2>4. CASE t # "/"
    <3>1. SplitThen(t, Before(a, s)) = Before(Before(t, a), s) /\ Before(t, a) \in Text
      BY <2>4, OneMoreText, OneBefore
    <3> QED BY <2>2, <3>1
  <2> QED BY <2>3, <2>4
<1>4. \A x \in Text : x \in S
  <2> HIDE DEF S
  <2>1. \A t \in Letters, rest \in Seq(Letters) : rest \in S => <<t>> \o rest \in S
    BY <1>3 DEF Before, Text
  <2>2. \A x \in Seq(Letters) : x \in S
    BY <1>2, <2>1, TextInduction
  <2> QED BY <2>2 DEF Text
<1>5. ASSUME NEW x \in Text
      PROVE  Segments(x) = Tail(Split(x))
  <2>1. Len(x) \in Nat
    BY CatText
  <2> QED BY <2>1, SplitFollows
<1>6. ASSUME NEW x \in Text, NEW s \in Seq(Text), Split(x) = Before(<<>>, s)
      PROVE  Segments(x) \in Seq(Text) /\ Split(x) = Before(<<>>, Segments(x))
  <2>1. Tail(Before(<<>>, s)) = s
    BY NoTokens, OneMoreText
  <2> QED BY <1>5, <1>6, <2>1
<1>7. ASSUME NEW x \in Text, IsRest(x)
      PROVE  \E s \in Seq(Text) : Split(x) = Before(<<>>, s)
  <2>1. CASE x = <<>>
    BY <1>1, <2>1, SplitNone
  <2>2. CASE x # <<>>
    <3>1. PICK t \in Letters, u \in Text : x = Before(t, u)
      BY <2>2, TokenThen
    <3>2. t = "/"
      BY <1>7, <2>2, <3>1, OneBefore DEF IsRest
    <3>3. PICK a \in Text, s \in Seq(Text) : Split(u) = Before(a, s)
      BY <1>4
    <3>4. SplitThen("/", Before(a, s)) = Before(<<>>, Before(a, s)) /\ Before(a, s) \in Seq(Text)
      BY OneMoreText
    <3> QED BY <3>1, <3>2, <3>3, <3>4, SplitFirst
  <2> QED BY <2>1, <2>2
<1> QED BY <1>6, <1>7

LEMMA SegmentsOfPath ==
  /\ Segments(<<>>) = <<>>
  /\ \A a, x : IsPart(a) /\ IsRest(x) =>
       Segments(x) \in Seq(Text) /\ Segments(Part(a, x)) = Before(a, Segments(x))
<1>1. Segments(<<>>) = <<>>
  <2>1. Segments(<<>>) = Tail(<< <<>> >>)
    BY NoTokens, SplitFollows, SplitNone
  <2> QED BY <2>1
<1>2. ASSUME NEW a, NEW x, IsPart(a), IsRest(x)
      PROVE  Segments(x) \in Seq(Text) /\ Segments(Part(a, x)) = Before(a, Segments(x))
  <2>1. a \in Text /\ NoSlash(a) /\ x \in Text
    BY <1>2 DEF IsPart, IsRest
  <2>2. PICK s \in Seq(Text) : s = Segments(x) /\ Split(x) = Before(<<>>, s)
    BY <1>2, <2>1, RestSegments
  <2>3. Split(Cat(a, x)) = Before(a, s) /\ Cat(a, x) \in Text
    BY <2>1, <2>2, SplitParts, CatText
  <2>4. Split(Part(a, x)) = SplitThen("/", Before(a, s))
    BY <2>3, LettersKnown, SplitFirst DEF Part
  <2>5. SplitThen("/", Before(a, s)) = Before(<<>>, Before(a, s)) /\ Before(a, s) \in Seq(Text)
    BY <2>1, OneMoreText
  <2>6. Tail(Before(<<>>, Before(a, s))) = Before(a, s)
    BY <2>5, NoTokens, OneMoreText
  <2>7. Segments(Part(a, x)) = Tail(Split(Part(a, x)))
    <3>1. Len(Part(a, x)) \in Nat
      BY <2>1, PartTyped, CatText
    <3> QED BY <3>1, SplitFollows
  <2> QED BY <2>2, <2>4, <2>5, <2>6, <2>7
<1> QED BY <1>1, <1>2

-----------------------------------------------------------------------------
(* The tree, part by part.                                                 *)

LEMMA OnlyToken ==
  ASSUME NEW t \in Letters
  PROVE  /\ Only(t) = <<t>> /\ Only(t) \in Text
         /\ \A y \in Text : Part(Only(t), y) = Before("/", Before(t, y)) /\ Part(Only(t), y) = <<"/", t>> \o y
<1>1. Only(t) = <<t>> /\ Only(t) \in Text
  <2>1. <<t>> \o <<>> = <<t>>
    OBVIOUS
  <2> QED BY <2>1, NoTokens, OneBefore DEF Only, Before
<1>2. ASSUME NEW y \in Text
      PROVE  Part(Only(t), y) = Before("/", Before(t, y))
  BY NoTokens, OneBefore DEF Part, Only
<1>3. ASSUME NEW y \in Text
      PROVE  <<"/">> \o (<<t>> \o y) = <<"/", t>> \o y
  BY LettersKnown, Two DEF Text
<1> QED BY <1>1, <1>2, <1>3, Zenon DEF Before

\* What follows a part.
Follows(r) == r \in Text /\ (r = <<>> \/ r[1] = "/")

LEMMA UnderApi == <<"/", "api">> \o <<"/">> = <<"/", "api", "/">>
<1> DEFINE s == <<"/", "api">> \o <<"/">>
           t == <<"/", "api", "/">>
<1>1. s \in Seq({"/", "api"}) /\ Len(s) = 3 /\ s[1] = "/" /\ s[2] = "api" /\ s[3] = "/"
  OBVIOUS
<1>2. t \in Seq({"/", "api"}) /\ Len(t) = 3 /\ t[1] = "/" /\ t[2] = "api" /\ t[3] = "/"
  OBVIOUS
<1> HIDE DEF s, t
<1>3. s = t
  BY <1>1, <1>2, SeqEqual
<1> QED BY <1>3 DEF s, t

LEMMA TreeUnderApi ==
  ASSUME NEW method, NEW u \in Text, NoSlash(u), NEW r, Follows(r)
  PROVE  Tree(method, Part(Only("api"), Part(u, r))) = AfterSecret(method, u, r)
<1>1. Tree(method, <<"/", "api", "/">> \o (u \o r)) = AfterSecret(method, u, r)
  BY LettersKnown, ParameterTaken DEF Text, Follows
<1>2. "api" \in Letters /\ "/" \in Letters /\ Cat(u, r) \in Text /\ Part(u, r) \in Text
  BY LettersKnown, PartTyped DEF Follows
<1>3. Part(Only("api"), Part(u, r)) = <<"/", "api">> \o Part(u, r)
  BY <1>2, OnlyToken
<1>4. ASSUME NEW z \in Seq(Letters)
      PROVE  <<"/", "api">> \o (<<"/">> \o z) = <<"/", "api", "/">> \o z
  <2>1. <<"/", "api">> \in Seq(Letters) /\ <<"/">> \in Seq(Letters)
    BY <1>2
  <2>3. <<"/", "api">> \o (<<"/">> \o z) = (<<"/", "api">> \o <<"/">>) \o z
    BY <2>1, Associative
  <2> QED BY <2>3, UnderApi, Zenon
<1>5. <<"/", "api">> \o Part(u, r) = <<"/", "api", "/">> \o (u \o r)
  BY <1>2, <1>4 DEF Part, Before, Cat, Text
<1> QED BY <1>1, <1>3, <1>5, Zenon

LEMMA PartAt ==
  ASSUME NEW u \in Text, NEW r \in Text
  PROVE  /\ Len(Part(u, r)) = Len(u) + Len(r) + 1 /\ Part(u, r)[1] = "/"
         /\ \A k \in 1..Len(u) : Part(u, r)[k+1] = u[k]
         /\ \A k \in 1..Len(r) : Part(u, r)[Len(u)+k+1] = r[k]
         /\ Len(u) \in Nat /\ Len(r) \in Nat
<1> DEFINE c == Cat(u, r)
<1>1. /\ c \in Text /\ Len(c) = Len(u) + Len(r) /\ Len(u) \in Nat /\ Len(r) \in Nat
      /\ \A k \in 1..Len(u) : c[k] = u[k]
      /\ \A k \in 1..Len(r) : c[Len(u)+k] = r[k]
  BY DEF Cat, Text
<1> HIDE DEF c
<1>2. Len(Before("/", c)) = Len(c) + 1 /\ Before("/", c)[1] = "/" /\ \A k \in 1..Len(c) : Before("/", c)[k+1] = c[k]
  BY <1>1, LettersKnown DEF Before, Text
<1> QED BY <1>1, <1>2 DEF Part, c

LEMMA OneToken ==
  ASSUME NEW u \in Text, Len(u) = 1
  PROVE  u = Only(u[1])
<1>1. u = <<u[1]>> /\ u[1] \in Letters
  BY DEF Text
<1> QED BY <1>1, OnlyToken

LEMMA TreeElsewhere ==
  ASSUME NEW method, NEW u \in Text, NoSlash(u), NEW r, Follows(r),
         u # Only("api") \/ r = <<>>, u # Only("health") \/ r # <<>>
  PROVE  Tree(method, Part(u, r)) = NotFound
<1> DEFINE e == Part(u, r)
<1>1. /\ Len(e) = Len(u) + Len(r) + 1 /\ e[1] = "/" /\ Len(u) \in Nat /\ Len(r) \in Nat
      /\ \A k \in 1..Len(u) : e[k+1] = u[k]
      /\ \A k \in 1..Len(r) : e[Len(u)+k+1] = r[k]
      /\ Len(r) = 0 <=> r = <<>>
      /\ \A k \in 1..Len(u) : u[k] # "/"
  BY PartAt, CatText DEF Follows, NoSlash, HasNo, Text
<1> HIDE DEF e
<1>2. Len(u) = 0 /\ Len(r) # 0 => e[2] = "/"
  BY <1>1 DEF Follows
<1>5. Len(e) = Len(u) + Len(r) + 1 /\ Len(u) \in Nat /\ Len(r) \in Nat /\ (Len(r) = 0 <=> r = <<>>)
  BY <1>1
<1>6. Len(u) >= 2 => e[3] # "/"
  <2>1. Len(u) >= 2 => 2 \in 1..Len(u) /\ e[2+1] = u[2]
    BY <1>1, <1>5
  <2> QED BY <1>1, <2>1
<1>7. \A n, m \in Nat : n # 0 => (~(n >= 2) => n = 1) /\ (n + m + 1 = 2 => n = 1 /\ m = 0)
  OBVIOUS
<1>3. ~IsPrefix(<<"/", "api", "/">>, e)
  <2> SUFFICES ASSUME Len(e) >= 3, e[2] = "api", e[3] = "/" PROVE FALSE
    <3>1. ASSUME IsPrefix(<<"/", "api", "/">>, e)
          PROVE  Len(e) >= 3 /\ e[2] = "api" /\ e[3] = "/"
      <4> DEFINE p == <<"/", "api", "/">>
      <4>1. Len(p) = 3 /\ p[2] = "api" /\ p[3] = "/" /\ \A i \in 1..3 : SubSeq(p, 1, Len(p))[i] = p[i]
        OBVIOUS
      <4>2. Len(p) <= Len(e) /\ SubSeq(p, 1, Len(p)) = SubSeq(e, 1, Len(p))
        BY <3>1 DEF IsPrefix
      <4>3. \A i \in 1..3 : SubSeq(e, 1, 3)[i] = e[i]
        OBVIOUS
      <4> HIDE DEF p
      <4>4. \A i \in 1..3 : p[i] = e[i]
        BY <4>1, <4>2, <4>3
      <4>5. Len(e) >= 3
        BY <1>1, <4>1, <4>2
      <4> QED BY <4>1, <4>4, <4>5
    <3> QED BY <3>1
  <2>1. Len(u) # 0
    BY <1>2, <1>5
  <2>4. Len(u) \in Nat /\ ~(Len(u) >= 2)
    BY <1>5, <1>6
  <2>2. Len(u) = 1
    BY <1>7, <2>1, <2>4
  <2>3. u = Only("api")
    BY <1>1, <2>2, OneToken
  <2> QED BY <1>1, <2>2, <2>3
<1>4. e # <<"/", "health">>
  <2> SUFFICES ASSUME Len(e) = 2, e[2] = "health" PROVE FALSE
    OBVIOUS
  <2>1. Len(u) # 0
    BY <1>2, <1>5
  <2>4. Len(u) \in Nat /\ Len(r) \in Nat /\ Len(u) + Len(r) + 1 = 2
    BY <1>5
  <2>5. Len(u) = 1 /\ Len(r) = 0
    BY <1>7, <2>1, <2>4
  <2>2. Len(u) = 1 /\ r = <<>>
    BY <1>5, <2>5
  <2>3. u = Only("health")
    BY <1>1, <2>2, OneToken
  <2> QED BY <2>2, <2>3
<1> QED BY <1>3, <1>4 DEF Tree, e

LEMMA TreeHealth ==
  ASSUME NEW method
  PROVE  Tree(method, Part(Only("health"), <<>>)) = Leaf(method, [GET |-> "healthcheck"], <<>>)
<1>1. Part(Only("health"), <<>>) = <<"/", "health">>
  <2>1. Part(Only("health"), <<>>) = <<"/", "health">> \o <<>>
    BY LettersKnown, NoTokens, OnlyToken
  <2> QED BY <2>1
<1>2. ~IsPrefix(<<"/", "api", "/">>, <<"/", "health">>)
  BY DEF IsPrefix
<1> QED BY <1>1, <1>2 DEF Tree

LEMMA DownloadsTaken ==
  ASSUME NEW method, NEW a, NEW u \in Text, NoSlash(u), NEW r, Follows(r)
  PROVE  AfterSecret(method, a, Part(u, r))
           = IF u = Only("downloads") THEN AfterDownloads(method, a, r) ELSE NotFound
<1> DEFINE e == Part(u, r)
<1>1. e # <<>> /\ r \in Text /\ "downloads" \in Letters /\ Downloads \in Seq(Letters)
  BY PartTyped, LettersKnown DEF Follows, Downloads
<1>2. \A y \in Text : IsPrefix(Downloads, Downloads \o y) /\ Cut(Downloads, Downloads \o y) = y
  BY <1>1, CutPrefix DEF Text
<1>3. CASE u = Only("downloads")
  <2>1. e = Downloads \o r
    BY <1>1, <1>3, OnlyToken DEF Downloads
  <2> HIDE DEF e
  <2> QED BY <1>1, <1>2, <1>3, <2>1 DEF AfterSecret, Downloads, e
<1>4. ASSUME NEW rest \in Text, rest # <<>>, u = Before("downloads", rest)
      PROVE  AfterSecret(method, a, e) = NotFound
  <2>1. Cat(rest, r) \in Text /\ e = Downloads \o Cat(rest, r)
    <3>1. Cat(rest, r) \in Text
      BY <1>1, CatText
    <3>2. e = Before("/", Before("downloads", Cat(rest, r)))
      BY <1>1, <1>4, OneBefore DEF Part
    <3>3. Part(Only("downloads"), Cat(rest, r)) = Downloads \o Cat(rest, r)
      BY <1>1, <3>1, OnlyToken DEF Downloads
    <3>4. Part(Only("downloads"), Cat(rest, r)) = Before("/", Before("downloads", Cat(rest, r)))
      BY <1>1, <3>1, OnlyToken
    <3> QED BY <3>1, <3>2, <3>3, <3>4
  <2>2. PICK t \in Letters, more \in Text : rest = Before(t, more)
    BY <1>4, TokenThen
  <2>3. NoSlash(rest)
    BY <1>1, <1>4, BeforeEscaped
  <2>4. t # "/"
    BY <2>2, <2>3, BeforeEscaped
  <2>5. Cat(rest, r) = Before(t, Cat(more, r)) /\ Cat(more, r) \in Text
    BY <1>1, <2>2, OneBefore, CatText
  <2>6. Cat(rest, r) # <<>> /\ Head(Cat(rest, r)) # "/"
    <3>1. \A z \in Text : Before(t, z) # <<>> /\ Head(Before(t, z)) = t
      BY DEF Before, Text
    <3> QED BY <2>4, <2>5, <3>1
  <2>7. AfterSecret(method, a, e) = AfterDownloads(method, a, Cat(rest, r))
    <3> HIDE DEF e
    <3> QED BY <1>1, <1>2, <2>1 DEF AfterSecret, Downloads, e
  <2> QED BY <2>6, <2>7 DEF AfterDownloads
<1>5. ASSUME \A rest \in Text : u # Before("downloads", rest)
      PROVE  ~IsPrefix(Downloads, e)
  <2>1. /\ Len(e) = Len(u) + Len(r) + 1 /\ e[1] = "/" /\ Len(u) \in Nat /\ Len(r) \in Nat
        /\ \A k \in 1..Len(u) : e[k+1] = u[k]
        /\ \A k \in 1..Len(r) : e[Len(u)+k+1] = r[k]
    BY <1>1, PartAt
  <2>2. Len(r) = 0 <=> r = <<>>
    BY <1>1, CatText
  <2> SUFFICES ASSUME IsPrefix(Downloads, e) PROVE FALSE
    OBVIOUS
  <2> HIDE DEF e
  <2>3. Len(e) >= 2 /\ e[2] = "downloads"
    <3>1. Len(Downloads) = 2 /\ Downloads[2] = "downloads" /\ SubSeq(Downloads, 1, 2)[2] = Downloads[2]
      BY DEF Downloads
    <3>2. 2 <= Len(e) /\ SubSeq(Downloads, 1, 2) = SubSeq(e, 1, 2)
      BY <3>1 DEF IsPrefix
    <3>3. SubSeq(e, 1, 2)[2] = e[2]
      OBVIOUS
    <3>4. Len(e) >= 2
      BY <2>1, <3>2
    <3> QED BY <3>1, <3>2, <3>3, <3>4
  <2>4. Len(u) = 0 => r # <<>> /\ e[2] = r[1]
    BY <2>1, <2>2, <2>3
  <2>5. Len(u) # 0
    BY <2>3, <2>4 DEF Follows
  <2>6. PICK t \in Letters, rest \in Text : u = Before(t, rest)
    BY <2>5, CatText, TokenThen
  <2>7. u[1] = t /\ u[1] = e[2]
    BY <2>1, <2>5, <2>6, OneBefore
  <2> QED BY <1>5, <2>3, <2>6, <2>7
<1>6. Only("downloads") = Before("downloads", <<>>)
  BY DEF Only
<1>7. CASE u # Only("downloads")
  <2>1. CASE \E rest \in Text : u = Before("downloads", rest)
    BY <1>4, <1>6, <1>7, <2>1
  <2>2. CASE \A rest \in Text : u # Before("downloads", rest)
    <3>1. ~IsPrefix(Downloads, e)
      BY <1>5, <2>2
    <3> HIDE DEF e
    <3>2. AfterSecret(method, a, e) = NotFound
      BY <1>1, <3>1 DEF AfterSecret, Downloads
    <3> QED BY <1>7, <3>2 DEF e
  <2> QED BY <2>1, <2>2
<1> QED BY <1>3, <1>7

LEMMA IdTaken ==
  ASSUME NEW method, NEW a, NEW v \in Text, NoSlash(v), NEW r, Follows(r)
  PROVE  AfterDownloads(method, a, Part(v, r))
           = IF r = <<>> THEN Leaf(method, [GET |-> "getDownload"], <<a, v>>) ELSE NotFound
<1> DEFINE e == Part(v, r)
<1>1. r \in Text /\ Cat(v, r) \in Text /\ e # <<>>
  BY PartTyped DEF Follows
<1>2. Head(e) = "/" /\ Tail(e) = Cat(v, r)
  BY <1>1, LettersKnown DEF Part, Before, Text
<1>3. CASE r = <<>>
  <2>1. Cat(v, r) = v
    BY <1>3 DEF Cat, Text
  <2>2. ~Contains(v, "/")
    BY DEF NoSlash, HasNo, Contains, Text
  <2> HIDE DEF e
  <2> QED BY <1>1, <1>2, <1>3, <2>1, <2>2 DEF AfterDownloads, e
<1>4. CASE r # <<>>
  <2>1. Contains(Cat(v, r), "/")
    <3>1. Len(v) + 1 \in 1..Len(Cat(v, r)) /\ Cat(v, r)[Len(v) + 1] = r[1]
      BY <1>1, <1>4 DEF Cat, Text
    <3>2. r[1] = "/"
      BY <1>4 DEF Follows
    <3> QED BY <3>1, <3>2 DEF Contains
  <2> HIDE DEF e
  <2> QED BY <1>1, <1>2, <1>4, <2>1 DEF AfterDownloads, e
<1> QED BY <1>3, <1>4

-----------------------------------------------------------------------------
(* What the API description makes of the segments.                         *)

Methods == {"GET", "POST", "DELETE"}

\* The operations whose template the segments fit.
Fitting(s) == {op \in Operations : Fits(op, s)}

\* Described, of the segments, each unescaped.
Choice(method, s) ==
  LET chosen == {op \in Fitting(s) : Method[op] = method}
  IN IF Fitting(s) = {} THEN <<"notFound">>
     ELSE IF chosen = {} THEN <<"notAllowed", {Method[op] : op \in Fitting(s)}>>
     ELSE LET op == CHOOSE op \in chosen : TRUE
              params == ParamsOf(op, s)
          IN IF Refused(params) THEN <<"refused">> ELSE <<op, params>>

UnescapedSegments(wire) == [k \in DOMAIN Segments(wire) |-> PathUnescape(Segments(wire)[k])]

LEMMA ChoiceDescribed ==
  ASSUME NEW method, NEW wire
  PROVE  Described(method, wire) = Choice(method, UnescapedSegments(wire))
BY Zenon DEF Described, Choice, Fitting, UnescapedSegments

LEMMA Templates ==
  /\ Len(Template["healthcheck"]) = 1 /\ Template["healthcheck"][1] = "health"
  /\ Len(Template["getChannelInfo"]) = 2
  /\ Template["getChannelInfo"][1] = "api" /\ Template["getChannelInfo"][2] = "{secret}"
  /\ \A op \in {"listDownloads", "createDownload"} :
       /\ Len(Template[op]) = 3
       /\ Template[op][1] = "api" /\ Template[op][2] = "{secret}" /\ Template[op][3] = "downloads"
  /\ Len(Template["getDownload"]) = 4
  /\ Template["getDownload"][1] = "api" /\ Template["getDownload"][2] = "{secret}"
  /\ Template["getDownload"][3] = "downloads" /\ Template["getDownload"][4] = "{id}"
<1>1. Len(Template["healthcheck"]) = 1 /\ Template["healthcheck"][1] = "health"
  BY DEF Template
<1>2. /\ Len(Template["getChannelInfo"]) = 2
      /\ Template["getChannelInfo"][1] = "api" /\ Template["getChannelInfo"][2] = "{secret}"
  BY DEF Template
<1>3. ASSUME NEW op \in {"listDownloads", "createDownload"}
      PROVE  /\ Len(Template[op]) = 3
             /\ Template[op][1] = "api" /\ Template[op][2] = "{secret}" /\ Template[op][3] = "downloads"
  <2>1. CASE op = "listDownloads"
    BY <2>1 DEF Template
  <2>2. CASE op = "createDownload"
    BY <2>2 DEF Template
  <2> QED BY <2>1, <2>2
<1>4. /\ Len(Template["getDownload"]) = 4
      /\ Template["getDownload"][1] = "api" /\ Template["getDownload"][2] = "{secret}"
      /\ Template["getDownload"][3] = "downloads" /\ Template["getDownload"][4] = "{id}"
  BY DEF Template
<1> QED BY <1>1, <1>2, <1>3, <1>4

LEMMA FitsEach ==
  ASSUME NEW s, Len(s) \in Nat, DOMAIN s = 1..Len(s)
  PROVE  /\ Fits("healthcheck", s) <=> (Len(s) = 1 /\ s[1] = <<"health">>)
         /\ Fits("getChannelInfo", s) <=> (Len(s) = 2 /\ s[1] = <<"api">>)
         /\ \A op \in {"listDownloads", "createDownload"} :
              Fits(op, s) <=> (Len(s) = 3 /\ s[1] = <<"api">> /\ s[3] = <<"downloads">>)
         /\ Fits("getDownload", s) <=> (Len(s) = 4 /\ s[1] = <<"api">> /\ s[3] = <<"downloads">>)
<1>1. /\ "{secret}" \in Parameter /\ "{id}" \in Parameter
      /\ "health" \notin Parameter /\ "api" \notin Parameter /\ "downloads" \notin Parameter
  BY DEF Parameter
<1> DEFINE Name(t) == <<t>>
<1>2. ASSUME NEW op
      PROVE  Fits(op, s) <=> /\ Len(s) = Len(Template[op])
                             /\ \A k \in 1..Len(s) : Template[op][k] \in Parameter \/ s[k] = Name(Template[op][k])
  BY DEF Fits
<1>3. ASSUME NEW op, NEW t, t \notin Parameter, Len(Template[op]) = 1, Template[op][1] = t
      PROVE  Fits(op, s) <=> (Len(s) = 1 /\ s[1] = Name(t))
  <2> HIDE DEF Name
  <2>1. Fits(op, s) <=> Len(s) = 1 /\ \A k \in 1..1 : Template[op][k] \in Parameter \/ s[k] = Name(Template[op][k])
    BY <1>2, <1>3
  <2>2. \A k \in 1..1 : k = 1
    OBVIOUS
  <2> QED BY <1>3, <2>1, <2>2
<1>4. ASSUME NEW op, NEW t, t \notin Parameter, Len(Template[op]) = 2, Template[op][1] = t, Template[op][2] \in Parameter
      PROVE  Fits(op, s) <=> (Len(s) = 2 /\ s[1] = Name(t))
  <2> HIDE DEF Name
  <2>1. Fits(op, s) <=> Len(s) = 2 /\ \A k \in 1..2 : Template[op][k] \in Parameter \/ s[k] = Name(Template[op][k])
    BY <1>2, <1>4
  <2>2. \A k \in 1..2 : k = 1 \/ k = 2
    OBVIOUS
  <2> QED BY <1>4, <2>1, <2>2
<1>5. ASSUME NEW op, NEW t, t \notin Parameter, NEW u, u \notin Parameter, Len(Template[op]) = 3,
             Template[op][1] = t, Template[op][2] \in Parameter, Template[op][3] = u
      PROVE  Fits(op, s) <=> (Len(s) = 3 /\ s[1] = Name(t) /\ s[3] = Name(u))
  <2> HIDE DEF Name
  <2>1. Fits(op, s) <=> Len(s) = 3 /\ \A k \in 1..3 : Template[op][k] \in Parameter \/ s[k] = Name(Template[op][k])
    BY <1>2, <1>5
  <2>2. \A k \in 1..3 : k = 1 \/ k = 2 \/ k = 3
    OBVIOUS
  <2> QED BY <1>5, <2>1, <2>2
<1>6. ASSUME NEW op, NEW t, t \notin Parameter, NEW u, u \notin Parameter, Len(Template[op]) = 4,
             Template[op][1] = t, Template[op][2] \in Parameter, Template[op][3] = u, Template[op][4] \in Parameter
      PROVE  Fits(op, s) <=> (Len(s) = 4 /\ s[1] = Name(t) /\ s[3] = Name(u))
  <2> HIDE DEF Name
  <2>1. Fits(op, s) <=> Len(s) = 4 /\ \A k \in 1..4 : Template[op][k] \in Parameter \/ s[k] = Name(Template[op][k])
    BY <1>2, <1>6
  <2>2. \A k \in 1..4 : k = 1 \/ k = 2 \/ k = 3 \/ k = 4
    OBVIOUS
  <2> QED BY <1>6, <2>1, <2>2
<1>7. ASSUME NEW op \in {"listDownloads", "createDownload"}
      PROVE  Fits(op, s) <=> (Len(s) = 3 /\ s[1] = Name("api") /\ s[3] = Name("downloads"))
  BY <1>1, <1>5, Templates
<1>8. Fits("healthcheck", s) <=> (Len(s) = 1 /\ s[1] = Name("health"))
  BY <1>1, <1>3, Templates
<1>9. Fits("getChannelInfo", s) <=> (Len(s) = 2 /\ s[1] = Name("api"))
  BY <1>1, <1>4, Templates
<1>10. Fits("getDownload", s) <=> (Len(s) = 4 /\ s[1] = Name("api") /\ s[3] = Name("downloads"))
  BY <1>1, <1>6, Templates
<1> QED BY <1>7, <1>8, <1>9, <1>10

\* Where a parameter is in a template.
ParameterAt(op, p) == {i \in 1..Len(Template[op]) : Template[op][i] = p}
FirstPlace(op, p)  == IF ParameterAt(op, p) # {} THEN Min(ParameterAt(op, p)) ELSE 0

LEMMA ParameterPlaces ==
  /\ \A op \in {"getChannelInfo", "listDownloads", "createDownload", "getDownload"} : FirstPlace(op, "{secret}") = 2
  /\ FirstPlace("getDownload", "{id}") = 4
<1>1. ASSUME NEW op, NEW p, NEW n \in Nat, ParameterAt(op, p) = {n}
      PROVE  FirstPlace(op, p) = n
  BY <1>1 DEF FirstPlace, Min
<1>2. /\ \A k \in 1..2 : k = 1 \/ k = 2
      /\ \A k \in 1..3 : k = 1 \/ k = 2 \/ k = 3
      /\ \A k \in 1..4 : k = 1 \/ k = 2 \/ k = 3 \/ k = 4
      /\ 2 \in 1..2 /\ 2 \in 1..3 /\ 2 \in 1..4 /\ 4 \in 1..4 /\ 2 \in Nat /\ 4 \in Nat
  OBVIOUS
<1>3. ParameterAt("getChannelInfo", "{secret}") = {2}
  BY <1>2, Templates DEF ParameterAt
<1>4. ASSUME NEW op \in {"listDownloads", "createDownload"}
      PROVE  ParameterAt(op, "{secret}") = {2}
  BY <1>2, Templates DEF ParameterAt
<1>5. ParameterAt("getDownload", "{secret}") = {2} /\ ParameterAt("getDownload", "{id}") = {4}
  BY <1>2, Templates DEF ParameterAt
<1> QED BY <1>1, <1>2, <1>3, <1>4, <1>5

LEMMA ParamsChosen ==
  ASSUME NEW s
  PROVE  /\ ParamsOf("healthcheck", s) = <<>>
         /\ \A op \in {"getChannelInfo", "listDownloads", "createDownload"} : ParamsOf(op, s) = [secret |-> s[2]]
         /\ ParamsOf("getDownload", s) = [secret |-> s[2], id |-> s[4]]
<1>1. ParamsOf("healthcheck", s) = <<>>
  BY DEF ParamsOf
<1>2. ASSUME NEW op \in {"getChannelInfo", "listDownloads", "createDownload"}
      PROVE  ParamsOf(op, s) = [secret |-> s[2]]
  <2>1. op # "healthcheck" /\ op # "getDownload"
    OBVIOUS
  <2>2. ParamsOf(op, s) = [secret |-> s[FirstPlace(op, "{secret}")]]
    BY <2>1 DEF ParamsOf, SelectInSeq, FirstPlace, ParameterAt
  <2>3. FirstPlace(op, "{secret}") = 2
    BY ParameterPlaces
  <2> QED BY <2>2, <2>3
<1>3. ParamsOf("getDownload", s) = [secret |-> s[2], id |-> s[4]]
  <2>1. ParamsOf("getDownload", s)
          = [secret |-> s[FirstPlace("getDownload", "{secret}")], id |-> s[FirstPlace("getDownload", "{id}")]]
    BY DEF ParamsOf, SelectInSeq, FirstPlace, ParameterAt
  <2>2. FirstPlace("getDownload", "{secret}") = 2 /\ FirstPlace("getDownload", "{id}") = 4
    BY ParameterPlaces
  <2> QED BY <2>1, <2>2
<1> QED BY <1>1, <1>2, <1>3

LEMMA ChoiceChosen ==
  ASSUME NEW s, NEW method, NEW op, {o \in Fitting(s) : Method[o] = method} = {op}
  PROVE  Choice(method, s) = IF Refused(ParamsOf(op, s)) THEN <<"refused">> ELSE <<op, ParamsOf(op, s)>>
<1> DEFINE chosen == {o \in Fitting(s) : Method[o] = method}
<1>1. chosen # {} /\ Fitting(s) # {}
  OBVIOUS
<1>2. (CHOOSE o \in {op} : TRUE) = op
  OBVIOUS
<1>3. chosen = {op}
  OBVIOUS
<1> HIDE DEF chosen
<1>4. (CHOOSE o \in chosen : TRUE) = op
  BY <1>2, <1>3
<1> QED BY <1>1, <1>4, Zenon DEF Choice, chosen

\* A request for one operation, or for another method.
One(op, method, params) ==
  IF method # Method[op] THEN <<"notAllowed", {Method[op]}>>
  ELSE IF Refused(params) THEN <<"refused">> ELSE <<op, params>>

LEMMA ChoiceOne ==
  ASSUME NEW s, NEW method, NEW op \in Operations, Fitting(s) = {op}
  PROVE  Choice(method, s) = One(op, method, ParamsOf(op, s))
<1> DEFINE chosen == {o \in Fitting(s) : Method[o] = method}
<1>1. CASE Method[op] = method
  <2>1. {o \in Fitting(s) : Method[o] = method} = {op}
    BY <1>1
  <2> QED BY <1>1, <2>1, ChoiceChosen, Zenon DEF One
<1>2. CASE Method[op] # method
  <2>1. chosen = {} /\ {Method[o] : o \in Fitting(s)} = {Method[op]}
    BY <1>2
  <2> QED BY <1>2, <2>1 DEF Choice, One
<1> QED BY <1>1, <1>2

LEMMA ChoiceTwo ==
  ASSUME NEW s, NEW method \in Methods, Fitting(s) = {"listDownloads", "createDownload"}
  PROVE  Choice(method, s)
           = IF method = "DELETE" THEN <<"notAllowed", {"GET", "POST"}>>
             ELSE LET op == IF method = "GET" THEN "listDownloads" ELSE "createDownload"
                      params == ParamsOf(op, s)
                  IN IF Refused(params) THEN <<"refused">> ELSE <<op, params>>
<1> DEFINE chosen == {o \in Fitting(s) : Method[o] = method}
<1>1. Method["listDownloads"] = "GET" /\ Method["createDownload"] = "POST"
  BY DEF Method
<1>2. CASE method = "DELETE"
  <2>1. chosen = {} /\ Fitting(s) # {} /\ {Method[o] : o \in Fitting(s)} = {"GET", "POST"}
    BY <1>1, <1>2
  <2> HIDE DEF chosen
  <2>2. Choice(method, s) = <<"notAllowed", {Method[o] : o \in Fitting(s)}>>
    BY <2>1, Zenon DEF Choice, chosen
  <2> QED BY <1>2, <2>1, <2>2
<1>3. ASSUME NEW op, method # "DELETE", op = IF method = "GET" THEN "listDownloads" ELSE "createDownload"
      PROVE  Choice(method, s) = IF Refused(ParamsOf(op, s)) THEN <<"refused">> ELSE <<op, ParamsOf(op, s)>>
  <2>1. {o \in Fitting(s) : Method[o] = method} = {op}
    BY <1>1, <1>3 DEF Methods
  <2> QED BY <2>1, ChoiceChosen, Zenon
<1> QED BY <1>2, <1>3

\* What becomes of a list of segments, each unescaped.
List(s)        == Len(s) \in Nat /\ DOMAIN s = 1..Len(s)
Named(s, k, t) == s[k] = <<t>>

LEMMA FitsNamed ==
  ASSUME NEW s, List(s)
  PROVE  /\ Fits("healthcheck", s) <=> (Len(s) = 1 /\ Named(s, 1, "health"))
         /\ Fits("getChannelInfo", s) <=> (Len(s) = 2 /\ Named(s, 1, "api"))
         /\ \A op \in {"listDownloads", "createDownload"} :
              Fits(op, s) <=> (Len(s) = 3 /\ Named(s, 1, "api") /\ Named(s, 3, "downloads"))
         /\ Fits("getDownload", s) <=> (Len(s) = 4 /\ Named(s, 1, "api") /\ Named(s, 3, "downloads"))
<1>1. Len(s) \in Nat /\ DOMAIN s = 1..Len(s)
  BY DEF List
<1> QED BY <1>1, FitsEach, Zenon DEF Named

LEMMA ChoiceHealth ==
  ASSUME NEW method, NEW s, List(s), Len(s) = 1, Named(s, 1, "health")
  PROVE  Choice(method, s) = One("healthcheck", method, <<>>)
<1>1. Fitting(s) = {"healthcheck"}
  BY FitsNamed DEF Fitting, Operations
<1> QED BY <1>1, ChoiceOne, ParamsChosen DEF Operations

LEMMA ChoiceSecret ==
  ASSUME NEW method, NEW s, List(s), Len(s) = 2, Named(s, 1, "api")
  PROVE  Choice(method, s) = One("getChannelInfo", method, [secret |-> s[2]])
<1>1. Fitting(s) = {"getChannelInfo"}
  BY FitsNamed DEF Fitting, Operations
<1>2. Choice(method, s) = One("getChannelInfo", method, ParamsOf("getChannelInfo", s))
  BY <1>1, ChoiceOne DEF Operations
<1>3. ParamsOf("getChannelInfo", s) = [secret |-> s[2]]
  BY ParamsChosen
<1> QED BY <1>2, <1>3

LEMMA ChoiceDownloads ==
  ASSUME NEW method \in Methods, NEW s, List(s), Len(s) = 3, Named(s, 1, "api"), Named(s, 3, "downloads")
  PROVE  /\ method = "DELETE" => Choice(method, s) = <<"notAllowed", {"GET", "POST"}>>
         /\ method = "GET" => Choice(method, s) = One("listDownloads", method, [secret |-> s[2]])
         /\ method = "POST" => Choice(method, s) = One("createDownload", method, [secret |-> s[2]])
<1>1. Fitting(s) = {"listDownloads", "createDownload"}
  BY FitsNamed DEF Fitting, Operations
<1>2. /\ ParamsOf("listDownloads", s) = [secret |-> s[2]] /\ ParamsOf("createDownload", s) = [secret |-> s[2]]
      /\ Method["listDownloads"] = "GET" /\ Method["createDownload"] = "POST"
  BY ParamsChosen DEF Method
<1>3. /\ method = "DELETE" => Choice(method, s) = <<"notAllowed", {"GET", "POST"}>>
      /\ method = "GET" => Choice(method, s) = One("listDownloads", method, ParamsOf("listDownloads", s))
      /\ method = "POST" => Choice(method, s) = One("createDownload", method, ParamsOf("createDownload", s))
  BY <1>1, <1>2, ChoiceTwo DEF One
<1> QED BY <1>2, <1>3

LEMMA ChoiceId ==
  ASSUME NEW method, NEW s, List(s), Len(s) = 4, Named(s, 1, "api"), Named(s, 3, "downloads")
  PROVE  Choice(method, s) = One("getDownload", method, [secret |-> s[2], id |-> s[4]])
<1>1. Fitting(s) = {"getDownload"}
  BY FitsNamed DEF Fitting, Operations
<1>2. Choice(method, s) = One("getDownload", method, ParamsOf("getDownload", s))
  BY <1>1, ChoiceOne DEF Operations
<1>3. ParamsOf("getDownload", s) = [secret |-> s[2], id |-> s[4]]
  BY ParamsChosen
<1> QED BY <1>2, <1>3

LEMMA ChoiceNothing ==
  ASSUME NEW method, NEW s, List(s), Len(s) = 1 => ~Named(s, 1, "health"),
         Len(s) = 2 => ~Named(s, 1, "api"),
         Len(s) \in {3, 4} => ~Named(s, 1, "api") \/ ~Named(s, 3, "downloads")
  PROVE  Choice(method, s) = <<"notFound">>
<1>1. Fitting(s) = {}
  BY FitsNamed DEF Fitting, Operations
<1> QED BY <1>1 DEF Choice

-----------------------------------------------------------------------------
(* A request, routed and described.                                        *)

\* A part of the path that the router takes for an argument.
Argument(chars, wire, a) ==
  /\ IsPart(a) /\ Seen(chars, a)
  /\ NoEscape(Unescape(chars, wire)) => NoEscape(Unescape(chars, a))

Single == {"getChannelInfo", "listDownloads", "createDownload"}

Refusable(op, params) == IF Refused(params) THEN <<"refused">> ELSE <<op, params>>

\* What the tree finds in a form of the path is what the description has for it.
Agree(chars, wire, routed, described) ==
  \/ routed = NotFound /\ described = <<"notFound">>
  \/ \E m : routed = NotAllowed(m) /\ described = <<"notAllowed", m>>
  \/ routed = Handle("healthcheck", <<>>) /\ described = Refusable("healthcheck", <<>>)
  \/ \E op \in Single : \E a :
       /\ Argument(chars, wire, a) /\ routed = Handle(op, <<Unescape(chars, a)>>)
       /\ described = Refusable(op, [secret |-> PathUnescape(a)])
  \/ \E a, b :
       /\ Argument(chars, wire, a) /\ Argument(chars, wire, b)
       /\ routed = Handle("getDownload", <<Unescape(chars, a), Unescape(chars, b)>>)
       /\ described = Refusable("getDownload", [secret |-> PathUnescape(a), id |-> PathUnescape(b)])

LEMMA PartViewed ==
  ASSUME NEW chars \in Views, NEW a, IsPart(a), NEW x, IsRest(x), Seen(chars, Part(a, x))
  PROVE  /\ Unescape(chars, Part(a, x)) = Part(Unescape(chars, a), Unescape(chars, x))
         /\ Seen(chars, a) /\ Seen(chars, x)
         /\ Unescape(chars, a) \in Text /\ NoSlash(Unescape(chars, a)) /\ Follows(Unescape(chars, x))
         /\ Unescape(chars, x) = <<>> <=> x = <<>>
         /\ NoEscape(Unescape(chars, Part(a, x))) => NoEscape(Unescape(chars, a)) /\ NoEscape(Unescape(chars, x))
<1>1. /\ Unescape(chars, Part(a, x)) = Part(Unescape(chars, a), Unescape(chars, x))
      /\ Seen(chars, a) /\ Seen(chars, x)
  BY PathSeen
<1>2. PICK u \in Text : u = Unescape(chars, a) /\ NoSlash(u)
  BY <1>1, PartSeen
<1>3. PICK v \in Text : v = Unescape(chars, x) /\ (v = <<>> <=> x = <<>>) /\ (v = <<>> \/ v[1] = "/")
  BY <1>1, RestSeen
<1>4. NoEscape(Part(u, v)) => NoEscape(u) /\ NoEscape(v)
  <2>1. Cat(u, v) \in Text /\ "/" \in Letters
    BY CatText, LettersKnown
  <2>2. NoEscape(Before("/", Cat(u, v))) => NoEscape(Cat(u, v))
    BY <2>1, BeforeEscaped
  <2> QED BY <2>2, NoEscapeParts DEF Part
<1> QED BY <1>1, <1>2, <1>3, <1>4 DEF Follows

\* A name in a path is the same in each form of it.
LEMMA NameSeen ==
  ASSUME NEW a, IsPart(a), NEW t \in {"api", "downloads", "health"}, NEW chars
  PROVE  /\ Unescape(chars, a) = Only(t) <=> a = Only(t)
         /\ PathUnescape(a) = <<t>> <=> a = Only(t)
<1>1. t \in Letters /\ t \notin Characters /\ Only(t) = <<t>>
  BY LettersKnown, OnlyToken DEF Characters
<1>2. ASSUME NEW c
      PROVE  Unescape(c, a) = Only(t) <=> a = Only(t)
  BY <1>1, UnescapedToken DEF IsPart
<1> QED BY <1>1, <1>2 DEF PathUnescape

LEMMA SegmentsUnescaped ==
  /\ Len(UnescapedSegments(<<>>)) = 0 /\ DOMAIN UnescapedSegments(<<>>) = 1..0
  /\ \A a, x : IsPart(a) /\ IsRest(x) =>
       LET s == UnescapedSegments(Part(a, x))
           r == UnescapedSegments(x)
       IN /\ Len(r) \in Nat /\ Len(s) = Len(r) + 1 /\ DOMAIN s = 1..Len(s)
          /\ s[1] = PathUnescape(a) /\ \A k \in 1..Len(r) : s[k+1] = r[k]
<1>1. ASSUME NEW n \in Nat, NEW e
      PROVE  LET f == [k \in 1..n |-> PathUnescape(e[k])] IN Len(f) = n /\ DOMAIN f = 1..n
  OBVIOUS
<1>2. Len(UnescapedSegments(<<>>)) = 0 /\ DOMAIN UnescapedSegments(<<>>) = 1..0
  <2>1. DOMAIN Segments(<<>>) = 1..0
    BY SegmentsOfPath
  <2>2. UnescapedSegments(<<>>) = [k \in 1..0 |-> PathUnescape(Segments(<<>>)[k])]
    BY <2>1 DEF UnescapedSegments
  <2> QED BY <1>1, <2>2
<1>3. ASSUME NEW a, NEW x, IsPart(a), IsRest(x)
      PROVE  LET s == UnescapedSegments(Part(a, x))
                 r == UnescapedSegments(x)
             IN /\ Len(r) \in Nat /\ Len(s) = Len(r) + 1 /\ DOMAIN s = 1..Len(s)
                /\ s[1] = PathUnescape(a) /\ \A k \in 1..Len(r) : s[k+1] = r[k]
  <2>1. PICK p \in Seq(Text) : p = Segments(x)
    BY <1>3, SegmentsOfPath
  <2>2. PICK q \in Seq(Text) : /\ q = Segments(Part(a, x)) /\ Len(q) = Len(p) + 1
                               /\ q[1] = a /\ \A k \in 1..Len(p) : q[k+1] = p[k]
    <3>1. a \in Text
      BY <1>3 DEF IsPart
    <3>2. Segments(Part(a, x)) = Before(a, p)
      BY <1>3, <2>1, SegmentsOfPath
    <3> QED BY <3>1, <3>2, OneMoreText
  <2>3. Len(p) \in Nat /\ Len(q) \in Nat /\ DOMAIN p = 1..Len(p) /\ DOMAIN q = 1..Len(q)
    OBVIOUS
  <2>4. UnescapedSegments(x) = [k \in 1..Len(p) |-> PathUnescape(p[k])]
    BY <2>1, <2>3 DEF UnescapedSegments
  <2>5. UnescapedSegments(Part(a, x)) = [k \in 1..Len(q) |-> PathUnescape(q[k])]
    BY <2>2, <2>3 DEF UnescapedSegments
  <2>6. PICK r : r = UnescapedSegments(x) /\ Len(r) = Len(p) /\ \A k \in 1..Len(p) : r[k] = PathUnescape(p[k])
    BY <1>1, <2>3, <2>4
  <2>7. PICK s : /\ s = UnescapedSegments(Part(a, x)) /\ Len(s) = Len(q) /\ DOMAIN s = 1..Len(q)
                 /\ \A k \in 1..Len(q) : s[k] = PathUnescape(q[k])
    BY <1>1, <2>3, <2>5
  <2>8. 1 \in 1..Len(q) /\ \A k \in 1..Len(p) : k + 1 \in 1..Len(q)
    BY <2>2, <2>3
  <2>9. s[1] = PathUnescape(a) /\ \A k \in 1..Len(r) : s[k+1] = r[k]
    BY <2>2, <2>6, <2>7, <2>8
  <2> QED BY <2>2, <2>3, <2>6, <2>7, <2>9
<1> QED BY <1>2, <1>3

LEMMA LeafOf ==
  ASSUME NEW method \in Methods, NEW args,
         NEW op \in {"healthcheck", "getChannelInfo", "listDownloads", "getDownload"}, NEW params
  PROVE  /\ Leaf(method, [GET |-> op], args) = IF method = "GET" THEN Handle(op, args) ELSE NotAllowed({"GET"})
         /\ One(op, method, params) = IF method = "GET" THEN Refusable(op, params) ELSE <<"notAllowed", {"GET"}>>
<1>1. Method[op] = "GET"
  BY DEF Method
<1> QED BY <1>1 DEF Leaf, One, Refusable

\* The ways to agree.
LEMMA Agreement ==
  ASSUME NEW chars, NEW wire
  PROVE  /\ Agree(chars, wire, NotFound, <<"notFound">>)
         /\ \A m : Agree(chars, wire, NotAllowed(m), <<"notAllowed", m>>)
         /\ Agree(chars, wire, Handle("healthcheck", <<>>), Refusable("healthcheck", <<>>))
         /\ \A op \in Single : \A a : Argument(chars, wire, a) =>
              Agree(chars, wire, Handle(op, <<Unescape(chars, a)>>), Refusable(op, [secret |-> PathUnescape(a)]))
         /\ \A a, b : Argument(chars, wire, a) /\ Argument(chars, wire, b) =>
              Agree(chars, wire, Handle("getDownload", <<Unescape(chars, a), Unescape(chars, b)>>),
                    Refusable("getDownload", [secret |-> PathUnescape(a), id |-> PathUnescape(b)]))
<1>1. Agree(chars, wire, NotFound, <<"notFound">>)
  BY Zenon DEF Agree
<1>2. \A m : Agree(chars, wire, NotAllowed(m), <<"notAllowed", m>>)
  BY Zenon DEF Agree
<1>3. Agree(chars, wire, Handle("healthcheck", <<>>), Refusable("healthcheck", <<>>))
  BY Zenon DEF Agree
<1>4. ASSUME NEW op \in Single, NEW a, Argument(chars, wire, a)
      PROVE  Agree(chars, wire, Handle(op, <<Unescape(chars, a)>>), Refusable(op, [secret |-> PathUnescape(a)]))
  BY <1>4, Zenon DEF Agree
<1>5. ASSUME NEW a, NEW b, Argument(chars, wire, a), Argument(chars, wire, b)
      PROVE  Agree(chars, wire, Handle("getDownload", <<Unescape(chars, a), Unescape(chars, b)>>),
                   Refusable("getDownload", [secret |-> PathUnescape(a), id |-> PathUnescape(b)]))
  BY <1>5, Zenon DEF Agree
<1> QED BY <1>1, <1>2, <1>3, <1>4, <1>5, Zenon

\* What the router takes for a request of one operation is that request.
LEMMA GetAgrees ==
  ASSUME NEW method \in Methods, NEW chars, NEW wire, NEW args, NEW params,
         NEW op \in {"healthcheck", "getChannelInfo", "listDownloads", "getDownload"},
         Agree(chars, wire, Handle(op, args), Refusable(op, params))
  PROVE  Agree(chars, wire, Leaf(method, [GET |-> op], args), One(op, method, params))
<1>1. CASE method = "GET"
  <2>1. Leaf(method, [GET |-> op], args) = Handle(op, args) /\ One(op, method, params) = Refusable(op, params)
    BY <1>1, LeafOf
  <2> QED BY <2>1
<1>2. CASE method # "GET"
  <2>1. Leaf(method, [GET |-> op], args) = NotAllowed({"GET"}) /\ One(op, method, params) = <<"notAllowed", {"GET"}>>
    BY <1>2, LeafOf
  <2> QED BY <2>1, Agreement, Zenon
<1> QED BY <1>1, <1>2

\* "/api/{secret}/downloads", with or without an id.
LEMMA DownloadsAgree ==
  ASSUME NEW method \in Methods, NEW chars \in Views, NEW wire, NEW a, Argument(chars, wire, a),
         NEW x, IsRest(x), Seen(chars, x), NoEscape(Unescape(chars, wire)) => NoEscape(Unescape(chars, x)),
         NEW s, NEW r, r = UnescapedSegments(x), Len(s) = Len(r) + 3, List(s), Len(r) \in Nat,
         Named(s, 1, "api"), s[2] = PathUnescape(a), Named(s, 3, "downloads"), \A k \in 1..Len(r) : s[k+3] = r[k]
  PROVE  Agree(chars, wire, AfterDownloads(method, Unescape(chars, a), Unescape(chars, x)), Choice(method, s))
<1> DEFINE u == Unescape(chars, a)
           params == [secret |-> PathUnescape(a)]
<1>1. CASE x = <<>>
  <2>1. Unescape(chars, x) = <<>> /\ Len(s) = 3
    <3>1. Len(r) = 0
      BY <1>1, SegmentsUnescaped
    <3> QED BY <1>1, <3>1, NoTokens
  <2>2. AfterDownloads(method, u, <<>>) = Leaf(method, [GET |-> "listDownloads", POST |-> "createDownload"], <<u>>)
    BY DEF AfterDownloads
  <2>3. "listDownloads" \in Single /\ "createDownload" \in Single
    BY DEF Single
  <2>4. CASE method = "GET"
    <3>1. Choice(method, s) = One("listDownloads", method, params)
      BY <2>1, <2>4, ChoiceDownloads
    <3>2. One("listDownloads", method, params) = Refusable("listDownloads", params)
      BY <2>4, LeafOf
    <3>3. AfterDownloads(method, u, <<>>) = Handle("listDownloads", <<u>>)
      BY <2>2, <2>4 DEF Leaf
    <3>4. Agree(chars, wire, Handle("listDownloads", <<u>>), Refusable("listDownloads", params))
      BY <2>3, Agreement, Zenon
    <3> QED BY <2>1, <3>1, <3>2, <3>3, <3>4, Zenon
  <2>5. CASE method = "POST"
    <3>1. Choice(method, s) = One("createDownload", method, params)
      BY <2>1, <2>5, ChoiceDownloads
    <3>2. One("createDownload", method, params) = Refusable("createDownload", params)
      <4>1. Method["createDownload"] = method
        BY <2>5 DEF Method
      <4> QED BY <4>1, Zenon DEF One, Refusable
    <3>3. AfterDownloads(method, u, <<>>) = Handle("createDownload", <<u>>)
      BY <2>2, <2>5 DEF Leaf
    <3>4. Agree(chars, wire, Handle("createDownload", <<u>>), Refusable("createDownload", params))
      BY <2>3, Agreement, Zenon
    <3> QED BY <2>1, <3>1, <3>2, <3>3, <3>4, Zenon
  <2>6. CASE method = "DELETE"
    <3>1. Choice(method, s) = <<"notAllowed", {"GET", "POST"}>>
      BY <2>1, <2>6, ChoiceDownloads
    <3>2. AfterDownloads(method, u, <<>>) = NotAllowed({"GET", "POST"})
      BY <2>2, <2>6 DEF Leaf
    <3> QED BY <2>1, <3>1, <3>2, Agreement, Zenon
  <2> QED BY <2>4, <2>5, <2>6 DEF Methods
<1>2. ASSUME NEW b, NEW y, IsPart(b), IsRest(y), x = Part(b, y)
      PROVE  Agree(chars, wire, AfterDownloads(method, u, Unescape(chars, x)), Choice(method, s))
  <2>1. /\ Unescape(chars, x) = Part(Unescape(chars, b), Unescape(chars, y))
        /\ Seen(chars, b) /\ Seen(chars, y)
        /\ Unescape(chars, b) \in Text /\ NoSlash(Unescape(chars, b)) /\ Follows(Unescape(chars, y))
        /\ Unescape(chars, y) = <<>> <=> y = <<>>
        /\ NoEscape(Unescape(chars, x)) => NoEscape(Unescape(chars, b))
    BY <1>2, PartViewed
  <2>2. AfterDownloads(method, u, Unescape(chars, x))
          = IF y = <<>> THEN Leaf(method, [GET |-> "getDownload"], <<u, Unescape(chars, b)>>) ELSE NotFound
    <3>1. PICK v \in Text : v = Unescape(chars, b) /\ NoSlash(v)
      BY <2>1
    <3>2. PICK z : z = Unescape(chars, y) /\ Follows(z)
      BY <2>1
    <3>3. AfterDownloads(method, u, Part(v, z))
            = IF z = <<>> THEN Leaf(method, [GET |-> "getDownload"], <<u, v>>) ELSE NotFound
      BY <3>1, <3>2, IdTaken
    <3> QED BY <2>1, <3>1, <3>2, <3>3
  <2>3. PICK q : /\ q = UnescapedSegments(y) /\ Len(q) \in Nat /\ Len(r) = Len(q) + 1
                 /\ r[1] = PathUnescape(b)
    BY <1>2, SegmentsUnescaped
  <2>4. s[4] = PathUnescape(b) /\ Len(s) = Len(q) + 4
    <3>1. 1 \in 1..Len(r) /\ s[1+3] = r[1]
      BY <2>3
    <3> QED BY <2>3, <3>1
  <2>5. CASE y = <<>>
    <3>1. Len(s) = 4
      <4>1. Len(q) = 0
        BY <2>3, <2>5, SegmentsUnescaped
      <4>2. Len(s) = 0 + 4
        BY <2>4, <4>1, Zenon
      <4>3. 0 + 4 = 4
        OBVIOUS
      <4> QED BY <4>2, <4>3, Zenon
    <3>2. Choice(method, s) = One("getDownload", method, [secret |-> PathUnescape(a), id |-> PathUnescape(b)])
      BY <2>4, <3>1, ChoiceId
    <3>3. Argument(chars, wire, b)
      BY <1>2, <2>1 DEF Argument
    <3>4. Agree(chars, wire, Handle("getDownload", <<u, Unescape(chars, b)>>),
                Refusable("getDownload", [secret |-> PathUnescape(a), id |-> PathUnescape(b)]))
      BY <3>3, Agreement, Zenon
    <3>5. Agree(chars, wire, Leaf(method, [GET |-> "getDownload"], <<u, Unescape(chars, b)>>),
                One("getDownload", method, [secret |-> PathUnescape(a), id |-> PathUnescape(b)]))
      BY <3>4, GetAgrees
    <3>6. AfterDownloads(method, u, Unescape(chars, x)) = Leaf(method, [GET |-> "getDownload"], <<u, Unescape(chars, b)>>)
      BY <2>2, <2>5
    <3> QED BY <3>2, <3>5, <3>6, Zenon
  <2>6. CASE y # <<>>
    <3>1. PICK c, z : IsPart(c) /\ IsRest(z) /\ y = Part(c, z)
      BY <1>2, <2>6, RestSplit
    <3>2. Len(UnescapedSegments(z)) \in Nat /\ Len(q) = Len(UnescapedSegments(z)) + 1
      BY <2>3, <3>1, SegmentsUnescaped
    <3>3. Len(s) # 1 /\ Len(s) # 2 /\ Len(s) \notin {3, 4}
      <4> DEFINE n == Len(UnescapedSegments(z))
      <4>1. n \in Nat /\ Len(s) = (n + 1) + 4
        BY <2>4, <3>2
      <4> HIDE DEF n
      <4> QED BY <4>1
    <3>4. Choice(method, s) = <<"notFound">>
      BY <3>3, ChoiceNothing
    <3>5. AfterDownloads(method, u, Unescape(chars, x)) = NotFound
      BY <2>2, <2>6
    <3> QED BY <3>4, <3>5, Agreement, Zenon
  <2> QED BY <2>5, <2>6
<1> QED BY <1>1, <1>2, RestSplit

\* "/api/{secret}", and what is under it.
LEMMA SecretAgrees ==
  ASSUME NEW method \in Methods, NEW chars \in Views, NEW wire, NEW a, Argument(chars, wire, a),
         NEW x, IsRest(x), Seen(chars, x), NoEscape(Unescape(chars, wire)) => NoEscape(Unescape(chars, x)),
         NEW s, NEW r, r = UnescapedSegments(x), Len(s) = Len(r) + 2, List(s), Len(r) \in Nat,
         Named(s, 1, "api"), s[2] = PathUnescape(a), \A k \in 1..Len(r) : s[k+2] = r[k]
  PROVE  Agree(chars, wire, AfterSecret(method, Unescape(chars, a), Unescape(chars, x)), Choice(method, s))
<1> DEFINE u == Unescape(chars, a)
<1>1. CASE x = <<>>
  <2>1. Unescape(chars, x) = <<>> /\ Len(s) = 2
    <3>1. Len(r) = 0
      BY <1>1, SegmentsUnescaped
    <3> QED BY <1>1, <3>1, NoTokens
  <2>2. AfterSecret(method, u, <<>>) = Leaf(method, [GET |-> "getChannelInfo"], <<u>>)
    BY DEF AfterSecret
  <2>3. Choice(method, s) = One("getChannelInfo", method, [secret |-> PathUnescape(a)])
    BY <2>1, ChoiceSecret
  <2>4. Agree(chars, wire, Handle("getChannelInfo", <<u>>), Refusable("getChannelInfo", [secret |-> PathUnescape(a)]))
    <3>1. "getChannelInfo" \in Single
      BY DEF Single
    <3> QED BY <3>1, Agreement, Zenon
  <2>5. Agree(chars, wire, Leaf(method, [GET |-> "getChannelInfo"], <<u>>),
              One("getChannelInfo", method, [secret |-> PathUnescape(a)]))
    BY <2>4, GetAgrees
  <2> QED BY <2>1, <2>2, <2>3, <2>5, Zenon
<1>2. ASSUME NEW b, NEW y, IsPart(b), IsRest(y), x = Part(b, y)
      PROVE  Agree(chars, wire, AfterSecret(method, u, Unescape(chars, x)), Choice(method, s))
  <2>1. /\ Unescape(chars, x) = Part(Unescape(chars, b), Unescape(chars, y))
        /\ Seen(chars, b) /\ Seen(chars, y)
        /\ Unescape(chars, b) \in Text /\ NoSlash(Unescape(chars, b)) /\ Follows(Unescape(chars, y))
        /\ NoEscape(Unescape(chars, x)) => NoEscape(Unescape(chars, y))
    BY <1>2, PartViewed
  <2>2. AfterSecret(method, u, Unescape(chars, x))
          = IF Unescape(chars, b) = Only("downloads") THEN AfterDownloads(method, u, Unescape(chars, y)) ELSE NotFound
    <3>1. PICK v \in Text : v = Unescape(chars, b) /\ NoSlash(v)
      BY <2>1
    <3>2. PICK z : z = Unescape(chars, y) /\ Follows(z)
      BY <2>1
    <3>3. AfterSecret(method, u, Part(v, z))
            = IF v = Only("downloads") THEN AfterDownloads(method, u, z) ELSE NotFound
      BY <3>1, <3>2, DownloadsTaken
    <3> QED BY <2>1, <3>1, <3>2, <3>3
  <2>3. /\ Unescape(chars, b) = Only("downloads") <=> b = Only("downloads")
        /\ PathUnescape(b) = <<"downloads">> <=> b = Only("downloads")
    BY <1>2, NameSeen
  <2>4. PICK q : /\ q = UnescapedSegments(y) /\ Len(q) \in Nat /\ Len(r) = Len(q) + 1
                 /\ r[1] = PathUnescape(b) /\ \A k \in 1..Len(q) : r[k+1] = q[k]
    BY <1>2, SegmentsUnescaped
  <2>5. s[3] = PathUnescape(b) /\ Len(s) = Len(q) + 3
    <3>1. 1 \in 1..Len(r) /\ s[1+2] = r[1]
      BY <2>4
    <3> QED BY <2>4, <3>1
  <2>6. \A k \in 1..Len(q) : s[k+3] = q[k]
    <3> SUFFICES ASSUME NEW k \in 1..Len(q) PROVE s[k+3] = q[k]
      OBVIOUS
    <3>1. k + 1 \in 1..Len(r) /\ s[(k+1)+2] = r[k+1] /\ (k+1)+2 = k+3
      BY <2>4
    <3> QED BY <2>4, <3>1
  <2>9. Named(s, 3, "downloads") <=> b = Only("downloads")
    BY <2>3, <2>5 DEF Named
  <2>7. CASE b = Only("downloads")
    <3>1. NoEscape(Unescape(chars, wire)) => NoEscape(Unescape(chars, y))
      BY <2>1
    <3>2. Agree(chars, wire, AfterDownloads(method, u, Unescape(chars, y)), Choice(method, s))
      BY <1>2, <2>1, <2>4, <2>5, <2>6, <2>7, <2>9, <3>1, DownloadsAgree
    <3> QED BY <2>2, <2>3, <2>7, <3>2
  <2>8. CASE b # Only("downloads")
    <3>1. Len(s) # 1 /\ Len(s) # 2 /\ ~Named(s, 3, "downloads")
      <4> DEFINE n == Len(q)
      <4>1. n \in Nat /\ Len(s) = n + 3
        BY <2>4, <2>5
      <4> HIDE DEF n
      <4> QED BY <2>8, <2>9, <4>1
    <3>2. Choice(method, s) = <<"notFound">>
      BY <3>1, ChoiceNothing
    <3>3. AfterSecret(method, u, Unescape(chars, x)) = NotFound
      BY <2>2, <2>3, <2>8
    <3> QED BY <3>2, <3>3, Agreement, Zenon
  <2> QED BY <2>7, <2>8
<1> QED BY <1>1, <1>2, RestSplit

LEMMA RequestAgrees ==
  ASSUME NEW method \in Methods, NEW wire, IsRequestPath(wire), NEW chars \in Views, Seen(chars, wire)
  PROVE  Agree(chars, wire, Tree(method, Unescape(chars, wire)), Described(method, wire))
<1> DEFINE s == UnescapedSegments(wire)
<1>1. IsRest(wire) /\ wire # <<>>
  BY LettersKnown DEF IsRequestPath, IsRest
<1>2. PICK a, x : IsPart(a) /\ IsRest(x) /\ wire = Part(a, x)
  BY <1>1, RestSplit
<1>3. /\ Unescape(chars, wire) = Part(Unescape(chars, a), Unescape(chars, x))
      /\ Seen(chars, a) /\ Seen(chars, x)
      /\ Unescape(chars, a) \in Text /\ NoSlash(Unescape(chars, a)) /\ Follows(Unescape(chars, x))
      /\ Unescape(chars, x) = <<>> <=> x = <<>>
      /\ NoEscape(Unescape(chars, wire)) => NoEscape(Unescape(chars, x))
  BY <1>2, PartViewed
<1>4. PICK r : /\ r = UnescapedSegments(x) /\ Len(r) \in Nat /\ Len(s) = Len(r) + 1 /\ DOMAIN s = 1..Len(s)
               /\ s[1] = PathUnescape(a) /\ \A k \in 1..Len(r) : s[k+1] = r[k]
  BY <1>2, SegmentsUnescaped
<1>5. Described(method, wire) = Choice(method, s)
  BY ChoiceDescribed
<1> HIDE DEF s
<1>6. /\ Unescape(chars, a) = Only("api") <=> a = Only("api")
      /\ PathUnescape(a) = <<"api">> <=> a = Only("api")
      /\ Unescape(chars, a) = Only("health") <=> a = Only("health")
      /\ PathUnescape(a) = <<"health">> <=> a = Only("health")
  BY <1>2, NameSeen
<1>9. List(s) /\ (Named(s, 1, "api") <=> a = Only("api")) /\ (Named(s, 1, "health") <=> a = Only("health"))
  BY <1>4, <1>6 DEF List, Named
<1>7. CASE x = <<>>
  <2>1. Len(s) = 1 /\ Unescape(chars, x) = <<>>
    <3>1. Len(r) = 0
      BY <1>4, <1>7, SegmentsUnescaped
    <3> QED BY <1>3, <1>4, <1>7, <3>1
  <2>2. CASE a = Only("health")
    <3>1. Tree(method, Unescape(chars, wire)) = Leaf(method, [GET |-> "healthcheck"], <<>>)
      BY <1>3, <1>6, <2>1, <2>2, TreeHealth
    <3>2. Choice(method, s) = One("healthcheck", method, <<>>)
      BY <1>9, <2>1, <2>2, ChoiceHealth
    <3>3. Agree(chars, wire, Handle("healthcheck", <<>>), Refusable("healthcheck", <<>>))
      BY Agreement, Zenon
    <3>4. Agree(chars, wire, Leaf(method, [GET |-> "healthcheck"], <<>>), One("healthcheck", method, <<>>))
      BY <3>3, GetAgrees
    <3> QED BY <1>5, <3>1, <3>2, <3>4, Zenon
  <2>3. CASE a # Only("health")
    <3>1. Tree(method, Unescape(chars, wire)) = NotFound
      BY <1>3, <1>6, <2>1, <2>3, TreeElsewhere
    <3>2. Choice(method, s) = <<"notFound">>
      BY <1>9, <2>1, <2>3, ChoiceNothing
    <3> QED BY <1>5, <3>1, <3>2, Agreement, Zenon
  <2> QED BY <2>2, <2>3
<1>8. ASSUME NEW b, NEW y, IsPart(b), IsRest(y), x = Part(b, y)
      PROVE  Agree(chars, wire, Tree(method, Unescape(chars, wire)), Described(method, wire))
  <2>1. /\ Unescape(chars, x) = Part(Unescape(chars, b), Unescape(chars, y))
        /\ Seen(chars, b) /\ Seen(chars, y)
        /\ Unescape(chars, b) \in Text /\ NoSlash(Unescape(chars, b)) /\ Follows(Unescape(chars, y))
        /\ NoEscape(Unescape(chars, x)) => NoEscape(Unescape(chars, b)) /\ NoEscape(Unescape(chars, y))
    BY <1>3, <1>8, PartViewed
  <2>2. x # <<>>
    BY <1>8, PartTyped DEF IsPart, IsRest
  <2>3. PICK q : /\ q = UnescapedSegments(y) /\ Len(q) \in Nat /\ Len(r) = Len(q) + 1
                 /\ r[1] = PathUnescape(b) /\ \A k \in 1..Len(q) : r[k+1] = q[k]
    BY <1>4, <1>8, SegmentsUnescaped
  <2>4. s[2] = PathUnescape(b) /\ Len(s) = Len(q) + 2
    <3>1. 1 \in 1..Len(r) /\ s[1+1] = r[1]
      BY <1>4, <2>3
    <3> QED BY <1>4, <2>3, <3>1
  <2>5. \A k \in 1..Len(q) : s[k+2] = q[k]
    <3> SUFFICES ASSUME NEW k \in 1..Len(q) PROVE s[k+2] = q[k]
      OBVIOUS
    <3>1. k + 1 \in 1..Len(r) /\ s[(k+1)+1] = r[k+1] /\ (k+1)+1 = k+2
      BY <1>4, <2>3
    <3> QED BY <2>3, <3>1
  <2>6. CASE a = Only("api")
    <3>1. Tree(method, Unescape(chars, wire)) = AfterSecret(method, Unescape(chars, b), Unescape(chars, y))
      BY <1>3, <1>6, <2>1, <2>6, TreeUnderApi
    <3>2. Argument(chars, wire, b)
      BY <1>3, <1>8, <2>1 DEF Argument
    <3>3. NoEscape(Unescape(chars, wire)) => NoEscape(Unescape(chars, y))
      BY <1>3, <2>1
    <3>4. Agree(chars, wire, AfterSecret(method, Unescape(chars, b), Unescape(chars, y)), Choice(method, s))
      BY <1>4, <1>8, <1>9, <2>1, <2>3, <2>4, <2>5, <2>6, <3>2, <3>3, SecretAgrees
    <3> QED BY <1>5, <3>1, <3>4
  <2>7. CASE a # Only("api")
    <3>1. Tree(method, Unescape(chars, wire)) = NotFound
      BY <1>3, <1>6, <2>2, <2>7, TreeElsewhere
    <3>2. Len(s) # 1 /\ ~Named(s, 1, "api")
      <4> DEFINE n == Len(q)
      <4>1. n \in Nat /\ Len(s) = n + 2
        BY <2>3, <2>4
      <4> HIDE DEF n
      <4> QED BY <1>9, <2>7, <4>1
    <3>3. Choice(method, s) = <<"notFound">>
      BY <1>9, <3>2, ChoiceNothing
    <3> QED BY <1>5, <3>1, <3>3, Agreement, Zenon
  <2> QED BY <2>6, <2>7
<1> QED BY <1>2, <1>7, <1>8, RestSplit

-----------------------------------------------------------------------------
(* What url.Parse makes of a path, and the arguments in it.                *)

\* chars says which form of the path the router looks at, and whether it takes the
\* arguments for escaped.
ViewedBy(chars, wire, url) ==
  /\ chars \in Views /\ Seen(chars, wire)
  /\ Elem(url) = Unescape(chars, wire)
  /\ url.RawPath # <<>> <=> chars = {"x"}
  /\ ElemIsEscaped(url) <=> chars = {"x"} /\ ~NoEscape(Unescape(chars, wire))

LEMMA EscapeContained ==
  ASSUME NEW text \in Text
  PROVE  Contains(text, "%") <=> ~NoEscape(text)
<1>1. DOMAIN text = 1..Len(text)
  BY DEF Text
<1> QED BY <1>1 DEF Contains, NoEscape, HasNo

LEMMA PathParsed ==
  ASSUME NEW wire, IsRequestPath(wire)
  PROVE  \E chars : ViewedBy(chars, wire, ParsePath(wire))
<1> DEFINE url == ParsePath(wire)
<1>1. wire \in Text /\ WellEscaped(wire) /\ wire # <<>>
  BY LettersKnown DEF IsRequestPath
<1>2. /\ url.Path = PathUnescape(wire)
      /\ url.RawPath = IF PathForm(PathUnescape(wire)) = wire THEN <<>> ELSE wire
  BY DEF ParsePath, PathForm
<1>3. Characters # {"x"} /\ Characters \in Views /\ {"x"} \in Views
  BY DEF Characters, Views
<1> HIDE DEF url
<1>4. CASE PathForm(PathUnescape(wire)) = wire
  <2>1. url.RawPath = <<>> /\ Elem(url) = Unescape(Characters, wire)
    BY <1>2, <1>4 DEF Elem, PathUnescape
  <2>2. ~ElemIsEscaped(url)
    BY <2>1 DEF ElemIsEscaped
  <2>3. ViewedBy(Characters, wire, url)
    BY <1>3, <1>4, <2>1, <2>2 DEF ViewedBy, Seen
  <2> QED BY <2>3 DEF url
<1>5. CASE PathForm(PathUnescape(wire)) # wire
  <2>1. url.RawPath = wire /\ url.RawPath # <<>>
    BY <1>1, <1>2, <1>5
  <2>2. Elem(url) = Unescape({"x"}, wire)
    BY <2>1 DEF Elem, NormalizeEscapedPath
  <2>3. Unescape({"x"}, wire) \in Text
    BY <1>1, UnescapeTyped
  <2>4. ElemIsEscaped(url) <=> ~NoEscape(Unescape({"x"}, wire))
    BY <2>1, <2>2, <2>3, EscapeContained DEF ElemIsEscaped
  <2>5. ViewedBy({"x"}, wire, url)
    BY <1>3, <2>1, <2>2, <2>4, Zenon DEF ViewedBy, Seen
  <2> QED BY <2>5 DEF url
<1> QED BY <1>4, <1>5

\* FindPath's way to read an argument.
Found(url, arg) == IF url.RawPath # <<>> /\ WellEscaped(arg) THEN PathUnescape(arg) ELSE arg

\* Both ways to read an argument unescape it once, whatever the form of the path.
LEMMA ArgumentRead ==
  ASSUME NEW chars, NEW wire, NEW url, ViewedBy(chars, wire, url), NEW a, Argument(chars, wire, a)
  PROVE  /\ decodeParam(Unescape(chars, a), ElemIsEscaped(url)) = PathUnescape(a)
         /\ Found(url, Unescape(chars, a)) = PathUnescape(a)
<1>1. CASE chars = {"x"}
  <2>1. PICK n \in Text : n = Unescape(chars, a) /\ PathUnescape(n) = PathUnescape(a) /\ WellEscaped(n)
    BY <1>1, PartSeen DEF ViewedBy, Argument
  <2>2. Found(url, n) = PathUnescape(a)
    BY <1>1, <2>1 DEF ViewedBy, Found
  <2>3. CASE ElemIsEscaped(url)
    BY <2>1, <2>2, <2>3 DEF decodeParam
  <2>4. CASE ~ElemIsEscaped(url)
    <3>1. NoEscape(n)
      BY <1>1, <2>1, <2>4 DEF ViewedBy, Argument
    <3>2. PathUnescape(n) = n
      BY <3>1, UnescapeWhole DEF PathUnescape, Text
    <3> QED BY <2>1, <2>2, <2>4, <3>2 DEF decodeParam
  <2> QED BY <2>3, <2>4
<1>2. CASE chars # {"x"}
  <2>1. ~ElemIsEscaped(url) /\ url.RawPath = <<>> /\ chars = Characters
    BY <1>2 DEF ViewedBy, Views
  <2> QED BY <2>1 DEF decodeParam, Found, PathUnescape
<1> QED BY <1>1, <1>2

-----------------------------------------------------------------------------
(* Every request.                                                          *)

LEMMA DispatchedTo ==
  ASSUME NEW method, NEW wire, NEW op \in Operations, NEW args, NEW params,
         ServeHTTP(method, ParsePath(wire)) = Handle(op, args),
         DecodeParams(op, args, ElemIsEscaped(ParsePath(wire))) = params
  PROVE  Dispatched(method, wire) = Refusable(op, params)
<1> DEFINE routed == ServeHTTP(method, ParsePath(wire))
<1>1. routed.op = op /\ routed.args = args
  BY DEF Handle
<1>2. op # "notFound" /\ op # "notAllowed"
  BY DEF Operations
<1> HIDE DEF routed
<1>3. DecodeParams(routed.op, routed.args, ElemIsEscaped(ParsePath(wire))) = params
  BY <1>1
<1> QED BY <1>1, <1>2, <1>3, Zenon DEF Dispatched, Refusable, routed

LEMMA DispatchedNowhere ==
  ASSUME NEW method, NEW wire
  PROVE  /\ ServeHTTP(method, ParsePath(wire)) = NotFound => Dispatched(method, wire) = <<"notFound">>
         /\ \A m : ServeHTTP(method, ParsePath(wire)) = NotAllowed(m) => Dispatched(method, wire) = <<"notAllowed", m>>
BY DEF Dispatched, NotFound, NotAllowed

\* FindPath finds what was described.
Finds(found, described) ==
  \/ described[1] = "refused"
  \/ found.op = "notFound" /\ described[1] \in {"notFound", "notAllowed"}
  \/ /\ found.op = described[1]
     /\ Len(found.args) >= 1 => found.args[1] = described[2].secret
     /\ Len(found.args) = 2 => found.args[2] = described[2].id

LEMMA FoundNowhere ==
  ASSUME NEW method, NEW url
  PROVE  /\ Tree(method, Elem(url)) = NotFound => FindPath(method, url) = NotFound
         /\ \A m : Tree(method, Elem(url)) = NotAllowed(m) => FindPath(method, url) = NotFound
BY DEF FindPath, NotFound, NotAllowed, Operations

LEMMA FoundAt ==
  ASSUME NEW method, NEW url, NEW op \in Operations, NEW args, Tree(method, Elem(url)) = Handle(op, args)
  PROVE  FindPath(method, url) = Handle(op, [i \in DOMAIN args |-> Found(url, args[i])])
<1> DEFINE found == Tree(method, Elem(url))
<1>1. found.op = op /\ found.args = args
  BY DEF Handle
<1> HIDE DEF found
<1> QED BY <1>1 DEF FindPath, Found, found

LEMMA FindsArguments ==
  ASSUME NEW url, NEW op, NEW params
  PROVE  /\ Finds(Handle(op, [i \in DOMAIN <<>> |-> Found(url, <<>>[i])]), Refusable(op, params))
         /\ \A u : params.secret = Found(url, u) =>
              Finds(Handle(op, [i \in DOMAIN <<u>> |-> Found(url, <<u>>[i])]), Refusable(op, params))
         /\ \A u, v : params.secret = Found(url, u) /\ params.id = Found(url, v) =>
              Finds(Handle(op, [i \in DOMAIN <<u, v>> |-> Found(url, <<u, v>>[i])]), Refusable(op, params))
<1>1. Refusable(op, params) = <<"refused">> \/ Refusable(op, params) = <<op, params>>
  BY DEF Refusable
<1>2. /\ <<"refused">>[1] = "refused" /\ <<op, params>>[1] = op /\ <<op, params>>[2] = params
  OBVIOUS
<1>3. ASSUME NEW args, Handle(op, args).args = args, Handle(op, args).op = op,
             Len(args) >= 1 => args[1] = params.secret, Len(args) = 2 => args[2] = params.id
      PROVE  Finds(Handle(op, args), Refusable(op, params))
  BY <1>1, <1>2, <1>3 DEF Finds
<1>4. \A args : Handle(op, args).args = args /\ Handle(op, args).op = op
  BY DEF Handle
<1>5. Len([i \in DOMAIN <<>> |-> Found(url, <<>>[i])]) = 0
  OBVIOUS
<1>6. \A u : LET args == [i \in DOMAIN <<u>> |-> Found(url, <<u>>[i])] IN Len(args) = 1 /\ args[1] = Found(url, u)
  OBVIOUS
<1>7. \A u, v : LET args == [i \in DOMAIN <<u, v>> |-> Found(url, <<u, v>>[i])]
                IN Len(args) = 2 /\ args[1] = Found(url, u) /\ args[2] = Found(url, v)
  OBVIOUS
<1>8. Finds(Handle(op, [i \in DOMAIN <<>> |-> Found(url, <<>>[i])]), Refusable(op, params))
  BY <1>3, <1>4, <1>5
<1>9. ASSUME NEW u, params.secret = Found(url, u)
      PROVE  Finds(Handle(op, [i \in DOMAIN <<u>> |-> Found(url, <<u>>[i])]), Refusable(op, params))
  <2> DEFINE args == [i \in DOMAIN <<u>> |-> Found(url, <<u>>[i])]
  <2>1. Len(args) = 1 /\ args[1] = params.secret
    BY <1>6, <1>9
  <2> HIDE DEF args
  <2>2. Finds(Handle(op, args), Refusable(op, params))
    BY <1>3, <1>4, <2>1
  <2> QED BY <2>2 DEF args
<1>10. ASSUME NEW u, NEW v, params.secret = Found(url, u), params.id = Found(url, v)
       PROVE  Finds(Handle(op, [i \in DOMAIN <<u, v>> |-> Found(url, <<u, v>>[i])]), Refusable(op, params))
  <2> DEFINE args == [i \in DOMAIN <<u, v>> |-> Found(url, <<u, v>>[i])]
  <2>1. Len(args) = 2 /\ args[1] = params.secret /\ args[2] = params.id
    BY <1>7, <1>10
  <2> HIDE DEF args
  <2>2. Finds(Handle(op, args), Refusable(op, params))
    BY <1>3, <1>4, <2>1
  <2> QED BY <2>2 DEF args
<1> QED BY <1>8, <1>9, <1>10

\* A request is dispatched as the API description says, and FindPath agrees.
LEMMA RequestRouted ==
  ASSUME NEW method \in Methods, NEW wire, IsRequestPath(wire)
  PROVE  /\ Dispatched(method, wire) = Described(method, wire)
         /\ Finds(FindPath(method, ParsePath(wire)), Described(method, wire))
<1> DEFINE url == ParsePath(wire)
           routed == Tree(method, Elem(url))
           described == Described(method, wire)
           Goal == Dispatched(method, wire) = described /\ Finds(FindPath(method, url), described)
<1>1. PICK chars : ViewedBy(chars, wire, url)
  BY PathParsed
<1>2. Agree(chars, wire, routed, described)
  <2>1. chars \in Views /\ Seen(chars, wire) /\ Elem(url) = Unescape(chars, wire)
    BY <1>1 DEF ViewedBy
  <2> QED BY <2>1, RequestAgrees
<1>3. ServeHTTP(method, url) = routed
  BY DEF ServeHTTP
<1> SUFFICES Goal
  OBVIOUS
<1> HIDE DEF url, described
<1>4. CASE routed = NotFound /\ described = <<"notFound">>
  <2>1. Dispatched(method, wire) = <<"notFound">> /\ FindPath(method, url) = NotFound
    BY <1>3, <1>4, DispatchedNowhere, FoundNowhere DEF url
  <2>2. Finds(NotFound, <<"notFound">>)
    BY DEF Finds, NotFound
  <2> QED BY <1>4, <2>1, <2>2, Zenon
<1>5. ASSUME NEW m, routed = NotAllowed(m), described = <<"notAllowed", m>>
      PROVE  Goal
  <2>1. Dispatched(method, wire) = <<"notAllowed", m>> /\ FindPath(method, url) = NotFound
    BY <1>3, <1>5, DispatchedNowhere, FoundNowhere DEF url
  <2>2. Finds(NotFound, <<"notAllowed", m>>)
    BY DEF Finds, NotFound
  <2> QED BY <1>5, <2>1, <2>2, Zenon
<1>6. ASSUME NEW op \in Operations, NEW args, NEW params, routed = Handle(op, args), described = Refusable(op, params),
             DecodeParams(op, args, ElemIsEscaped(url)) = params,
             Finds(Handle(op, [i \in DOMAIN args |-> Found(url, args[i])]), Refusable(op, params))
      PROVE  Goal
  <2>1. Dispatched(method, wire) = Refusable(op, params)
    BY <1>3, <1>6, DispatchedTo DEF url
  <2>2. FindPath(method, url) = Handle(op, [i \in DOMAIN args |-> Found(url, args[i])])
    BY <1>6, FoundAt
  <2> QED BY <1>6, <2>1, <2>2, Zenon
<1>7. CASE routed = Handle("healthcheck", <<>>) /\ described = Refusable("healthcheck", <<>>)
  <2>1. DecodeParams("healthcheck", <<>>, ElemIsEscaped(url)) = <<>>
    BY DEF DecodeParams
  <2>2. "healthcheck" \in Operations
    BY DEF Operations
  <2>3. Finds(Handle("healthcheck", [i \in DOMAIN <<>> |-> Found(url, <<>>[i])]), Refusable("healthcheck", <<>>))
    BY FindsArguments, Zenon
  <2> QED BY <1>6, <1>7, <2>1, <2>2, <2>3, Zenon
<1>8. ASSUME NEW op \in Single, NEW a, Argument(chars, wire, a), routed = Handle(op, <<Unescape(chars, a)>>),
             described = Refusable(op, [secret |-> PathUnescape(a)])
      PROVE  Goal
  <2> DEFINE u == Unescape(chars, a)
             params == [secret |-> PathUnescape(a)]
  <2>1. decodeParam(u, ElemIsEscaped(url)) = PathUnescape(a) /\ Found(url, u) = PathUnescape(a)
    BY <1>1, <1>8, ArgumentRead
  <2>2. op \in Operations
    BY DEF Operations, Single
  <2>3. DecodeParams(op, <<u>>, ElemIsEscaped(url)) = params
    <3>1. DecodeParams(op, <<u>>, ElemIsEscaped(url)) = [secret |-> decodeParam(<<u>>[1], ElemIsEscaped(url))]
      BY Zenon DEF DecodeParams, Single, decodeGetChannelInfoParams, decodeListDownloadsParams, decodeCreateDownloadParams
    <3>2. <<u>>[1] = u
      OBVIOUS
    <3> QED BY <2>1, <3>1, <3>2, Zenon
  <2>4. Finds(Handle(op, [i \in DOMAIN <<u>> |-> Found(url, <<u>>[i])]), Refusable(op, params))
    <3>1. params.secret = Found(url, u)
      BY <2>1
    <3> HIDE DEF params
    <3> QED BY <3>1, FindsArguments, Zenon
  <2> QED BY <1>6, <1>8, <2>2, <2>3, <2>4, Zenon
<1>9. ASSUME NEW a, NEW b, Argument(chars, wire, a), Argument(chars, wire, b),
             routed = Handle("getDownload", <<Unescape(chars, a), Unescape(chars, b)>>),
             described = Refusable("getDownload", [secret |-> PathUnescape(a), id |-> PathUnescape(b)])
      PROVE  Goal
  <2> DEFINE u == Unescape(chars, a)
             v == Unescape(chars, b)
             params == [secret |-> PathUnescape(a), id |-> PathUnescape(b)]
  <2>1. /\ decodeParam(u, ElemIsEscaped(url)) = PathUnescape(a) /\ Found(url, u) = PathUnescape(a)
        /\ decodeParam(v, ElemIsEscaped(url)) = PathUnescape(b) /\ Found(url, v) = PathUnescape(b)
    BY <1>1, <1>9, ArgumentRead
  <2>2. "getDownload" \in Operations
    BY DEF Operations
  <2>3. DecodeParams("getDownload", <<u, v>>, ElemIsEscaped(url)) = params
    <3>1. DecodeParams("getDownload", <<u, v>>, ElemIsEscaped(url))
            = [secret |-> decodeParam(<<u, v>>[1], ElemIsEscaped(url)), id |-> decodeParam(<<u, v>>[2], ElemIsEscaped(url))]
      <4>1. "getDownload" \notin {"healthcheck", "getChannelInfo", "listDownloads", "createDownload"}
        OBVIOUS
      <4> HIDE DEF u, v
      <4> QED BY <4>1 DEF DecodeParams, decodeGetDownloadParams
    <3>2. <<u, v>>[1] = u /\ <<u, v>>[2] = v
      OBVIOUS
    <3> QED BY <2>1, <3>1, <3>2, Zenon
  <2>4. Finds(Handle("getDownload", [i \in DOMAIN <<u, v>> |-> Found(url, <<u, v>>[i])]), Refusable("getDownload", params))
    <3>1. params.secret = Found(url, u) /\ params.id = Found(url, v)
      BY <2>1
    <3> HIDE DEF params
    <3> QED BY <3>1, FindsArguments, Zenon
  <2> QED BY <1>6, <1>9, <2>2, <2>3, <2>4, Zenon
<1>10. Agree(chars, wire, routed, described) => Goal
  <2> HIDE DEF routed, Goal
  <2> QED BY <1>4, <1>5, <1>7, <1>8, <1>9, Zenon DEF Agree
<1> QED BY <1>2, <1>10, Zenon

-----------------------------------------------------------------------------
(* The specification.                                                      *)

\* A message on its way is one that can be sent.
Sendable ==
  /\ message.kind = "call" => IsCall(message.op, message.params)
  /\ message.kind = "response" => IsResponse(message.op, message.response)
  /\ message.kind = "document" => message.type \in DOMAIN Schema /\ IsValue(message.value)
  /\ message.kind = "request" => IsRequestPath(message.path) /\ message.method \in {"GET", "POST", "DELETE"}

LEMMA OnlySendable == Spec => []Sendable
<1>1. Init => Sendable
  BY DEF Init, None, Sendable
<1>2. Sendable /\ [Next]_message => Sendable'
  <2> SUFFICES ASSUME Sendable, [Next]_message PROVE Sendable'
    OBVIOUS
  <2>1. CASE RequestArrives
    BY <2>1, PathsAssumption DEF RequestArrives, Sendable
  <2>2. CASE ClientCalls
    BY <2>2, CallsAssumption DEF ClientCalls, Sendable
  <2>3. CASE HandlerAnswers
    BY <2>3, ResponsesAssumption DEF HandlerAnswers, Sendable
  <2>4. CASE DocumentArrives
    BY <2>4, DocumentsAssumption DEF DocumentArrives, Sendable
  <2>5. CASE UNCHANGED message
    BY <2>5 DEF Sendable
  <2> QED BY <2>1, <2>2, <2>3, <2>4, <2>5 DEF Next
<1> QED BY <1>1, <1>2, PTL DEF Spec

\* A call of the generated client reaches its operation with the parameters it was
\* given, whatever texts they are but the empty one: of any length, with slashes and
\* percent signs, or texts that look escaped.  The page, at the location of any secret,
\* asks for the channel of the escaped secret.  (oas_client_gen.go:148-175,
\* oas_router_gen.go:36-200, oas_parameters_gen.go:33-328, App.tsx:6, client.ts:16-25)
THEOREM EveryCallArrives == Spec => []CallsReachTheirOperation
<1>1. Sendable => CallsReachTheirOperation
  <2> SUFFICES ASSUME message.kind = "call", IsCall(message.op, message.params)
               PROVE  CallsReachTheirOperation
    BY DEF Sendable, CallsReachTheirOperation
  <2>1. LET path == BuildURL(message.op, message.params)
        IN Mux(path) = "api" /\ Dispatched(Method[message.op], path) = <<message.op, message.params>>
    BY CallArrives
  <2>2. ASSUME message.op = "getChannelInfo"
        PROVE  Dispatched("GET", PageURL(AppSecret(Location(message.params.secret))))
                 = <<"getChannelInfo", [secret |-> EscapeSegment(message.params.secret)]>>
    <3>1. message.params.secret \in Texts
      BY <2>2 DEF IsCall
    <3> QED BY <3>1, PageArrives
  <2> QED BY <2>1, <2>2, Zenon DEF CallsReachTheirOperation
<1> QED BY <1>1, OnlySendable, PTL

\* The generated client gets every response the handler can return as it was
\* returned.  (oas_response_encoders_gen.go:15-207, oas_response_decoders_gen.go:16-414)
THEOREM EveryResponseComesBack == Spec => []ResponsesComeBack
<1>1. Sendable => ResponsesComeBack
  BY ResponseRoundTrip DEF Sendable, ResponsesComeBack
<1> QED BY <1>1, OnlySendable, PTL

\* Every body with one JSON value is taken for a value of its type exactly if the API
\* description allows it, enums and lists included, and the last of a field counts,
\* however many fields there are and in whatever order.
\* (oas_json_gen.go:36-838, oas_validators_gen.go:11-91)
THEOREM EveryDocumentIsUnderstood == Spec => []DocumentsAreUnderstood
<1>1. ASSUME Sendable, message.kind = "document"
      PROVE  Understood(ReadDocument(message.type, message.value), message.value, message.type)
  BY <1>1, DocumentUnderstood DEF Sendable
<1>2. Sendable => DocumentsAreUnderstood
  BY <1>1, Zenon DEF DocumentsAreUnderstood, Understood, MeetsAll, MeaningOf
<1> QED BY <1>2, OnlySendable, PTL

\* Every request with a path the server accepts, whatever is escaped in it and however
\* long it is, is dispatched as the API description says: to the operation whose
\* template its segments fit, each decoded once, or refused, not allowed or not found.
\* (oas_router_gen.go:36-200, oas_parameters_gen.go:33-328)
THEOREM EveryRequestIsRouted == Spec => []RequestsAreRouted
<1>1. Sendable => RequestsAreRouted
  BY RequestRouted DEF Sendable, RequestsAreRouted, Methods
<1> QED BY <1>1, OnlySendable, PTL

\* FindPath finds the operation and the parameters the router calls, for every such
\* request.  (oas_router_gen.go:257-435)
THEOREM FindPathFindsTheSame == Spec => []FindPathAgrees
<1>1. ASSUME Sendable, message.kind = "request"
      PROVE  Finds(FindPath(message.method, ParsePath(message.path)), Described(message.method, message.path))
  BY <1>1, RequestRouted DEF Sendable, Methods
<1>2. Sendable => FindPathAgrees
  BY <1>1, Zenon DEF FindPathAgrees, Finds
<1> QED BY <1>2, OnlySendable, PTL

=============================================================================
