----------------------------- MODULE FieldFold -----------------------------
(***************************************************************************)
(* What decoding a sequence of fields one after the other comes to, for    *)
(* any way to decode one field: the recursion of ObjBytes in module Codec, *)
(* which MessageProofs instantiates once for each kind of object.          *)
(***************************************************************************)
EXTENDS Sequences, Induction

CONSTANT DecodeField(_, _, _)

\* One more field, unless one before it failed.
Then(before, f) == IF before.ok THEN DecodeField(before.value, f[1], f[2]) ELSE [ok |-> FALSE]

\* after[n] is the result of the first n fields.
Follows(after, first, fields) ==
  after = [n \in 0..Len(fields) |-> IF n = 0 THEN first ELSE Then(after[n-1], fields[n])]

Results(first, fields) == CHOOSE after : Follows(after, first, fields)

After(first, fields) == Results(first, fields)[Len(fields)]

-----------------------------------------------------------------------------

\* The recursion has a solution.
LEMMA ResultsFollow ==
  ASSUME NEW first, NEW fields, Len(fields) \in Nat
  PROVE  Follows(Results(first, fields), first, fields)
<1> DEFINE UpTo(k, g) == g = [n \in 0..k |-> IF n = 0 THEN first ELSE Then(g[n-1], fields[n])]
           Solved == {k \in Nat : \E g : UpTo(k, g)}
<1>1. 0 \in Solved
  <2> DEFINE g == [n \in 0..0 |-> first]
  <2>1. UpTo(0, g)
    OBVIOUS
  <2> HIDE DEF UpTo, g
  <2> QED BY <2>1
<1>2. ASSUME NEW k \in Nat, k \in Solved
      PROVE  k + 1 \in Solved
  <2>1. PICK g : UpTo(k, g)
    <3> HIDE DEF UpTo
    <3> QED BY <1>2
  <2> DEFINE h == [n \in 0..k+1 |-> IF n = k + 1 THEN Then(g[k], fields[n]) ELSE g[n]]
  <2>2. ASSUME NEW n \in 0..k+1
        PROVE  h[n] = IF n = 0 THEN first ELSE Then(h[n-1], fields[n])
    <3>1. CASE n = k + 1
      BY <3>1
    <3>2. CASE n # k + 1
      <4>1. n \in 0..k
        BY <3>2
      <4>2. g[n] = IF n = 0 THEN first ELSE Then(g[n-1], fields[n])
        BY <2>1, <4>1
      <4>3. h[n] = g[n] /\ (n # 0 => h[n-1] = g[n-1])
        BY <4>1
      <4> QED BY <4>2, <4>3
    <3> QED BY <3>1, <3>2
  <2>3. UpTo(k + 1, h)
    BY <2>2
  <2> HIDE DEF UpTo, h
  <2> QED BY <2>3
<1>3. Len(fields) \in Solved
  <2> HIDE DEF Solved
  <2> QED BY <1>1, <1>2, SetInduction
<1>4. PICK g : Follows(g, first, fields)
  BY <1>3 DEF Follows
<1> QED BY <1>4 DEF Results

\* Without fields nothing changes.
THEOREM AfterNone ==
  ASSUME NEW first
  PROVE  After(first, <<>>) = first
<1>1. Len(<<>>) = 0
  OBVIOUS
<1> QED BY <1>1, ResultsFollow DEF After, Follows

\* One more field is one more step.
THEOREM AfterOneMore ==
  ASSUME NEW T, NEW fields \in Seq(T), NEW f \in T, NEW first
  PROVE  After(first, Append(fields, f)) = Then(After(first, fields), f)
<1> DEFINE more == Append(fields, f)
           a == Results(first, fields)
           b == Results(first, more)
           Same == {k \in Nat : k <= Len(fields) => a[k] = b[k]}
<1>1. /\ Len(fields) \in Nat /\ Len(more) = Len(fields) + 1
      /\ more[Len(fields) + 1] = f
      /\ \A i \in 1..Len(fields) : more[i] = fields[i]
  OBVIOUS
<1>2. Follows(a, first, fields) /\ Follows(b, first, more)
  BY <1>1, ResultsFollow
<1> HIDE DEF a, b, more
<1>3. 0 \in Same
  BY <1>1, <1>2 DEF Follows
<1>4. ASSUME NEW k \in Nat, k \in Same
      PROVE  k + 1 \in Same
  BY <1>1, <1>2, <1>4 DEF Follows
<1>5. Len(fields) \in Same
  <2> HIDE DEF Same
  <2> QED BY <1>1, <1>3, <1>4, SetInduction
<1>6. b[Len(fields) + 1] = Then(b[Len(fields)], f)
  BY <1>1, <1>2 DEF Follows
<1> QED BY <1>1, <1>5, <1>6 DEF After, a, b, more

-----------------------------------------------------------------------------
(* What any sequence of fields comes to, if each is either skipped, or     *)
(* assigned to, or refused, whatever came before it.                       *)

\* The places of a key among the first n fields.
Occurs(fields, n, key) == {i \in 1..n : fields[i][1] = key}

\* The struct s and the keys seen after the first n fields: the last value of each
\* key that occurs, and the initial one of the others.
Read(fields, n, keys, val, s0, s, seen) ==
  /\ s = [k \in keys |-> s[k]]
  /\ seen = {k \in keys : Occurs(fields, n, k) # {}}
  /\ \A k \in keys : IF Occurs(fields, n, k) = {} THEN s[k] = s0[k]
                     ELSE \E i \in Occurs(fields, n, k) : s[k] = val[i] /\ \A j \in Occurs(fields, n, k) : j <= i

State(s, seen) == [ok |-> TRUE, value |-> [s |-> s, seen |-> seen]]

\* Whatever was read before it, a field of another key is skipped; one with a value
\* that is right is assigned to, and any other is refused.
Decodes(fields, keys, right, val) ==
  \A i \in 1..Len(fields) : \A s, seen :
    s = [k \in keys |-> s[k]] =>
      DecodeField([s |-> s, seen |-> seen], fields[i][1], fields[i][2])
        = IF fields[i][1] \notin keys THEN State(s, seen)
          ELSE IF i \in right THEN State([s EXCEPT ![fields[i][1]] = val[i]], seen \union {fields[i][1]})
          ELSE [ok |-> FALSE]

\* The fields are read to the end exactly if none is refused.
Comes(fields, keys, right, val, s0) ==
  IF \A i \in 1..Len(fields) : fields[i][1] \in keys => i \in right
  THEN \E s, seen : /\ After(State(s0, {}), fields) = State(s, seen)
                   /\ Read(fields, Len(fields), keys, val, s0, s, seen)
  ELSE After(State(s0, {}), fields) = [ok |-> FALSE]

\* A field that is assigned to.
LEMMA ReadOneMore ==
  ASSUME NEW fields, NEW n \in Nat, NEW keys, NEW val, NEW s0, NEW s, NEW seen,
         Read(fields, n, keys, val, s0, s, seen), fields[n+1][1] \in keys
  PROVE  Read(fields, n + 1, keys, val, s0, [s EXCEPT ![fields[n+1][1]] = val[n+1]], seen \union {fields[n+1][1]})
<1> DEFINE key == fields[n+1][1]
           t == [s EXCEPT ![key] = val[n+1]]
<1>1. /\ Occurs(fields, n + 1, key) = Occurs(fields, n, key) \union {n+1}
      /\ \A k : k # key => Occurs(fields, n + 1, k) = Occurs(fields, n, k)
      /\ \A i \in Occurs(fields, n + 1, key) : i <= n + 1
  BY DEF Occurs
<1>2. t = [k \in keys |-> t[k]] /\ t[key] = val[n+1] /\ \A k \in keys : k # key => t[k] = s[k]
  BY DEF Read
<1> HIDE DEF t, key
<1>3. key \in keys
  BY DEF key
<1>4. ASSUME NEW k \in keys
      PROVE  IF Occurs(fields, n + 1, k) = {} THEN t[k] = s0[k]
             ELSE \E i \in Occurs(fields, n + 1, k) : t[k] = val[i] /\ \A j \in Occurs(fields, n + 1, k) : j <= i
  <2>1. CASE k = key
    BY <1>1, <1>2, <2>1
  <2>2. CASE k # key
    BY <1>1, <1>2, <2>2 DEF Read
  <2> QED BY <2>1, <2>2
<1>5. seen \union {key} = {k \in keys : Occurs(fields, n + 1, k) # {}}
  BY <1>1, <1>3 DEF Read
<1> QED BY <1>2, <1>4, <1>5 DEF Read, t, key

\* A field that is skipped.
LEMMA ReadOther ==
  ASSUME NEW fields, NEW n \in Nat, NEW keys, NEW val, NEW s0, NEW s, NEW seen,
         Read(fields, n, keys, val, s0, s, seen), fields[n+1][1] \notin keys
  PROVE  Read(fields, n + 1, keys, val, s0, s, seen)
<1>1. \A k \in keys : Occurs(fields, n + 1, k) = Occurs(fields, n, k)
  BY DEF Occurs
<1> QED BY <1>1 DEF Read

\* So it is, whatever the keys and their order.
THEOREM FieldsRead ==
  ASSUME NEW fields, Len(fields) \in Nat, NEW keys, NEW right, NEW val, NEW s0,
         s0 = [k \in keys |-> s0[k]], Decodes(fields, keys, right, val)
  PROVE  Comes(fields, keys, right, val, s0)
<1> DEFINE a == Results(State(s0, {}), fields)
           Fine(n) == \A i \in 1..n : fields[i][1] \in keys => i \in right
           Step(n) == IF Fine(n) THEN \E s, seen : a[n] = State(s, seen) /\ Read(fields, n, keys, val, s0, s, seen)
                      ELSE a[n] = [ok |-> FALSE]
           Known == {n \in Nat : n <= Len(fields) => Step(n)}
<1>1. /\ a[0] = State(s0, {})
      /\ \A n \in Nat : n < Len(fields) => a[n+1] = Then(a[n], fields[n+1])
  <2>1. Follows(a, State(s0, {}), fields)
    BY ResultsFollow
  <2> HIDE DEF a
  <2>2. \A n \in 0..Len(fields) : a[n] = IF n = 0 THEN State(s0, {}) ELSE Then(a[n-1], fields[n])
    BY <2>1 DEF Follows
  <2>3. ASSUME NEW n \in Nat, n < Len(fields)
        PROVE  a[n+1] = Then(a[n], fields[n+1])
    <3>1. n + 1 \in 0..Len(fields) /\ n + 1 # 0 /\ (n + 1) - 1 = n
      BY <2>3
    <3> QED BY <2>2, <3>1
  <2>4. 0 \in 0..Len(fields)
    OBVIOUS
  <2> QED BY <2>2, <2>3, <2>4
<1> HIDE DEF a
<1>2. 0 \in Known
  <2>1. Read(fields, 0, keys, val, s0, s0, {})
    BY DEF Read, Occurs
  <2> QED BY <1>1, <2>1
<1>3. ASSUME NEW n \in Nat, n \in Known
      PROVE  n + 1 \in Known
  <2> SUFFICES ASSUME n < Len(fields) PROVE Step(n+1)
    OBVIOUS
  <2> DEFINE f == fields[n+1]
  <2>1. Step(n) /\ a[n+1] = Then(a[n], f) /\ n + 1 \in 1..Len(fields)
    BY <1>1, <1>3
  <2>2. Fine(n+1) <=> Fine(n) /\ (f[1] \in keys => n + 1 \in right)
    OBVIOUS
  <2>3. CASE ~Fine(n)
    BY <2>1, <2>2, <2>3 DEF Then
  <2>4. CASE Fine(n)
    <3>1. PICK s, seen : a[n] = State(s, seen) /\ Read(fields, n, keys, val, s0, s, seen)
      BY <2>1, <2>4
    <3>2. s = [k \in keys |-> s[k]]
      BY <3>1 DEF Read
    <3>3. a[n+1] = DecodeField([s |-> s, seen |-> seen], f[1], f[2])
      BY <2>1, <3>1 DEF Then, State
    <3>4. a[n+1] = IF f[1] \notin keys THEN State(s, seen)
                   ELSE IF n + 1 \in right THEN State([s EXCEPT ![f[1]] = val[n+1]], seen \union {f[1]})
                   ELSE [ok |-> FALSE]
      <4>1. n + 1 \in 1..Len(fields)
        BY <2>1
      <4> QED BY <3>2, <3>3, <4>1, Zenon DEF Decodes
    <3>5. CASE f[1] \notin keys
      BY <2>2, <2>4, <3>1, <3>4, <3>5, ReadOther
    <3>6. CASE f[1] \in keys /\ n + 1 \in right
      <4>1. Read(fields, n + 1, keys, val, s0, [s EXCEPT ![f[1]] = val[n+1]], seen \union {f[1]})
        BY <3>1, <3>6, ReadOneMore
      <4> QED BY <2>2, <2>4, <3>4, <3>6, <4>1
    <3>7. CASE f[1] \in keys /\ n + 1 \notin right
      BY <2>2, <3>4, <3>7
    <3> QED BY <3>5, <3>6, <3>7
  <2> QED BY <2>3, <2>4
<1>4. Step(Len(fields))
  <2>1. Len(fields) \in Known
    <3> HIDE DEF Known
    <3> QED BY <1>2, <1>3, SetInduction
  <2> HIDE DEF Step
  <2> QED BY <2>1
<1> QED BY <1>4 DEF Comes, After, a

=============================================================================
