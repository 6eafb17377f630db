----------------------------- MODULE WireProofs -----------------------------
(***************************************************************************)
(* What the byte formats and the keys in them tell.  First: a decoder that *)
(* accepts bytes returns a value that is written to exactly these bytes,   *)
(* for frames, envelopes, executables and keys of any size.  A reader is   *)
(* followed through its bytes: every read that succeeds moves it past the  *)
(* very bytes that the value it returns is written to (Took), the reads of *)
(* a loop cover a stretch of bytes part by part (Covers), and a decoder    *)
(* accepts only at the end.  Loops are folds: FoldFacts says what they     *)
(* compute.  Then: what CompilationCompatibility::decide() may let pass,   *)
(* for any two keys, and what equal keys say of the requests.              *)
(***************************************************************************)
EXTENDS ByteChannel, CompilationKey, SequenceTheorems, FiniteSetTheorems, TLAPS

\* One digit more.
WithDigit(c, acc, b) == acc * Base + b
Number == INSTANCE FoldFacts WITH Op <- WithDigit, Mx <- Max

\* The recursion that defines the places of digits has a solution, so Place follows it.
LEMMA PlaceDef == \A n \in Nat : Place[n] = IF n = 0 THEN 1 ELSE Place[n - 1] * Base
  <1>1. Place = CHOOSE f : Number!IsPowers(Base, f)
    BY DEF Place, PowersOf, Number!IsPowers
  <1>2. Number!IsPowers(Base, Place)
    BY <1>1, Number!PowersExist, Zenon
  <1> QED
    BY <1>2 DEF Number!IsPowers

\* Every place counts at least one.
LEMMA PlaceIs == Base \in Nat /\ Base > 3 => \A n \in Nat : Place[n] \in Nat /\ Place[n] > 0
  <1> SUFFICES ASSUME Base \in Nat, Base > 3 PROVE \A n \in Nat : Place[n] \in Nat /\ Place[n] > 0
    OBVIOUS
  <1> DEFINE Q == {n \in Nat : Place[n] \in Nat /\ Place[n] > 0}
  <1>1. 0 \in Q
    BY PlaceDef
  <1>2. ASSUME NEW n \in Nat, n \in Q PROVE n + 1 \in Q
    <2>1. Place[n + 1] = Place[n] * Base
      BY PlaceDef
    <2>2. \A p \in Nat : p > 0 => p * Base \in Nat /\ p * Base > 0
      OBVIOUS
    <2> QED
      BY <1>2, <2>1, <2>2
  <1>3. Nat \subseteq Q
    <2> HIDE DEF Q
    <2> QED
      BY <1>1, <1>2, Number!SetInduction
  <1> QED
    BY <1>3

\* The number that digits make.
NumberOf(s) == FoldLeft(LAMBDA acc, b : acc * Base + b, 0, s)

\* Get() takes the digits of a number from the left, one at a time.
LEMMA NumberTrace ==
    ASSUME NEW s, NEW n \in Nat, DOMAIN s = 1 .. n
    PROVE  \E st : /\ st[0] = 0
                   /\ \A i \in 1 .. n : st[i] = st[i - 1] * Base + s[i]
                   /\ NumberOf(s) = st[n]
  <1> DEFINE g == CHOOSE g : Number!IsTable(0, 0, s, n, g)
  <1>0. Number!MxIsMax
     BY Zenon DEF Number!MxIsMax, Max
  <1>1. NumberOf(s) = g[DOMAIN s]
     BY DEF NumberOf, FoldLeft, MapThenFoldSet, Number!IsTable, Number!Table, WithDigit
  <1>2. \E h : Number!IsTable(0, 0, s, n, h)
     BY <1>0, Number!TableExists
  <1>3. Number!IsTable(0, 0, s, n, g)
     BY <1>2
  <1> HIDE DEF g
  <1>4. Number!Trace(0, 0, s, n, g[1 .. n])
    BY <1>0, <1>3, Number!TableTrace
  <1> QED
    BY <1>1, <1>4 DEF Number!Trace, WithDigit

\* The most significant byte first: as many bytes as places, and every byte is a digit
\* of the number they make.
LEMMA NumberOfBytes ==
    ASSUME NEW s, NEW n \in Nat, s \in [1 .. n -> Byte]
    PROVE  /\ NumberOf(s) \in Nat /\ NumberOf(s) < Place[n]
           /\ \A i \in 1 .. n : (NumberOf(s) \div Place[n - i]) % Base = s[i]
  <1>0. Base \in Nat /\ Base > 3 /\ \A k \in Nat : Place[k] \in Nat /\ Place[k] > 0
    BY CanonicalAssumption, PlaceIs
  <1>1. PICK st : /\ st[0] = 0
                  /\ \A i \in 1 .. n : st[i] = st[i - 1] * Base + s[i]
                  /\ NumberOf(s) = st[n]
    BY NumberTrace
  <1>2. \A i \in 1 .. n : s[i] \in Nat /\ s[i] < Base
    BY <1>0 DEF Byte
  <1>3. \A i \in 0 .. n : st[i] \in Nat
    <2> DEFINE S == {i \in Nat : i <= n => st[i] \in Nat}
    <2>1. 0 \in S
      BY <1>1
    <2>2. ASSUME NEW i \in Nat, i \in S PROVE i + 1 \in S
      <3> SUFFICES ASSUME i + 1 <= n PROVE st[i + 1] \in Nat
        OBVIOUS
      <3>1. i + 1 \in 1 .. n /\ st[i] \in Nat
        BY <2>2
      <3>2. st[i + 1] = st[i] * Base + s[i + 1]
        BY <1>1, <3>1
      <3> QED
        BY <1>0, <1>2, <3>1, <3>2
    <2>3. Nat \subseteq S
      <3> HIDE DEF S
      <3> QED
        BY <2>1, <2>2, Number!SetInduction
    <2> QED
      BY <2>3
  <1>4. ASSUME NEW i \in 0 .. n
        PROVE  \A j \in 0 .. n - i :
                  \E rest \in Nat : rest < Place[j] /\ st[i + j] = st[i] * Place[j] + rest
    <2> DEFINE S == {j \in Nat : j <= n - i =>
                       \E rest \in Nat : rest < Place[j] /\ st[i + j] = st[i] * Place[j] + rest}
    <2>1. 0 \in S
      <3>1. Place[0] = 1 /\ st[i + 0] = st[i] * 1 + 0 /\ 0 < 1
        BY PlaceDef, <1>3
      <3> QED
        BY <3>1
    <2>2. ASSUME NEW j \in Nat, j \in S PROVE j + 1 \in S
      <3> SUFFICES ASSUME j + 1 <= n - i
                   PROVE  \E rest \in Nat : /\ rest < Place[j + 1]
                                            /\ st[i + (j + 1)] = st[i] * Place[j + 1] + rest
        OBVIOUS
      <3>1. PICK rest \in Nat : rest < Place[j] /\ st[i + j] = st[i] * Place[j] + rest
        BY <2>2
      <3>2. i + (j + 1) \in 1 .. n /\ (i + (j + 1)) - 1 = i + j
        OBVIOUS
      <3>3. st[i + (j + 1)] = st[i + j] * Base + s[i + (j + 1)]
        BY <1>1, <3>2
      <3>4. Place[j + 1] = Place[j] * Base
        BY PlaceDef
      <3>5. PICK d \in Nat : d = s[i + (j + 1)] /\ d < Base
        BY <1>2, <3>2
      <3>6. \A a, p, r \in Nat : (a * p + r) * Base + d = a * (p * Base) + (r * Base + d)
        BY <1>0
      <3>7. \A p, r \in Nat : r < p => r * Base + d \in Nat /\ r * Base + d < p * Base
        <4> SUFFICES ASSUME NEW p \in Nat, NEW r \in Nat, r < p
                     PROVE  r * Base + d \in Nat /\ r * Base + d < p * Base
          OBVIOUS
        <4>1. (r + 1) * Base <= p * Base
          BY <1>0
        <4>2. (r + 1) * Base = r * Base + Base /\ r * Base \in Nat /\ p * Base \in Nat
          BY <1>0
        <4> QED
          BY <1>0, <3>5, <4>1, <4>2
      <3>8. st[i] \in Nat /\ Place[j] \in Nat
        BY <1>0, <1>3
      <3>9. st[i + (j + 1)] = st[i] * Place[j + 1] + (rest * Base + d)
        <4>1. PICK a \in Nat, p \in Nat : a = st[i] /\ p = Place[j]
          BY <3>8
        <4>2. (a * p + rest) * Base + d = a * (p * Base) + (rest * Base + d)
          BY <3>6
        <4>3. st[i + (j + 1)] = (a * p + rest) * Base + d
          BY <3>1, <3>3, <3>5, <4>1
        <4> QED
          BY <3>4, <4>1, <4>2, <4>3
      <3>10. rest * Base + d \in Nat /\ rest * Base + d < Place[j + 1]
        BY <3>1, <3>4, <3>7, <3>8
      <3> QED
        BY <3>9, <3>10
    <2>3. Nat \subseteq S
      <3> HIDE DEF S
      <3> QED
        BY <2>1, <2>2, Number!SetInduction
    <2> QED
      BY <2>3
  <1>5. NumberOf(s) \in Nat /\ NumberOf(s) < Place[n]
    <2>1. PICK rest \in Nat : rest < Place[n] /\ st[0 + n] = st[0] * Place[n] + rest
      BY <1>4
    <2>2. st[0] * Place[n] = 0
      BY <1>0, <1>1
    <2> QED
      BY <1>1, <2>1, <2>2
  <1>6. ASSUME NEW i \in 1 .. n PROVE (NumberOf(s) \div Place[n - i]) % Base = s[i]
    <2>1. PICK rest \in Nat : rest < Place[n - i] /\ st[i + (n - i)] = st[i] * Place[n - i] + rest
      BY <1>4
    <2>2. i + (n - i) = n /\ st[i] \in Nat /\ Place[n - i] \in Nat
      BY <1>0, <1>3
    <2>3. NumberOf(s) \div Place[n - i] = st[i]
      BY <1>1, <2>1, <2>2, Number!Division
    <2>4. st[i] = st[i - 1] * Base + s[i] /\ st[i - 1] \in Nat /\ s[i] \in Nat /\ s[i] < Base
      BY <1>1, <1>2, <1>3
    <2>5. st[i] % Base = s[i]
      <3>1. PICK q \in Nat, d \in Nat : q = st[i - 1] /\ d = s[i]
        BY <2>4
      <3>2. st[i] = q * Base + d /\ d < Base
        BY <2>4, <3>1
      <3>3. st[i] % Base = d
        BY <1>0, <3>2, Number!Division
      <3> QED
        BY <3>1, <3>3
    <2> QED
      BY <2>3, <2>5
  <1> QED
    BY <1>5, <1>6

\* FlattenSeq, with its recursion named.
Join(a, b) == a \o b
IsFlat(p, n, f) == f = [i \in 1 .. n |-> IF i = 1 THEN p[i] ELSE Join(f[i - 1], p[i])]

\* f has the parts of p up to each position; two sequences of parts agree.
Flattens(p, n, f) ==
  /\ n > 0 => f[1] = p[1]
  /\ \A i \in Nat : i > 0 /\ i + 1 <= n => f[i + 1] = Join(f[i], p[i + 1])
Agree(p, q, n) == \A i \in 1 .. n : p[i] = q[i]

\* What a solution of FlattenSeq's recursion does, part by part.
LEMMA FlatSteps ==
    ASSUME NEW p, NEW n \in Nat, NEW f, IsFlat(p, n, f)
    PROVE  Flattens(p, n, f)
  <1>1. n > 0 => f[1] = p[1]
    BY DEF IsFlat
  <1>2. ASSUME NEW i \in Nat, i > 0, i + 1 <= n PROVE f[i + 1] = Join(f[i], p[i + 1])
    <2>1. i + 1 \in 1 .. n /\ i + 1 # 1 /\ (i + 1) - 1 = i
      BY <1>2
    <2>2. f[i + 1] = Join(f[(i + 1) - 1], p[i + 1])
      BY <2>1 DEF IsFlat
    <2> QED
      BY <2>1, <2>2
  <1> QED
    BY <1>1, <1>2 DEF Flattens

\* That recursion has a solution.
LEMMA FlatExists == ASSUME NEW p PROVE \A n \in Nat : \E f : IsFlat(p, n, f)
  <1> DEFINE S == {n \in Nat : \E f : IsFlat(p, n, f)}
  <1>1. 0 \in S
    <2>1. IsFlat(p, 0, [i \in 1 .. 0 |-> p[i]])
      BY DEF IsFlat
    <2> QED
      BY <2>1
  <1>2. ASSUME NEW n \in Nat, n \in S PROVE n + 1 \in S
    <2>1. PICK f : IsFlat(p, n, f)
      BY <1>2
    <2> DEFINE h == [i \in 1 .. n + 1 |-> IF i = 1 THEN p[i] ELSE Join(f[i - 1], p[i])]
    <2>2. \A i \in 1 .. n : h[i] = f[i]
      BY <2>1 DEF IsFlat
    <2> DEFINE e == [i \in 1 .. n + 1 |-> IF i = 1 THEN p[i] ELSE Join(h[i - 1], p[i])]
    <2>3. \A i \in 1 .. n + 1 : h[i] = e[i]
      <3> SUFFICES ASSUME NEW i \in 1 .. n + 1 PROVE h[i] = e[i]
        OBVIOUS
      <3>1. i # 1 => i - 1 \in 1 .. n
        OBVIOUS
      <3>2. i # 1 => h[i - 1] = f[i - 1]
        <4> HIDE DEF h, e
        <4> QED
          BY <2>2, <3>1
      <3> QED
        BY <3>2
    <2>4. /\ DOMAIN h = 1 .. n + 1 /\ h = [i \in DOMAIN h |-> h[i]]
          /\ DOMAIN e = 1 .. n + 1 /\ e = [i \in DOMAIN e |-> e[i]]
      OBVIOUS
    <2>5. h = e
      <3> HIDE DEF h, e
      <3> QED
        BY <2>3, <2>4
    <2>6. IsFlat(p, n + 1, h)
      <3> HIDE DEF h
      <3> QED
        BY <2>5 DEF IsFlat
    <2> HIDE DEF h
    <2> QED
      BY <2>6
  <1>3. Nat \subseteq S
    <2> HIDE DEF S
    <2> QED
      BY <1>1, <1>2, Number!SetInduction
  <1> QED
    BY <1>3

\* Its entries depend only on the parts up to them.
LEMMA FlatUnique ==
    ASSUME NEW p, NEW q, NEW n \in Nat, NEW m \in Nat, n <= m, NEW f, NEW g, IsFlat(p, n, f), IsFlat(q, m, g),
           Agree(p, q, n)
    PROVE Agree(f, g, n)
  <1> DEFINE S == {i \in Nat : i \in 1 .. n => f[i] = g[i]}
  <1>1. 0 \in S
    OBVIOUS
  <1>0. /\ n > 0 => f[1] = p[1]
        /\ \A i \in Nat : i > 0 /\ i + 1 <= n => f[i + 1] = Join(f[i], p[i + 1])
        /\ m > 0 => g[1] = q[1]
        /\ \A i \in Nat : i > 0 /\ i + 1 <= m => g[i + 1] = Join(g[i], q[i + 1])
    BY FlatSteps DEF Flattens
  <1>2. ASSUME NEW i \in Nat, i \in S PROVE i + 1 \in S
    <2> SUFFICES ASSUME i + 1 <= n PROVE f[i + 1] = g[i + 1]
      OBVIOUS
    <2>1. CASE i = 0
      BY <1>0, <2>1 DEF Agree
    <2>2. CASE i > 0
      <3>1. f[i] = g[i] /\ p[i + 1] = q[i + 1]
        BY <1>2, <2>2 DEF Agree
      <3>2. f[i + 1] = Join(f[i], p[i + 1]) /\ g[i + 1] = Join(g[i], q[i + 1])
        BY <1>0, <2>2
      <3> QED
        BY <3>1, <3>2
    <2> QED
      BY <2>1, <2>2
  <1>3. Nat \subseteq S
    <2> HIDE DEF S
    <2> QED
      BY <1>1, <1>2, Number!SetInduction
  <1> QED
    BY <1>3 DEF Agree

\* Concat() is the last entry of such a solution.
LEMMA ConcatFlat ==
    ASSUME NEW p, NEW n \in Nat, Len(p) = n, n > 0
    PROVE \E f : IsFlat(p, n, f) /\ Concat(p) = f[n]
  <1> DEFINE c == CHOOSE f : IsFlat(p, n, f)
  <1>1. Concat(p) = c[n]
    BY DEF Concat, FlattenSeq, IsFlat, Join
  <1>2. IsFlat(p, n, c)
    BY FlatExists
  <1> HIDE DEF c
  <1> QED
    BY <1>1, <1>2

\* Nothing, concatenated.
LEMMA ConcatEmpty == Concat(<<>>) = <<>>
  BY DEF Concat, FlattenSeq

\* Parts made of bytes make bytes.
LEMMA ConcatType ==
    ASSUME NEW S, NEW p \in Seq(Seq(S)) PROVE Concat(p) \in Seq(S)
  <1>0. Len(p) \in Nat /\ \A i \in 1 .. Len(p) : p[i] \in Seq(S)
    OBVIOUS
  <1>1. CASE Len(p) = 0
    <2>1. p = <<>>
      BY <1>1
    <2>2. <<>> \in Seq(S)
      BY EmptySeq
    <2> QED
      BY <2>1, <2>2, ConcatEmpty
  <1>2. CASE Len(p) > 0
    <2>1. PICK n \in Nat : n = Len(p)
      BY <1>0
    <2>2. PICK f : IsFlat(p, n, f) /\ Concat(p) = f[n]
      BY <1>2, <2>1, ConcatFlat
    <2>3. /\ f[1] = p[1]
          /\ \A i \in Nat : i > 0 /\ i + 1 <= n => f[i + 1] = Join(f[i], p[i + 1])
      <3>1. Flattens(p, n, f)
        BY <2>2, FlatSteps
      <3> QED
        BY <1>2, <2>1, <3>1 DEF Flattens
    <2> DEFINE T == {i \in Nat : i \in 1 .. n => f[i] \in Seq(S)}
    <2>4. 0 \in T
      OBVIOUS
    <2>5. ASSUME NEW i \in Nat, i \in T PROVE i + 1 \in T
      <3> SUFFICES ASSUME i + 1 <= n PROVE f[i + 1] \in Seq(S)
        OBVIOUS
      <3>1. CASE i = 0
        BY <1>0, <2>1, <2>3, <3>1
      <3>2. CASE i > 0
        <4>1. f[i] \in Seq(S) /\ p[i + 1] \in Seq(S)
          BY <1>0, <2>1, <2>5, <3>2
        <4>2. f[i + 1] = Join(f[i], p[i + 1])
          BY <2>3, <3>2
        <4> QED
          BY <4>1, <4>2, ConcatProperties DEF Join
      <3> QED
        BY <3>1, <3>2
    <2>6. Nat \subseteq T
      <3> HIDE DEF T
      <3> QED
        BY <2>4, <2>5, Number!SetInduction
    <2> QED
      BY <1>2, <2>1, <2>2, <2>6
  <1> QED
    BY <1>0, <1>1, <1>2

\* One part more is written after the others.
LEMMA ConcatAppend ==
    ASSUME NEW S, NEW p \in Seq(Seq(S)), NEW x \in Seq(S)
    PROVE Concat(Append(p, x)) = Concat(p) \o x
  <1>5. PICK n \in Nat : n = Len(p)
    OBVIOUS
  <1>6. PICK q : q = Append(p, x)
    OBVIOUS
  <1>0. Len(q) = n + 1 /\ q[n + 1] = x /\ Agree(p, q, n)
    BY <1>5, <1>6, AppendProperties DEF Agree
  <1>2. PICK g : IsFlat(q, n + 1, g) /\ Concat(q) = g[n + 1]
    <2>1. n + 1 \in Nat /\ n + 1 > 0
      OBVIOUS
    <2> QED
      BY <1>0, <2>1, ConcatFlat
  <1>3. /\ g[1] = q[1]
        /\ \A i \in Nat : i > 0 /\ i + 1 <= n + 1 => g[i + 1] = Join(g[i], q[i + 1])
    <2>1. Flattens(q, n + 1, g)
      BY <1>2, FlatSteps
    <2> QED
      BY <2>1 DEF Flattens
  <1>1. CASE n = 0
    <2>1. p = <<>>
      BY <1>5, <1>1, EmptySeq
    <2>2. Concat(q) = x
      BY <1>0, <1>1, <1>2, <1>3
    <2>3. <<>> \o x = x
      BY ConcatEmptySeq
    <2> QED
      BY <1>6, <2>1, <2>2, <2>3, ConcatEmpty
  <1>4. CASE n > 0
    <2>1. PICK f : IsFlat(p, n, f) /\ Concat(p) = f[n]
      BY <1>5, <1>4, ConcatFlat
    <2>2. f[n] = g[n]
      <3>1. n + 1 \in Nat /\ n <= n + 1 /\ n \in 1 .. n
        BY <1>4
      <3>2. Agree(f, g, n)
        BY <1>0, <1>2, <2>1, <3>1, FlatUnique
      <3> QED
        BY <3>1, <3>2 DEF Agree
    <2>3. g[n + 1] = Join(g[n], q[n + 1])
      BY <1>3, <1>4
    <2> QED
      BY <1>0, <1>6, <1>2, <2>1, <2>2, <2>3 DEF Join
  <1> QED
    BY <1>1, <1>4

\* What a reader has read: numbers, strings, and the fields of a key.
Item == Nat \cup Seq(Nat) \cup (Nat \X Seq(Nat))
Readers == [data : Seq(Byte), pos : Nat, status : {"ok", "rejected", "thrown"}, got : Seq(Item)]
Within(r) == r \in Readers /\ r.pos <= Len(r.data) /\ Len(r.data) < SizeT

\* The bytes from position a up to position b.
Cut(d, a, b) == SubSeq(d, a + 1, b)

\* q is r after exactly these bytes; and with the value they stand for.
Moved(r, q, part) ==
    /\ Within(q) /\ r.status = "ok" /\ q.status = "ok" /\ q.data = r.data /\ r.pos <= q.pos
    /\ part \in Seq(Byte) /\ Cut(r.data, r.pos, q.pos) = part
Took(r, q, v, part) == Moved(r, q, part) /\ v \in Item /\ q.got = Append(r.got, v)

\* The numbers of the formats.
NumberKinds == {"u8", "u32", "u64", "u128"}

\* Every kind of number has a width.
LEMMA Widths == \A kind \in NumberKinds : Width[kind] \in Nat /\ Width[kind] > 0
  BY DEF NumberKinds, Width

\* A size_t counts up to the first place that a u64 does not have.
LEMMA SizeTIs == SizeT \in Nat /\ SizeT = Place[3] /\ Width["u64"] = 3
  <1>1. Width["u64"] = 3 /\ Width.u64 = 3
    BY DEF Width
  <1> QED
    BY <1>1, PlaceIs, CanonicalAssumption DEF SizeT

\* Below the modulus nothing wraps.
LEMMA ModSmall == ASSUME NEW a \in Nat, NEW b \in Nat, a < b PROVE a % b = a
  <1>1. a = 0 * b + a
    OBVIOUS
  <1> QED
    BY <1>1, Number!Division

\* Put() writes the number that was read to the bytes it was read from.
LEMMA PutOfNumber ==
    ASSUME NEW kind \in NumberKinds, NEW s \in [1 .. Width[kind] -> Byte]
    PROVE  NumberOf(s) \in Nat /\ NumberOf(s) < Place[Width[kind]] /\ Put(kind, NumberOf(s)) = s
  <1>1. PICK n \in Nat : n = Width[kind]
    BY Widths
  <1>2. /\ NumberOf(s) \in Nat /\ NumberOf(s) < Place[n]
        /\ \A i \in 1 .. n : (NumberOf(s) \div Place[n - i]) % Base = s[i]
    BY <1>1, NumberOfBytes
  <1>3. PICK v \in Nat : v = NumberOf(s)
    BY <1>2
  <1>4. Put(kind, v) = [i \in 1 .. n |-> (v \div Place[n - i]) % Base]
    BY <1>1 DEF Put
  <1>5. [i \in 1 .. n |-> (v \div Place[n - i]) % Base] = s
    <2>1. s = [i \in 1 .. n |-> s[i]]
      BY <1>1
    <2> QED
      BY <1>2, <1>3, <2>1
  <1> QED
    BY <1>1, <1>2, <1>3, <1>4, <1>5

\* What Step() does to each field of the reader.
LEMMA StepFields ==
    ASSUME NEW r \in Readers, NEW n, NEW v, (r.pos + n) % SizeT \in Nat, v \in Item
    PROVE  /\ Step(r, n, v) \in Readers
           /\ Step(r, n, v).data = r.data /\ Step(r, n, v).status = r.status
           /\ Step(r, n, v).pos = (r.pos + n) % SizeT /\ Step(r, n, v).got = Append(r.got, v)
  <1>1. PICK p \in Nat : p = (r.pos + n) % SizeT
    OBVIOUS
  <1>2. PICK g \in Seq(Item) : g = Append(r.got, v)
    BY AppendProperties DEF Readers
  <1>3. Step(r, n, v) = [r EXCEPT !.pos = p, !.got = g]
    BY <1>1, <1>2 DEF Step
  <1>4. PICK q : q = [r EXCEPT !.pos = p, !.got = g]
    OBVIOUS
  <1>5. q \in Readers /\ q.data = r.data /\ q.status = r.status /\ q.pos = p /\ q.got = g
    BY <1>4 DEF Readers
  <1> QED
    BY <1>1, <1>2, <1>3, <1>4, <1>5

\* A cut is a sequence as long as the distance.
LEMMA CutIn ==
    ASSUME NEW S, NEW d \in Seq(S), NEW a \in Nat, NEW b \in Nat, a <= b, b <= Len(d)
    PROVE  Cut(d, a, b) \in Seq(S) /\ Len(Cut(d, a, b)) = b - a
  <1>1. \A i \in a + 1 .. b : d[i] \in S
    OBVIOUS
  <1>2. a + 1 \in Int /\ b \in Int /\ b - (a + 1) + 1 = b - a /\ (~(a + 1 <= b) => b - a = 0)
    OBVIOUS
  <1>3. SubSeq(d, a + 1, b) \in Seq(S) /\ Len(SubSeq(d, a + 1, b)) = IF a + 1 <= b THEN b - (a + 1) + 1 ELSE 0
    BY <1>1, <1>2, SubSeqProperties
  <1> QED
    BY <1>2, <1>3 DEF Cut

\* Two cuts that meet are one.
LEMMA CutJoin ==
    ASSUME NEW S, NEW d \in Seq(S), NEW a \in Nat, NEW b \in Nat, NEW c \in Nat, a <= b, b <= c, c <= Len(d)
    PROVE  Cut(d, a, b) \o Cut(d, b, c) = Cut(d, a, c)
  <1>1. a + 1 \in 1 .. Len(d) + 1 /\ b \in (a + 1) - 1 .. Len(d) /\ c \in b .. Len(d)
    OBVIOUS
  <1> QED
    BY <1>1, ConcatAdjacentSubSeq DEF Cut

\* The whole is cut from the beginning to the end.
LEMMA CutFull ==
    ASSUME NEW S, NEW d \in Seq(S) PROVE Cut(d, 0, Len(d)) = d /\ Cut(d, 0, 0) = <<>>
  BY SubSeqFull, SubSeqEmpty DEF Cut

\* Reader::u8() to u64(): a number, and the reader is past exactly the bytes it is written to.
LEMMA GetTakes ==
    ASSUME NEW r, Within(r), NEW kind \in NumberKinds, Get(r, kind).status = "ok"
    PROVE  \E v \in Nat : v < Place[Width[kind]] /\ Took(r, Get(r, kind), v, Put(kind, v))
  <1>0. r \in Readers
    BY DEF Within
  <1>1. PICK w \in Nat : w = Width[kind] /\ w > 0
    BY Widths
  <1>2. r.status = "ok"
    BY DEF Get
  <1>3. r.pos + w <= Len(r.data)
    <2> SUFFICES ASSUME r.pos + w > Len(r.data) PROVE FALSE
      BY <1>0, <1>1 DEF Readers
    <2>1. Get(r, kind) = Rejected(r)
      BY <1>1, <1>2 DEF Get
    <2>2. Rejected(r).status = "rejected"
      BY <1>0 DEF Rejected, Readers
    <2> QED
      BY <2>1, <2>2
  <1>4. PICK s : s = Cut(r.data, r.pos, r.pos + w)
    OBVIOUS
  <1>5. View(r, w) = s
    BY <1>0, <1>3, <1>4 DEF View, Remaining, Readers, Cut
  <1>6. s \in Seq(Byte) /\ s \in [1 .. w -> Byte]
    <2>1. r.data \in Seq(Byte) /\ r.pos \in Nat /\ r.pos + w \in Nat /\ r.pos <= r.pos + w
      BY <1>0 DEF Readers
    <2>2. s \in Seq(Byte) /\ Len(s) = (r.pos + w) - r.pos
      BY <1>3, <1>4, <2>1, CutIn
    <2>3. Len(s) = w
      BY <2>1, <2>2
    <2> QED
      BY <2>2, <2>3, LenProperties
  <1>7. PICK v \in Nat : v = NumberOf(s) /\ v < Place[Width[kind]] /\ Put(kind, v) = s
    BY <1>1, <1>6, PutOfNumber
  <1>8. Get(r, kind) = Step(r, w, v)
    <2>1. ~(r.pos + Width[kind] > Len(r.data))
      BY <1>0, <1>1, <1>3 DEF Readers
    <2>2. Get(r, kind) = Step(r, Width[kind], NumberOf(View(r, Width[kind])))
      BY <1>2, <2>1 DEF Get, NumberOf
    <2> QED
      BY <1>1, <1>5, <1>7, <2>2
  <1>9. (r.pos + w) % SizeT = r.pos + w
    <2>1. PICK a \in Nat : a = r.pos + w
      BY <1>0 DEF Readers
    <2>2. a < SizeT
      BY <1>0, <1>3, <2>1, SizeTIs DEF Within, Readers
    <2> QED
      BY <2>1, <2>2, SizeTIs, ModSmall
  <1>11. v \in Item
    BY DEF Item
  <1>12. PICK q : q = Step(r, w, v)
    OBVIOUS
  <1>13. r.pos + w \in Nat
    BY <1>0 DEF Readers
  <1>14. q \in Readers /\ q.data = r.data /\ q.pos = r.pos + w /\ q.status = "ok" /\ q.got = Append(r.got, v)
    BY <1>0, <1>2, <1>9, <1>11, <1>12, <1>13, StepFields
  <1>15. Took(r, q, v, s)
    <2>1. r.pos \in Nat /\ Len(r.data) \in Nat /\ SizeT \in Nat /\ Len(r.data) < SizeT
      BY <1>0, SizeTIs DEF Within, Readers
    <2>2. r.pos <= q.pos /\ q.pos <= Len(r.data)
      BY <1>3, <1>14, <2>1
    <2>3. Within(q)
      BY <1>14, <1>14, <2>1, <2>2 DEF Within
    <2>4. Cut(r.data, r.pos, q.pos) = s
      BY <1>4, <1>14
    <2> QED
      BY <1>2, <1>6, <1>11, <1>14, <2>2, <2>3, <2>4 DEF Took, Moved
  <1> QED
    BY <1>7, <1>8, <1>12, <1>15

\* Two reads, one after the other.
LEMMA MovedTwice ==
    ASSUME NEW r, NEW q, NEW t, NEW a, NEW b, Within(r), Moved(r, q, a), Moved(q, t, b)
    PROVE  Moved(r, t, a \o b)
  <1>1. /\ r.data \in Seq(Byte) /\ r.pos \in Nat /\ q.pos \in Nat /\ t.pos \in Nat
        /\ r.pos <= q.pos /\ q.pos <= t.pos /\ t.pos <= Len(r.data) /\ t.data = r.data /\ q.data = r.data
    BY DEF Moved, Within, Readers
  <1>2. Cut(r.data, r.pos, q.pos) = a /\ Cut(r.data, q.pos, t.pos) = b
    BY <1>1 DEF Moved
  <1>3. a \o b = Cut(r.data, r.pos, t.pos)
    BY <1>1, <1>2, CutJoin
  <1>4. a \o b \in Seq(Byte)
    BY ConcatProperties DEF Moved
  <1>5. r.pos <= t.pos
    BY <1>1
  <1> QED
    BY <1>1, <1>3, <1>4, <1>5 DEF Moved

\* The last of the values read, and those before it.
LEMMA LastOfAppend ==
    ASSUME NEW g \in Seq(Item), NEW v \in Item
    PROVE  /\ Append(g, v) \in Seq(Item) /\ Len(Append(g, v)) = Len(g) + 1
           /\ Append(g, v)[Len(Append(g, v))] = v
           /\ SubSeq(Append(g, v), 1, Len(Append(g, v)) - 1) = g
  <1>1. /\ Append(g, v) \in Seq(Item) /\ Len(Append(g, v)) = Len(g) + 1
        /\ Append(g, v)[Len(Append(g, v))] = v
        /\ \A i \in 1 .. Len(g) : Append(g, v)[i] = g[i]
    BY AppendProperties
  <1>2. PICK n \in Nat : n = Len(g)
    OBVIOUS
  <1>3. PICK a \in Seq(Item) : a = Append(g, v)
    BY <1>1
  <1>4. SubSeq(a, 1, n) = g
    <2>1. \A i \in 1 .. n : a[i] \in Item
      BY <1>1, <1>2, <1>3
    <2>2. /\ SubSeq(a, 1, n) \in Seq(Item)
          /\ Len(SubSeq(a, 1, n)) = IF 1 <= n THEN n - 1 + 1 ELSE 0
          /\ \A i \in 1 .. n - 1 + 1 : SubSeq(a, 1, n)[i] = a[1 + i - 1]
      BY <2>1, SubSeqProperties
    <2>3. PICK b \in Seq(Item) : b = SubSeq(a, 1, n)
      BY <2>2
    <2>4. Len(b) = n /\ \A i \in 1 .. n : b[i] = g[i]
      BY <1>1, <1>2, <1>3, <2>2, <2>3
    <2> QED
      BY <1>2, <2>3, <2>4, SeqEqual
  <1> QED
    BY <1>1, <1>2, <1>3, <1>4

\* A count is looked at and forgotten, its bytes stay read.
LEMMA DropIs ==
    ASSUME NEW r, NEW h, NEW v, NEW part, Within(r), Moved(r, h, part), v \in Nat, h.got = Append(r.got, v)
    PROVE  /\ Last1(h) = v /\ Within(Drop(h)) /\ Drop(h).pos = h.pos /\ Drop(h).data = r.data
           /\ Drop(h).status = "ok" /\ Drop(h).got = r.got
  <1>1. r.got \in Seq(Item) /\ v \in Item /\ h \in Readers
    BY DEF Within, Readers, Moved, Item
  <1>2. Last1(h) = v /\ SubSeq(h.got, 1, Len(h.got) - 1) = r.got
    BY <1>1, LastOfAppend DEF Last1
  <1>3. PICK g \in Seq(Item) : g = SubSeq(h.got, 1, Len(h.got) - 1)
    BY <1>1, <1>2
  <1>4. Drop(h) = [h EXCEPT !.got = g]
    BY <1>3 DEF Drop
  <1>5. PICK q : q = [h EXCEPT !.got = g]
    OBVIOUS
  <1>6. q \in Readers /\ q.data = h.data /\ q.pos = h.pos /\ q.status = h.status /\ q.got = g
    BY <1>1, <1>5 DEF Readers
  <1> QED
    BY <1>2, <1>3, <1>4, <1>5, <1>6 DEF Moved, Within

\* A count that the remaining bytes allow, and as many bytes: a string as PutString() writes it.
LEMMA CountedTakes ==
    ASSUME NEW r, NEW h, NEW v, Within(r), Moved(r, h, Put("u64", v)), v \in Nat, h.got = Append(r.got, v),
           v <= Remaining(h), Counted(h).status = "ok"
    PROVE  \E s \in Seq(Byte) : Took(r, Counted(h), s, PutString(s))
  <1>1. /\ Last1(h) = v /\ Within(Drop(h)) /\ Drop(h).pos = h.pos /\ Drop(h).data = r.data
        /\ Drop(h).status = "ok" /\ Drop(h).got = r.got
    BY DropIs
  <1>2. h.status = "ok" /\ h.data = r.data /\ h.pos \in Nat /\ r.data \in Seq(Byte) /\ Len(r.data) \in Nat
        /\ h.pos <= Len(r.data) /\ Len(r.data) < SizeT /\ SizeT \in Nat
    BY SizeTIs DEF Moved, Within, Readers
  <1>3. PICK p \in Nat : p = h.pos + v
    BY <1>2
  <1>4. p <= Len(r.data) /\ h.pos <= p /\ p < SizeT
    BY <1>2, <1>3 DEF Remaining
  <1>5. p % SizeT = p
    BY <1>2, <1>4, ModSmall
  <1>6. PICK d : d = Drop(h)
    OBVIOUS
  <1>7. d \in Readers /\ d.status = "ok" /\ d.pos = h.pos /\ d.data = r.data /\ d.got = r.got
    BY <1>1, <1>6 DEF Within
  <1>8. Fits(d, v)
    BY <1>2, <1>3, <1>4, <1>5, <1>7 DEF Fits
  <1>9. PICK s : s = Cut(r.data, h.pos, p)
    OBVIOUS
  <1>10. View(d, v) = s
    <2>1. ~(v > Remaining(d))
      BY <1>2, <1>3, <1>4, <1>7 DEF Remaining
    <2> QED
      BY <1>3, <1>7, <1>9, <2>1 DEF View, Cut
  <1>11. s \in Seq(Byte) /\ Len(s) = v
    <2>1. s \in Seq(Byte) /\ Len(s) = p - h.pos
      BY <1>2, <1>4, <1>9, CutIn
    <2> QED
      BY <1>2, <1>3, <2>1
  <1>12. s \in Item
    <2>1. Seq(Byte) \subseteq Seq(Nat)
      BY CanonicalAssumption, SeqMonotonic DEF Byte
    <2> QED
      BY <1>11, <2>1 DEF Item
  <1>13. PICK q : q = Step(d, v, s)
    OBVIOUS
  <1>14. q \in Readers /\ q.data = r.data /\ q.status = "ok" /\ q.pos = p /\ q.got = Append(r.got, s)
    BY <1>3, <1>5, <1>7, <1>12, <1>13, StepFields
  <1>15. Counted(h) = q
    BY <1>1, <1>2, <1>6, <1>7, <1>8, <1>10, <1>13 DEF Counted, RawBlob
  <1>16. Moved(h, q, s)
    BY <1>2, <1>4, <1>9, <1>11, <1>14 DEF Moved, Within
  <1>17. Moved(r, q, Put("u64", v) \o s)
    BY <1>16, MovedTwice
  <1>18. PutString(s) = Put("u64", v) \o s
    BY <1>11 DEF PutString
  <1> QED
    BY <1>11, <1>12, <1>14, <1>15, <1>17, <1>18 DEF Took

\* The count before a string.
LEMMA CountRead ==
    ASSUME NEW r, Within(r), Get(r, "u64").status = "ok"
    PROVE  \E v \in Nat : /\ v < SizeT /\ Moved(r, Get(r, "u64"), Put("u64", v))
                          /\ Get(r, "u64").got = Append(r.got, v) /\ Last1(Get(r, "u64")) = v
  <1>1. "u64" \in NumberKinds
    BY DEF NumberKinds
  <1>2. PICK v \in Nat : v < Place[Width["u64"]] /\ Took(r, Get(r, "u64"), v, Put("u64", v))
    BY <1>1, GetTakes
  <1>3. Moved(r, Get(r, "u64"), Put("u64", v)) /\ Get(r, "u64").got = Append(r.got, v)
    BY <1>2 DEF Took
  <1>4. Last1(Get(r, "u64")) = v
    BY <1>3, DropIs
  <1> QED
    BY <1>2, <1>3, <1>4, SizeTIs

\* Reader::str() that succeeds has read what PutString() writes.
LEMMA StrTakes ==
    ASSUME NEW r, Within(r), Str(r).status = "ok"
    PROVE  \E s \in Seq(Byte) : Took(r, Str(r), s, PutString(s))
  <1>1. PICK h : h = Get(r, "u64")
    OBVIOUS
  <1>2. h.status = "ok"
    BY <1>1 DEF Str, Assigned, Counted
  <1>3. PICK v \in Nat : v < SizeT /\ Moved(r, h, Put("u64", v)) /\ h.got = Append(r.got, v) /\ Last1(h) = v
    BY <1>1, <1>2, CountRead
  <1>4. h \in Readers
    BY <1>3 DEF Moved, Within
  <1>5. ~(Fits(h, v) /\ v > Remaining(h))
    <2> SUFFICES ASSUME Fits(h, v), v > Remaining(h) PROVE FALSE
      OBVIOUS
    <2>1. Str(r) = [h EXCEPT !.status = "thrown"]
      BY <1>1, <1>2, <1>3 DEF Str, Assigned
    <2>2. [h EXCEPT !.status = "thrown"].status = "thrown"
      BY <1>4 DEF Readers
    <2> QED
      BY <2>1, <2>2
  <1>6. Str(r) = Counted(h)
    BY <1>1, <1>2, <1>3, <1>5 DEF Str, Assigned
  <1>7. Fits(h, v)
    <2> SUFFICES ASSUME ~Fits(h, v) PROVE FALSE
      OBVIOUS
    <2>1. PICK d : d = Drop(h)
      OBVIOUS
    <2>2. d \in Readers /\ d.pos = h.pos /\ d.data = h.data /\ d.status = "ok"
      BY <1>3, <2>1, DropIs DEF Within, Moved
    <2>3. ~Fits(d, v)
      BY <2>2 DEF Fits
    <2>4. Counted(h) = Rejected(d)
      BY <1>2, <1>3, <2>1, <2>2, <2>3 DEF Counted, RawBlob
    <2>5. Rejected(d).status = "rejected"
      BY <2>2 DEF Rejected, Readers
    <2> QED
      BY <1>6, <2>4, <2>5
  <1>8. v <= Remaining(h)
    BY <1>4, <1>5, <1>7 DEF Remaining, Readers
  <1> QED
    BY <1>3, <1>6, <1>8, CountedTakes

\* So has Reader::bytesBlob(), if the body ends where it stops. Its check adds in a size_t: a
\* count near the limit wraps past it, but then bytes remain.
LEMMA BlobTakes ==
    ASSUME NEW r, Within(r), BytesBlob(r).status = "ok", ~HasRemaining(BytesBlob(r))
    PROVE  \E s \in Seq(Byte) : Took(r, BytesBlob(r), s, PutString(s))
  <1>1. PICK h : h = Get(r, "u64")
    OBVIOUS
  <1>2. h.status = "ok"
    BY <1>1 DEF BytesBlob, Counted
  <1>3. PICK v \in Nat : v < SizeT /\ Moved(r, h, Put("u64", v)) /\ h.got = Append(r.got, v) /\ Last1(h) = v
    BY <1>1, <1>2, CountRead
  <1>4. h \in Readers /\ h.pos \in Nat /\ h.data \in Seq(Byte) /\ Len(h.data) \in Nat /\ h.pos <= Len(h.data)
        /\ Len(h.data) < SizeT /\ SizeT \in Nat
    BY <1>3, SizeTIs DEF Moved, Within, Readers
  <1>5. BytesBlob(r) = Counted(h)
    BY <1>1 DEF BytesBlob
  <1>6. v <= Remaining(h)
    <2> SUFFICES ASSUME h.pos + v > Len(h.data) PROVE FALSE
      BY <1>4 DEF Remaining
    <2>1. PICK d : d = Drop(h)
      OBVIOUS
    <2>2. d \in Readers /\ d.pos = h.pos /\ d.data = h.data /\ d.status = "ok"
      BY <1>3, <2>1, DropIs DEF Within, Moved
    <2>3. Fits(d, v)
      <3> SUFFICES ASSUME ~Fits(d, v) PROVE FALSE
        OBVIOUS
      <3>1. Counted(h) = Rejected(d)
        BY <1>2, <1>3, <2>1, <2>2 DEF Counted, RawBlob
      <3>2. Rejected(d).status = "rejected"
        BY <2>2 DEF Rejected, Readers
      <3> QED
        BY <1>5, <3>1, <3>2
    <2>4. PICK p \in Nat : p = h.pos + v
      BY <1>4
    <2>5. p % SizeT <= Len(h.data)
      BY <2>2, <2>3, <2>4 DEF Fits
    <2>6. p >= SizeT
      <3> SUFFICES ASSUME p < SizeT PROVE FALSE
        BY <1>4
      <3>1. p % SizeT = p
        BY <1>4, ModSmall
      <3>2. p <= Len(h.data)
        BY <2>5, <3>1, Zenon
      <3>3. PICK l \in Nat : l = Len(h.data)
        BY <1>4
      <3>4. p > l /\ p <= l
        BY <2>4, <3>2, <3>3, Zenon
      <3> QED
        BY <3>4
    <2>7. p % SizeT = p - SizeT /\ p - SizeT < h.pos /\ p - SizeT \in Nat
      <3>1. p - SizeT \in Nat /\ p - SizeT < SizeT /\ p - SizeT < h.pos
        BY <1>3, <1>4, <2>4, <2>6
      <3>2. PICK e \in Nat : e = p - SizeT
        BY <3>1
      <3>3. p = 1 * SizeT + e /\ e < SizeT
        BY <1>4, <3>1, <3>2
      <3>4. p % SizeT = e
        BY <1>4, <3>3, Number!Division
      <3> QED
        BY <3>1, <3>2, <3>4
    <2>8. PICK s : s = View(d, v)
      OBVIOUS
    <2>9. PICK q : q = Step(d, v, s)
      OBVIOUS
    <2>10. Counted(h) = q
      BY <1>2, <1>3, <2>1, <2>2, <2>3, <2>8, <2>9 DEF Counted, RawBlob
    <2>11. q.pos = p % SizeT /\ q.data = h.data
      BY <2>2, <2>4, <2>9 DEF Step, Readers
    <2>12. HasRemaining(q)
      BY <1>4, <2>7, <2>11 DEF HasRemaining
    <2> QED
      BY <1>5, <2>10, <2>12
  <1> QED
    BY <1>3, <1>5, <1>6, CountedTakes

\* One number more.
GetIn(c, r, kind) == Get(r, kind)
Reading == INSTANCE FoldFacts WITH Op <- GetIn, Mx <- Max
\* out is r after reading these numbers in turn.
Reads(r, kinds, n, out) ==
    \E st : /\ st[0] = r
            /\ \A i \in 1 .. n : st[i] = Get(st[i - 1], kinds[i])
            /\ out = st[n]

\* A list of numbers is read one number at a time.
LEMMA GetAllTrace ==
    ASSUME NEW r, NEW kinds, NEW n \in Nat, DOMAIN kinds = 1 .. n
    PROVE  Reads(r, kinds, n, GetAll(r, kinds))
  <1> DEFINE g == CHOOSE g : Reading!IsTable(0, r, kinds, n, g)
  <1>0. Reading!MxIsMax
    BY Zenon DEF Reading!MxIsMax, Max
  <1>1. GetAll(r, kinds) = g[DOMAIN kinds]
    BY DEF GetAll, FoldLeft, MapThenFoldSet, Reading!IsTable, Reading!Table, GetIn
  <1>2. \E h : Reading!IsTable(0, r, kinds, n, h)
    BY <1>0, Reading!TableExists
  <1>3. Reading!IsTable(0, r, kinds, n, g)
    BY <1>2
  <1> HIDE DEF g
  <1>4. Reading!Trace(0, r, kinds, n, g[1 .. n])
    BY <1>0, <1>3, Reading!TableTrace
  <1> QED
    BY <1>1, <1>4 DEF Reading!Trace, GetIn, Reads

\* Two numbers.
LEMMA GetAll2 == ASSUME NEW r, NEW a, NEW b PROVE GetAll(r, <<a, b>>) = Get(Get(r, a), b)
  <1>1. PICK k : k = <<a, b>>
    OBVIOUS
  <1>2. DOMAIN k = 1 .. 2 /\ k[1] = a /\ k[2] = b
    BY <1>1
  <1>3. PICK st : st[0] = r /\ (\A i \in 1 .. 2 : st[i] = Get(st[i - 1], k[i])) /\ GetAll(r, k) = st[2]
    <2>1. Reads(r, k, 2, GetAll(r, k))
      BY <1>2, GetAllTrace
    <2> QED
      BY <2>1 DEF Reads
  <1>4. st[1] = Get(st[0], k[1]) /\ st[2] = Get(st[1], k[2])
    BY <1>3
  <1> QED
    BY <1>1, <1>2, <1>3, <1>4

\* Three numbers.
LEMMA GetAll3 == ASSUME NEW r, NEW a, NEW b, NEW c PROVE GetAll(r, <<a, b, c>>) = Get(Get(Get(r, a), b), c)
  <1>1. PICK k : k = <<a, b, c>>
    OBVIOUS
  <1>2. DOMAIN k = 1 .. 3 /\ k[1] = a /\ k[2] = b /\ k[3] = c
    BY <1>1
  <1>3. PICK st : st[0] = r /\ (\A i \in 1 .. 3 : st[i] = Get(st[i - 1], k[i])) /\ GetAll(r, k) = st[3]
    <2>1. Reads(r, k, 3, GetAll(r, k))
      BY <1>2, GetAllTrace
    <2> QED
      BY <2>1 DEF Reads
  <1>4. st[1] = Get(st[0], k[1]) /\ st[2] = Get(st[1], k[2]) /\ st[3] = Get(st[2], k[3])
    BY <1>3
  <1> QED
    BY <1>1, <1>2, <1>3, <1>4

\* bytesBlob() leaves a reader behind, wherever it points.
LEMMA BlobReader ==
    ASSUME NEW r, Within(r), BytesBlob(r).status = "ok" PROVE BytesBlob(r) \in Readers
  <1>1. PICK h : h = Get(r, "u64")
    OBVIOUS
  <1>2. h.status = "ok"
    BY <1>1 DEF BytesBlob, Counted
  <1>3. PICK v \in Nat : v < SizeT /\ Moved(r, h, Put("u64", v)) /\ h.got = Append(r.got, v) /\ Last1(h) = v
    BY <1>1, <1>2, CountRead
  <1>4. PICK d : d = Drop(h)
    OBVIOUS
  <1>5. Within(d) /\ d \in Readers /\ d.status = "ok"
    BY <1>3, <1>4, DropIs DEF Within
  <1>6. BytesBlob(r) = RawBlob(d, v)
    BY <1>1, <1>2, <1>3, <1>4 DEF BytesBlob, Counted
  <1>7. Fits(d, v)
    <2> SUFFICES ASSUME ~Fits(d, v) PROVE FALSE
      OBVIOUS
    <2>1. RawBlob(d, v) = Rejected(d)
      BY <1>5 DEF RawBlob
    <2> QED
      BY <1>5, <1>6, <2>1 DEF Rejected, Readers
  <1>8. PICK s : s = View(d, v)
    OBVIOUS
  <1>9. s \in Item
    <2>1. s \in Seq(Byte)
      <3>1. PICK x, y : x = d.pos + 1 /\ y = IF v > Remaining(d) THEN Len(d.data) ELSE d.pos + v
        OBVIOUS
      <3>2. x \in Int /\ y \in Int /\ x >= 1 /\ y <= Len(d.data) /\ d.data \in Seq(Byte)
        BY <1>5, <3>1 DEF Within, Readers, Remaining
      <3>3. \A i \in x .. y : d.data[i] \in Byte
        BY <3>2
      <3>4. s = SubSeq(d.data, x, y)
        BY <1>8, <3>1 DEF View
      <3> QED
        BY <3>2, <3>3, <3>4, SubSeqProperties
    <2>2. Seq(Byte) \subseteq Seq(Nat)
      BY CanonicalAssumption, SeqMonotonic DEF Byte
    <2> QED
      BY <2>1, <2>2 DEF Item
  <1>10. (d.pos + v) % SizeT \in Nat
    BY <1>5, SizeTIs DEF Within, Readers
  <1>11. BytesBlob(r) = Step(d, v, s)
    BY <1>5, <1>6, <1>7, <1>8 DEF RawBlob
  <1> QED
    BY <1>5, <1>9, <1>10, <1>11, StepFields

\* q has read what r has, and then v.
Grew(r, q, v) ==
    /\ Len(q.got) = Len(r.got) + 1 /\ q.got[Len(q.got)] = v
    /\ \A i \in 1 .. Len(r.got) : q.got[i] = r.got[i]

\* Reading adds the value after those read before.
LEMMA TookGot ==
    ASSUME NEW r, NEW q, NEW v, NEW part, Within(r), Took(r, q, v, part)
    PROVE  Within(q) /\ Grew(r, q, v) /\ Last1(q) = v
  <1>1. r.got \in Seq(Item) /\ v \in Item /\ q.got = Append(r.got, v) /\ Within(q) /\ q \in Readers
    BY DEF Within, Took, Moved, Readers
  <1>2. /\ q.got \in Seq(Item) /\ Len(q.got) = Len(r.got) + 1 /\ q.got[Len(q.got)] = v
        /\ \A i \in 1 .. Len(r.got) : q.got[i] = r.got[i]
    BY <1>1, AppendProperties
  <1> QED
    BY <1>1, <1>2 DEF Last1, Grew

\* A new reader is at the beginning of its bytes.
LEMMA StartWithin ==
    ASSUME NEW d \in Seq(Byte), Len(d) < SizeT
    PROVE  /\ Within(Reader(d)) /\ Reader(d).data = d /\ Reader(d).pos = 0
           /\ Reader(d).status = "ok" /\ Reader(d).got = <<>> /\ Len(Reader(d).got) = 0
  <1>1. <<>> \in Seq(Item) /\ Len(<<>>) = 0 /\ Len(d) \in Nat /\ 0 <= Len(d)
    BY EmptySeq
  <1>2. PICK r : r = [data |-> d, pos |-> 0, status |-> "ok", got |-> <<>>]
    OBVIOUS
  <1>3. r.data = d /\ r.pos = 0 /\ r.status = "ok" /\ r.got = <<>> /\ r \in Readers
    BY <1>1, <1>2 DEF Readers
  <1> QED
    BY <1>1, <1>2, <1>3 DEF Reader, Within

\* What is rejected is not ok.
LEMMA RejectedIs ==
    ASSUME NEW r, Within(r) PROVE Rejected(r).status = "rejected"
  BY DEF Within, Readers, Rejected

\* When nothing remains, the parts read are the whole.
LEMMA ReadToEnd ==
    ASSUME NEW d \in Seq(Byte), NEW q, NEW part, Moved(Reader(d), q, part), Len(d) < SizeT, ~HasRemaining(q)
    PROVE  part = d
  <1>1. Cut(d, 0, q.pos) = part /\ q.pos \in Nat /\ q.pos <= Len(d) /\ q.data = d
    BY StartWithin DEF Moved, Within, Readers
  <1>2. q.pos = Len(d)
    BY <1>1 DEF HasRemaining
  <1> QED
    BY <1>1, <1>2, CutFull

\* The five parts of a frame.
LEMMA Concat5 ==
    ASSUME NEW p, Len(p) = 5
    PROVE  Concat(p) = p[1] \o p[2] \o p[3] \o p[4] \o p[5]
  <1>1. 5 \in Nat /\ 5 > 0
    OBVIOUS
  <1>2. PICK f : IsFlat(p, 5, f) /\ Concat(p) = f[5]
    BY <1>1, ConcatFlat
  <1>3. Flattens(p, 5, f)
    BY <1>1, <1>2, FlatSteps
  <1>4. f[1] = p[1] /\ f[2] = Join(f[1], p[2]) /\ f[3] = Join(f[2], p[3])
    BY <1>3 DEF Flattens
  <1>5. f[4] = Join(f[3], p[4]) /\ f[5] = Join(f[4], p[5])
    BY <1>3 DEF Flattens
  <1> QED
    BY <1>2, <1>4, <1>5 DEF Join

\* The eight parts of a header.
LEMMA Concat8 ==
    ASSUME NEW p, Len(p) = 8
    PROVE  Concat(p) = p[1] \o p[2] \o p[3] \o p[4] \o p[5] \o p[6] \o p[7] \o p[8]
  <1>1. 8 \in Nat /\ 8 > 0
    OBVIOUS
  <1>2. PICK f : IsFlat(p, 8, f) /\ Concat(p) = f[8]
    BY <1>1, ConcatFlat
  <1>3. Flattens(p, 8, f)
    BY <1>1, <1>2, FlatSteps
  <1>4. f[1] = p[1] /\ f[2] = Join(f[1], p[2]) /\ f[3] = Join(f[2], p[3])
    BY <1>3 DEF Flattens
  <1>5. f[4] = Join(f[3], p[4]) /\ f[5] = Join(f[4], p[5]) /\ f[6] = Join(f[5], p[6])
    BY <1>3 DEF Flattens
  <1>6. f[7] = Join(f[6], p[7]) /\ f[8] = Join(f[7], p[8])
    BY <1>3 DEF Flattens
  <1> QED
    BY <1>2, <1>4, <1>5, <1>6 DEF Join

\* A frame body that decodeFrameBody() accepts is the one encodeFrameBody() writes for the
\* frame it returns.
LEMMA FrameExact ==
    ASSUME NEW body \in Seq(Byte), Len(body) < SizeT, DecodeFrameBody(body).status = "ok"
    PROVE  EncodeFrameBody(DecodeFrameBody(body).value) = body
  <1>1. PICK r : r = Reader(body)
    OBVIOUS
  <1>2. PICK a : a = Get(r, "u32")
    OBVIOUS
  <1>3. PICK a1 : a1 = IF a.status = "ok" /\ ~(Last1(a) = ProtocolVersion) THEN Rejected(a) ELSE a
    OBVIOUS
  <1>4. PICK b : b = Get(a1, "u32")
    OBVIOUS
  <1>5. PICK b1 : b1 = IF b.status = "ok" /\ ~(Last1(b) \in MsgTypes) THEN Rejected(b) ELSE b
    OBVIOUS
  <1>6. PICK c : c = Get(b1, "u32")
    OBVIOUS
  <1>7. PICK d : d = Get(c, "u32")
    OBVIOUS
  <1>8. PICK e : e = BytesBlob(d)
    OBVIOUS
  <1>9. PICK e1 : e1 = IF e.status = "ok" /\ ~(~HasRemaining(e)) THEN Rejected(e) ELSE e
    OBVIOUS
  <1>10. DecodeFrameBody(body) = [status |-> e1.status,
                                   value |-> IF e1.status = "ok" THEN FrameOf(e1.got) ELSE <<>>]
    <2>1. d = GetAll(b1, <<"u32", "u32">>)
      BY <1>6, <1>7, GetAll2
    <2> QED
      BY <1>1, <1>2, <1>3, <1>4, <1>5, <2>1, <1>8, <1>9 DEF DecodeFrameBody, Require, AtEnd, Result
  <1>11. e1.status = "ok" /\ DecodeFrameBody(body).value = FrameOf(e1.got)
    BY <1>10
  <1>12. e.status = "ok"
    BY <1>9, <1>11
  <1>13. d.status = "ok" /\ c.status = "ok" /\ b1.status = "ok"
    BY <1>6, <1>7, <1>8, <1>12 DEF BytesBlob, Counted, Get
  <1>14. b.status = "ok" /\ a1.status = "ok" /\ a.status = "ok"
    BY <1>3, <1>4, <1>5, <1>13 DEF Get
  <1>0. "u32" \in NumberKinds
    BY DEF NumberKinds
  <1>15. Within(r) /\ Len(r.got) = 0
    BY <1>1, StartWithin
  <1>16. PICK v1 \in Nat : Took(r, a, v1, Put("u32", v1))
    BY <1>0, <1>2, <1>14, <1>15, GetTakes
  <1>17. Within(a) /\ Grew(r, a, v1) /\ Last1(a) = v1
    BY <1>15, <1>16, TookGot
  <1>18. a1 = a /\ v1 = ProtocolVersion
    BY <1>3, <1>14, <1>17, RejectedIs
  <1>19. PICK v2 \in Nat : Took(a, b, v2, Put("u32", v2))
    BY <1>0, <1>4, <1>14, <1>17, <1>18, GetTakes
  <1>20. Within(b) /\ Grew(a, b, v2)
    BY <1>17, <1>19, TookGot
  <1>21. b1 = b
    BY <1>5, <1>13, <1>20, RejectedIs
  <1>22. PICK v3 \in Nat : Took(b, c, v3, Put("u32", v3))
    BY <1>0, <1>6, <1>13, <1>20, <1>21, GetTakes
  <1>23. Within(c) /\ Grew(b, c, v3)
    BY <1>20, <1>22, TookGot
  <1>24. PICK v4 \in Nat : Took(c, d, v4, Put("u32", v4))
    BY <1>0, <1>7, <1>13, <1>23, GetTakes
  <1>25. Within(d) /\ Grew(c, d, v4)
    BY <1>23, <1>24, TookGot
  <1>26. ~HasRemaining(e) /\ e1 = e
    <2>1. CASE HasRemaining(e)
      <3>1. e1 = Rejected(e)
        BY <1>9, <1>12, <2>1
      <3>2. e.status = "ok" /\ e1.status = "ok"
        BY <1>11, <1>12
      <3>3. e \in Readers
        BY <1>8, <1>12, <1>25, BlobReader
      <3> QED
        BY <3>1, <3>2, <3>3 DEF Rejected, Readers
    <2> QED
      BY <1>9, <2>1
  <1>27. PICK s \in Seq(Byte) : Took(d, e, s, PutString(s))
    BY <1>8, <1>12, <1>25, <1>26, BlobTakes
  <1>28. e.got[5] = s /\ e.got[4] = v4 /\ e.got[3] = v3 /\ e.got[2] = v2
    <2>1. Grew(d, e, s)
      BY <1>25, <1>27, TookGot
    <2>2. Len(a.got) = 1 /\ Len(b.got) = 2 /\ b.got[2] = v2
      BY <1>15, <1>17, <1>20 DEF Grew
    <2>3. Len(c.got) = 3 /\ c.got[3] = v3 /\ c.got[2] = v2
      BY <1>23, <2>2 DEF Grew
    <2>4. Len(d.got) = 4 /\ d.got[4] = v4 /\ d.got[3] = v3 /\ d.got[2] = v2
      BY <1>25, <2>3 DEF Grew
    <2> QED
      BY <2>1, <2>4 DEF Grew
  <1>29. DecodeFrameBody(body).value = [type |-> v2, flags |-> v3, seq |-> v4, payload |-> s]
    BY <1>11, <1>26, <1>28 DEF FrameOf
  <1>30. EncodeFrameBody(DecodeFrameBody(body).value) =
           Put("u32", v1) \o Put("u32", v2) \o Put("u32", v3) \o Put("u32", v4) \o PutString(s)
    <2>1. PICK f : f = DecodeFrameBody(body).value
      OBVIOUS
    <2>2. f.type = v2 /\ f.flags = v3 /\ f.seq = v4 /\ f.payload = s
      BY <1>29, <2>1
    <2>3. PICK p : p = <<Put("u32", v1), Put("u32", v2), Put("u32", v3), Put("u32", v4), PutString(s)>>
      OBVIOUS
    <2>4. /\ Len(p) = 5 /\ p[1] = Put("u32", v1) /\ p[2] = Put("u32", v2) /\ p[3] = Put("u32", v3)
          /\ p[4] = Put("u32", v4) /\ p[5] = PutString(s)
      BY <2>3
    <2>5. EncodeFrameBody(f) = Concat(p)
      BY <1>18, <2>2, <2>3 DEF EncodeFrameBody
    <2> QED
      BY <2>1, <2>4, <2>5, Concat5
  <1>31. Moved(r, e, Put("u32", v1) \o Put("u32", v2) \o Put("u32", v3) \o Put("u32", v4) \o PutString(s))
    BY <1>15, <1>16, <1>19, <1>22, <1>24, <1>27, MovedTwice DEF Took
  <1> QED
    BY <1>1, <1>26, <1>30, <1>31, ReadToEnd

\* The reader is past the bytes of these parts, the first of them at from.
Covers(r, from, parts) ==
    /\ Within(r) /\ r.status = "ok" /\ from \in Nat /\ from <= r.pos
    /\ parts \in Seq(Seq(Byte)) /\ Concat(parts) = Cut(r.data, from, r.pos)

\* One part more is read.
LEMMA CoversMore ==
    ASSUME NEW r, NEW q, NEW from, NEW parts, NEW part, Covers(r, from, parts), Moved(r, q, part)
    PROVE  Covers(q, from, Append(parts, part))
  <1>1. /\ r.data \in Seq(Byte) /\ from \in Nat /\ r.pos \in Nat /\ q.pos \in Nat /\ from <= r.pos
        /\ r.pos <= q.pos /\ q.pos <= Len(r.data) /\ q.data = r.data /\ part \in Seq(Byte)
        /\ parts \in Seq(Seq(Byte)) /\ Within(q) /\ q.status = "ok"
    BY DEF Covers, Moved, Within, Readers
  <1>2. Concat(Append(parts, part)) = Concat(parts) \o part
    BY <1>1, ConcatAppend
  <1>3. Concat(parts) = Cut(r.data, from, r.pos) /\ part = Cut(r.data, r.pos, q.pos)
    BY DEF Covers, Moved
  <1>4. Concat(parts) \o part = Cut(q.data, from, q.pos)
    <2>1. PICK a \in Nat, b \in Nat, c \in Nat : a = from /\ b = r.pos /\ c = q.pos
      BY <1>1
    <2>2. PICK e \in Seq(Byte) : e = r.data
      BY <1>1
    <2>3. a <= b /\ b <= c /\ c <= Len(e)
      BY <1>1, <2>1, <2>2
    <2>4. Cut(e, a, b) \o Cut(e, b, c) = Cut(e, a, c)
      BY <2>3, CutJoin
    <2> QED
      BY <1>1, <1>3, <2>1, <2>2, <2>4
  <1>5. Append(parts, part) \in Seq(Seq(Byte))
    BY <1>1, AppendProperties
  <1>6. from <= q.pos
    BY <1>1
  <1> QED
    BY <1>1, <1>2, <1>4, <1>5, <1>6 DEF Covers

\* Before the first part.
LEMMA CoversNothing ==
    ASSUME NEW r, Within(r), r.status = "ok" PROVE Covers(r, r.pos, <<>>)
  <1>1. r.data \in Seq(Byte) /\ r.pos \in Nat /\ r.pos <= Len(r.data)
    BY DEF Within, Readers
  <1>2. Cut(r.data, r.pos, r.pos) \in Seq(Byte) /\ Len(Cut(r.data, r.pos, r.pos)) = r.pos - r.pos
    <2>1. PICK a \in Nat, e \in Seq(Byte) : a = r.pos /\ e = r.data
      BY <1>1
    <2>2. a <= a /\ a <= Len(e)
      BY <1>1, <2>1
    <2>3. Cut(e, a, a) \in Seq(Byte) /\ Len(Cut(e, a, a)) = a - a
      BY <2>2, CutIn
    <2> QED
      BY <2>1, <2>3
  <1>3. Cut(r.data, r.pos, r.pos) = <<>>
    BY <1>1, <1>2, EmptySeq
  <1>4. <<>> \in Seq(Seq(Byte))
    BY EmptySeq
  <1> QED
    BY <1>1, <1>3, <1>4, ConcatEmpty DEF Covers

\* The parts are the values in the order they were read.
Listed(kinds, got, parts, n) ==
    Len(parts) = n /\ Len(got) = n /\ \A i \in 1 .. n : parts[i] = Put(kinds[i], got[i])

\* One value more is read.
LEMMA ListedMore ==
    ASSUME NEW r, NEW q, NEW v, NEW kinds, NEW parts \in Seq(Seq(Byte)), NEW n \in Nat, Within(r),
           Listed(kinds, r.got, parts, n), Took(r, q, v, Put(kinds[n + 1], v))
    PROVE  Listed(kinds, q.got, Append(parts, Put(kinds[n + 1], v)), n + 1)
  <1>1. Grew(r, q, v)
    BY TookGot
  <1>2. PICK part \in Seq(Byte) : part = Put(kinds[n + 1], v)
    BY DEF Took, Moved
  <1>3. PICK ps : ps = Append(parts, part)
    OBVIOUS
  <1>4. Len(parts) = n /\ Len(r.got) = n /\ \A i \in 1 .. n : parts[i] = Put(kinds[i], r.got[i])
    BY DEF Listed
  <1>5. Len(ps) = n + 1 /\ ps[n + 1] = part /\ \A i \in 1 .. n : ps[i] = parts[i]
    BY <1>3, <1>4, AppendProperties
  <1>6. Len(q.got) = n + 1 /\ q.got[n + 1] = v /\ \A i \in 1 .. n : q.got[i] = r.got[i]
    BY <1>1, <1>4 DEF Grew
  <1>7. ASSUME NEW i \in 1 .. n + 1 PROVE ps[i] = Put(kinds[i], q.got[i])
    <2>1. CASE i = n + 1
      BY <1>2, <1>5, <1>6, <2>1
    <2>2. CASE i \in 1 .. n
      BY <1>4, <1>5, <1>6, <2>2
    <2> QED
      BY <2>1, <2>2
  <1> QED
    BY <1>2, <1>3, <1>5, <1>6, <1>7 DEF Listed

\* Every value of a list is read where the one before it ended.
LEMMA GetAllCovers ==
    ASSUME NEW d \in Seq(Byte), Len(d) < SizeT, NEW n \in Nat, NEW kinds, DOMAIN kinds = 1 .. n,
           \A i \in 1 .. n : kinds[i] \in NumberKinds, GetAll(Reader(d), kinds).status = "ok"
    PROVE  \E parts : /\ Covers(GetAll(Reader(d), kinds), 0, parts) /\ GetAll(Reader(d), kinds).data = d
                      /\ Listed(kinds, GetAll(Reader(d), kinds).got, parts, n)
  <1>1. PICK r : r = Reader(d)
    OBVIOUS
  <1>2. Reads(r, kinds, n, GetAll(r, kinds))
    BY GetAllTrace
  <1>3. PICK st : /\ st[0] = r /\ GetAll(r, kinds) = st[n]
                  /\ \A i \in 1 .. n : st[i] = Get(st[i - 1], kinds[i])
    BY <1>2 DEF Reads
  <1>4. \A i \in 0 .. n : st[i].status = "ok"
    <2> DEFINE S == {j \in Nat : j <= n => st[n - j].status = "ok"}
    <2>1. 0 \in S
      BY <1>1, <1>3
    <2>2. ASSUME NEW j \in Nat, j \in S PROVE j + 1 \in S
      <3> SUFFICES ASSUME j + 1 <= n PROVE st[n - (j + 1)].status = "ok"
        OBVIOUS
      <3>1. PICK i \in 1 .. n : i = n - j /\ n - (j + 1) = i - 1
        OBVIOUS
      <3>2. st[i].status = "ok" /\ st[i] = Get(st[i - 1], kinds[i])
        BY <1>3, <2>2, <3>1
      <3>3. st[i - 1].status = "ok"
        BY <3>2 DEF Get
      <3> QED
        BY <3>1, <3>3
    <2>3. Nat \subseteq S
      <3> HIDE DEF S
      <3> QED
        BY <2>1, <2>2, Number!SetInduction
    <2> SUFFICES ASSUME NEW i \in 0 .. n PROVE st[i].status = "ok"
      OBVIOUS
    <2>4. n - i \in S /\ n - i <= n /\ n - (n - i) = i
      <3> HIDE DEF S
      <3> QED
        BY <2>3
    <2> QED
      BY <2>4
  <1> DEFINE At(i) == \E parts : /\ Covers(st[i], 0, parts) /\ Listed(kinds, st[i].got, parts, i)
                                 /\ st[i].data = d
  <1> DEFINE S == {i \in Nat : i <= n => At(i)}
  <1>5. 0 \in S
    <2>1. Within(r) /\ r.status = "ok" /\ r.pos = 0 /\ r.data = d /\ Len(r.got) = 0
      BY <1>1, StartWithin
    <2>2. Covers(r, 0, <<>>)
      BY <2>1, CoversNothing
    <2>3. Listed(kinds, r.got, <<>>, 0)
      BY <2>1 DEF Listed
    <2> QED
      BY <1>3, <2>1, <2>2, <2>3
  <1>6. ASSUME NEW i \in Nat, i \in S PROVE i + 1 \in S
    <2> SUFFICES ASSUME i + 1 <= n PROVE At(i + 1)
      OBVIOUS
    <2>1. PICK parts : Covers(st[i], 0, parts) /\ Listed(kinds, st[i].got, parts, i) /\ st[i].data = d
      BY <1>6
    <2>2. i + 1 \in 1 .. n /\ i + 1 \in 0 .. n /\ (i + 1) - 1 = i
      OBVIOUS
    <2>3. PICK kind \in NumberKinds : kind = kinds[i + 1]
      BY <2>2
    <2>4. PICK q : q = st[i + 1]
      OBVIOUS
    <2>5. q = Get(st[i], kind) /\ q.status = "ok"
      BY <1>3, <1>4, <2>2, <2>3, <2>4
    <2>6. Within(st[i]) /\ parts \in Seq(Seq(Byte))
      BY <2>1 DEF Covers
    <2>7. PICK v \in Nat : Took(st[i], q, v, Put(kind, v))
      BY <2>5, <2>6, GetTakes
    <2>8. PICK ps : ps = Append(parts, Put(kind, v))
      OBVIOUS
    <2>9. Moved(st[i], q, Put(kind, v)) /\ q.data = d
      BY <2>1, <2>7 DEF Took, Moved
    <2>10. Covers(q, 0, ps)
      BY <2>1, <2>8, <2>9, CoversMore
    <2>11. Listed(kinds, q.got, ps, i + 1)
      <3>1. Took(st[i], q, v, Put(kinds[i + 1], v))
        BY <2>3, <2>7
      <3>2. Listed(kinds, q.got, Append(parts, Put(kinds[i + 1], v)), i + 1)
        BY <2>1, <2>6, <3>1, ListedMore
      <3> QED
        BY <2>3, <2>8, <3>2
    <2> QED
      BY <2>4, <2>9, <2>10, <2>11
  <1>7. Nat \subseteq S
    <2> HIDE DEF S
    <2> QED
      BY <1>5, <1>6, Number!SetInduction
  <1>8. At(n)
    BY <1>7
  <1> QED
    BY <1>1, <1>3, <1>8

\* When nothing remains, the parts are all the bytes.
LEMMA CoversAll ==
    ASSUME NEW r, NEW parts, Covers(r, 0, parts), ~HasRemaining(r)
    PROVE  Concat(parts) = r.data
  <1>1. r.data \in Seq(Byte) /\ r.pos = Len(r.data)
    BY DEF Covers, Within, Readers, HasRemaining
  <1> QED
    BY <1>1, CutFull DEF Covers

\* A worker's answer that is accepted is the one encodeEnvelope() writes for what it says.
LEMMA EnvelopeExact ==
    ASSUME NEW bytes \in Seq(Byte), Len(bytes) < SizeT, DecodeEnvelope(bytes).status = "ok"
    PROVE  EncodeEnvelope(DecodeEnvelope(bytes).value) = bytes
  <1>1. PICK kinds : kinds = EnvelopeKinds
    OBVIOUS
  <1>2. DOMAIN kinds = 1 .. 9 /\ \A i \in 1 .. 9 : kinds[i] \in NumberKinds
    BY <1>1 DEF EnvelopeKinds, NumberKinds
  <1>3. PICK q : q = GetAll(Reader(bytes), kinds)
    OBVIOUS
  <1>4. PICK t : t = IF q.status = "ok" /\ ~(~HasRemaining(q)) THEN Rejected(q) ELSE q
    OBVIOUS
  <1>5. DecodeEnvelope(bytes) = [status |-> t.status,
                                     value |-> IF t.status = "ok" THEN t.got ELSE <<>>]
    BY <1>1, <1>3, <1>4 DEF DecodeEnvelope, Require, AtEnd, Result
  <1>6. t.status = "ok" /\ DecodeEnvelope(bytes).value = t.got /\ q.status = "ok"
    BY <1>4, <1>5
  <1>7. PICK parts : Covers(q, 0, parts) /\ Listed(kinds, q.got, parts, 9) /\ q.data = bytes
    BY <1>2, <1>3, <1>6, GetAllCovers
  <1>8. ~HasRemaining(q) /\ t = q
    <2>1. Rejected(q).status = "rejected"
      BY <1>7, RejectedIs DEF Covers
    <2> QED
      BY <1>4, <1>6, <2>1
  <1>9. Concat(parts) = bytes
    BY <1>7, <1>8, CoversAll
  <1>10. parts = [i \in 1 .. 9 |-> Put(kinds[i], q.got[i])]
    <2>1. parts \in Seq(Seq(Byte)) /\ Len(parts) = 9
      BY <1>7 DEF Covers, Listed
    <2>2. DOMAIN parts = 1 .. 9 /\ parts = [i \in DOMAIN parts |-> parts[i]]
      BY <2>1
    <2> QED
      BY <1>7, <2>2 DEF Listed
  <1>11. EncodeEnvelope(q.got) = Concat(parts)
    <2>1. EncodeEnvelope(q.got) = Concat([i \in DOMAIN kinds |-> Put(kinds[i], q.got[i])])
      BY <1>1 DEF EncodeEnvelope
    <2> QED
      BY <1>2, <1>10, <2>1
  <1> QED
    BY <1>6, <1>8, <1>9, <1>11

\* One operation more.
GetOp(c, s, i) == GetAll(s, <<"u8", "u64", "u32">>)
Operations == INSTANCE FoldFacts WITH Op <- GetOp, Mx <- Max

\* out is r after reading n operations in turn.
OpsAreRead(r, n, out) ==
    \E st : /\ st[0] = r
            /\ \A i \in 1 .. n : st[i] = Get(Get(Get(st[i - 1], "u8"), "u64"), "u32")
            /\ out = st[n]

\* The operations are read one at a time, as many as the header says.
LEMMA OpsTrace ==
    ASSUME NEW r, NEW n \in Nat, Last1(r) = n, r.status = "ok"
    PROVE  OpsAreRead(r, n, GetOps(r))
  <1> DEFINE s == [i \in 1 .. n |-> i]
  <1> DEFINE g == CHOOSE g : Operations!IsTable(0, r, s, n, g)
  <1>0. Operations!MxIsMax
    BY Zenon DEF Operations!MxIsMax, Max
  <1>1. GetOps(r) = g[DOMAIN s]
    BY DEF GetOps, FoldLeft, MapThenFoldSet, Operations!IsTable, Operations!Table, GetOp
  <1>2. DOMAIN s = 1 .. n
    OBVIOUS
  <1> HIDE DEF s
  <1>3. \E h : Operations!IsTable(0, r, s, n, h)
    BY <1>0, Operations!TableExists
  <1>4. Operations!IsTable(0, r, s, n, g)
    BY <1>3
  <1> HIDE DEF g
  <1>5. Operations!Trace(0, r, s, n, g[1 .. n])
    BY <1>0, <1>4, Operations!TableTrace
  <1>6. PICK st : /\ st[0] = r /\ GetOps(r) = st[n]
                  /\ \A i \in 1 .. n : st[i] = GetAll(st[i - 1], <<"u8", "u64", "u32">>)
    BY <1>1, <1>2, <1>5 DEF Operations!Trace, GetOp
  <1>7. \A i \in 1 .. n : st[i] = Get(Get(Get(st[i - 1], "u8"), "u64"), "u32")
    BY <1>6, GetAll3
  <1> QED
    BY <1>6, <1>7 DEF OpsAreRead

\* The bytes of the i-th operation, its three values as they were read.
OpPart(got, i) == Put("u8", got[6 + 3 * i]) \o Put("u64", got[7 + 3 * i]) \o Put("u32", got[8 + 3 * i])

\* After i operations: head and g are the parts and the values of the header.
OpsRead(s, i, head, g, parts) ==
    /\ Covers(s, 0, parts) /\ Len(parts) = 8 + i /\ Len(s.got) = 8 + 3 * i
    /\ \A j \in 1 .. 8 : parts[j] = head[j] /\ s.got[j] = g[j]
    /\ \A k \in 1 .. i : parts[8 + k] = OpPart(s.got, k)

\* One operation more: three numbers, and the bytes they are written to.
LEMMA OpsMore ==
    ASSUME NEW s, NEW i \in Nat, NEW head, NEW g, NEW parts, OpsRead(s, i, head, g, parts),
           NEW q, q = Get(Get(Get(s, "u8"), "u64"), "u32"), q.status = "ok"
    PROVE  q.data = s.data /\ \E ps : OpsRead(q, i + 1, head, g, ps)
  <1>0. "u8" \in NumberKinds /\ "u64" \in NumberKinds /\ "u32" \in NumberKinds
    BY DEF NumberKinds
  <1>1. PICK x : x = Get(s, "u8")
    OBVIOUS
  <1>2. PICK y : y = Get(x, "u64")
    OBVIOUS
  <1>3. q = Get(y, "u32")
    BY <1>1, <1>2
  <1>4. y.status = "ok" /\ x.status = "ok"
    BY <1>2, <1>3 DEF Get
  <1>5. Within(s) /\ parts \in Seq(Seq(Byte))
    BY DEF OpsRead, Covers
  <1>6. PICK v1 \in Nat : Took(s, x, v1, Put("u8", v1))
    BY <1>0, <1>1, <1>4, <1>5, GetTakes
  <1>7. Within(x) /\ Grew(s, x, v1)
    BY <1>5, <1>6, TookGot
  <1>8. PICK v2 \in Nat : Took(x, y, v2, Put("u64", v2))
    BY <1>0, <1>2, <1>4, <1>7, GetTakes
  <1>9. Within(y) /\ Grew(x, y, v2)
    BY <1>7, <1>8, TookGot
  <1>10. PICK v3 \in Nat : Took(y, q, v3, Put("u32", v3))
    BY <1>0, <1>3, <1>9, GetTakes
  <1>11. Within(q) /\ Grew(y, q, v3)
    BY <1>9, <1>10, TookGot
  <1>12. PICK part : part = Put("u8", v1) \o Put("u64", v2) \o Put("u32", v3)
    OBVIOUS
  <1>13. Moved(s, q, part)
    <2>1. Moved(s, x, Put("u8", v1)) /\ Moved(x, y, Put("u64", v2)) /\ Moved(y, q, Put("u32", v3))
      BY <1>6, <1>8, <1>10 DEF Took
    <2>2. Moved(s, y, Put("u8", v1) \o Put("u64", v2))
      BY <1>5, <2>1, MovedTwice
    <2>3. PICK ab : ab = Put("u8", v1) \o Put("u64", v2)
      OBVIOUS
    <2>4. Moved(s, q, ab \o Put("u32", v3))
      BY <1>5, <2>1, <2>2, <2>3, MovedTwice
    <2> QED
      BY <1>12, <2>3, <2>4
  <1>14. q.data = s.data /\ part \in Seq(Byte)
    BY <1>13 DEF Moved
  <1>15. PICK ps : ps = Append(parts, part)
    OBVIOUS
  <1>16. Covers(q, 0, ps)
    BY <1>13, <1>15, CoversMore DEF OpsRead
  <1>17. PICK n \in Nat : n = 8 + 3 * i
    OBVIOUS
  <1>18. Len(s.got) = n
    BY <1>17 DEF OpsRead
  <1>19. Len(x.got) = n + 1 /\ x.got[n + 1] = v1 /\ \A j \in 1 .. n : x.got[j] = s.got[j]
    BY <1>7, <1>18 DEF Grew
  <1>20. Len(y.got) = n + 2 /\ y.got[n + 2] = v2 /\ \A j \in 1 .. n + 1 : y.got[j] = x.got[j]
    BY <1>9, <1>19 DEF Grew
  <1>21. Len(q.got) = n + 3 /\ q.got[n + 3] = v3 /\ \A j \in 1 .. n + 2 : q.got[j] = y.got[j]
    BY <1>11, <1>20 DEF Grew
  <1>22. q.got[n + 1] = v1 /\ q.got[n + 2] = v2 /\ \A j \in 1 .. n : q.got[j] = s.got[j]
    BY <1>19, <1>20, <1>21
  <1>23. Len(ps) = 8 + (i + 1) /\ ps[8 + (i + 1)] = part /\ \A j \in 1 .. 8 + i : ps[j] = parts[j]
    <2>1. PICK m \in Nat : m = 8 + i
      OBVIOUS
    <2>2. Len(parts) = m
      BY <2>1 DEF OpsRead
    <2>3. Len(ps) = m + 1 /\ ps[m + 1] = part /\ \A j \in 1 .. m : ps[j] = parts[j]
      BY <1>5, <1>14, <1>15, <2>2, AppendProperties
    <2> QED
      BY <2>1, <2>3
  <1>24. \A j \in 1 .. 8 : ps[j] = head[j] /\ q.got[j] = g[j]
    <2> SUFFICES ASSUME NEW j \in 1 .. 8 PROVE ps[j] = head[j] /\ q.got[j] = g[j]
      OBVIOUS
    <2>1. parts[j] = head[j] /\ s.got[j] = g[j]
      BY DEF OpsRead
    <2>2. j \in 1 .. n /\ j \in 1 .. 8 + i
      BY <1>17
    <2> QED
      BY <1>22, <1>23, <2>1, <2>2
  <1>25. ASSUME NEW k \in 1 .. i + 1 PROVE ps[8 + k] = OpPart(q.got, k)
    <2>1. CASE k = i + 1
      <3>1. 6 + 3 * k = n + 1 /\ 7 + 3 * k = n + 2 /\ 8 + 3 * k = n + 3
        BY <1>17, <2>1
      <3>2. OpPart(q.got, k) = part
        BY <1>12, <1>21, <1>22, <3>1 DEF OpPart
      <3> QED
        BY <1>23, <2>1, <3>2
    <2>2. CASE k \in 1 .. i
      <3>1. 6 + 3 * k \in 1 .. n /\ 7 + 3 * k \in 1 .. n /\ 8 + 3 * k \in 1 .. n
        BY <1>17, <2>2
      <3>2. OpPart(q.got, k) = OpPart(s.got, k)
        BY <1>22, <3>1 DEF OpPart
      <3>3. ps[8 + k] = parts[8 + k] /\ parts[8 + k] = OpPart(s.got, k)
        BY <1>23, <2>2 DEF OpsRead
      <3> QED
        BY <3>2, <3>3
    <2> QED
      BY <2>1, <2>2
  <1>26. Len(q.got) = 8 + 3 * (i + 1)
    BY <1>17, <1>21
  <1>27. OpsRead(q, i + 1, head, g, ps)
    BY <1>16, <1>23, <1>24, <1>25, <1>26 DEF OpsRead
  <1> QED
    BY <1>14, <1>27

\* All operations.
LEMMA OpsCover ==
    ASSUME NEW f, NEW n \in Nat, Last1(f) = n, NEW head, NEW g, OpsRead(f, 0, head, g, head), f.status = "ok",
           GetOps(f).status = "ok"
    PROVE  GetOps(f).data = f.data /\ \E ps : OpsRead(GetOps(f), n, head, g, ps)
  <1>1. OpsAreRead(f, n, GetOps(f))
    BY OpsTrace
  <1>2. PICK st : /\ st[0] = f /\ GetOps(f) = st[n]
                  /\ \A i \in 1 .. n : st[i] = Get(Get(Get(st[i - 1], "u8"), "u64"), "u32")
    BY <1>1 DEF OpsAreRead
  <1>4. \A i \in 0 .. n : st[i].status = "ok"
    <2> DEFINE S == {j \in Nat : j <= n => st[n - j].status = "ok"}
    <2>1. 0 \in S
      BY <1>2
    <2>2. ASSUME NEW j \in Nat, j \in S PROVE j + 1 \in S
      <3> SUFFICES ASSUME j + 1 <= n PROVE st[n - (j + 1)].status = "ok"
        OBVIOUS
      <3>1. PICK i \in 1 .. n : i = n - j /\ n - (j + 1) = i - 1
        OBVIOUS
      <3>2. st[i].status = "ok" /\ st[i] = Get(Get(Get(st[i - 1], "u8"), "u64"), "u32")
        BY <1>2, <2>2, <3>1
      <3>3. st[i - 1].status = "ok"
        BY <3>2 DEF Get
      <3> QED
        BY <3>1, <3>3
    <2>3. Nat \subseteq S
      <3> HIDE DEF S
      <3> QED
        BY <2>1, <2>2, Number!SetInduction
    <2> SUFFICES ASSUME NEW i \in 0 .. n PROVE st[i].status = "ok"
      OBVIOUS
    <2>4. n - i \in S /\ n - i <= n /\ n - (n - i) = i
      <3> HIDE DEF S
      <3> QED
        BY <2>3
    <2> QED
      BY <2>4
  <1> DEFINE At(i) == st[i].data = f.data /\ \E ps : OpsRead(st[i], i, head, g, ps)
  <1> DEFINE S == {i \in Nat : i <= n => At(i)}
  <1>5. 0 \in S
    BY <1>2
  <1>6. ASSUME NEW i \in Nat, i \in S PROVE i + 1 \in S
    <2> SUFFICES ASSUME i + 1 <= n PROVE At(i + 1)
      OBVIOUS
    <2>1. PICK ps : OpsRead(st[i], i, head, g, ps) /\ st[i].data = f.data
      BY <1>6
    <2>2. i + 1 \in 1 .. n /\ i + 1 \in 0 .. n /\ (i + 1) - 1 = i
      OBVIOUS
    <2>3. PICK q : q = st[i + 1]
      OBVIOUS
    <2>4. q = Get(Get(Get(st[i], "u8"), "u64"), "u32") /\ q.status = "ok"
      BY <1>2, <1>4, <2>2, <2>3
    <2>5. q.data = st[i].data /\ \E t : OpsRead(q, i + 1, head, g, t)
      BY <2>1, <2>4, OpsMore
    <2> QED
      BY <2>1, <2>3, <2>5
  <1>7. Nat \subseteq S
    <2> HIDE DEF S
    <2> QED
      BY <1>5, <1>6, Number!SetInduction
  <1>8. At(n)
    BY <1>7
  <1> QED
    BY <1>2, <1>8

\* A reader that failed stays failed over str().
LEMMA StrBack == ASSUME NEW r, Str(r).status = "ok" PROVE r.status = "ok"
  <1>1. PICK h : h = Get(r, "u64")
    OBVIOUS
  <1>2. Str(r) = Assigned(h)
    BY <1>1 DEF Str
  <1>3. h.status = "ok"
    BY <1>2 DEF Assigned, Counted
  <1> QED
    BY <1>1, <1>3 DEF Get

\* A function on the first numbers is a sequence.
LEMMA FunctionIsSeq ==
    ASSUME NEW S, NEW n \in Nat, NEW f, DOMAIN f = 1 .. n, f = [i \in DOMAIN f |-> f[i]],
           \A i \in 1 .. n : f[i] \in S
    PROVE f \in Seq(S) /\ Len(f) = n
  <1>1. f \in [1 .. n -> S]
    OBVIOUS
  <1>2. f \in Seq(S)
    BY <1>1, SeqDef
  <1> QED
    BY <1>2, LenProperties

\* The parts of a header with these values.
IsHead(h, g) ==
    /\ h \in Seq(Seq(Byte)) /\ Len(h) = 8 /\ Len(g) = 8
    /\ h[1] = Put("u32", 5) /\ h[2] = Put("u32", 1) /\ h[3] = PutString(g[3])
    /\ h[4] = Put("u64", g[4]) /\ h[5] = Put("u8", g[5]) /\ h[6] = Put("u32", g[6])
    /\ h[7] = PutString(g[7]) /\ h[8] = Put("u32", g[8]) /\ g[8] \in Nat

\* The fields before the operations: their values and the bytes they are written to.
LEMMA HeaderRead ==
    ASSUME NEW bytes \in Seq(Byte), Len(bytes) < SizeT,
           NEW k, k = DecodeHeader(bytes), k.status = "ok"
    PROVE  /\ k.data = bytes /\ Last1(k) = k.got[8] /\ k.got[8] \in Nat /\ Within(k)
           /\ \E head : OpsRead(k, 0, head, k.got, head) /\ IsHead(head, k.got)
  <1>a. PICK a : a = Get(Reader(bytes), "u32")
    OBVIOUS
  <1>b. PICK a1 : a1 = IF a.status = "ok" /\ ~(Last1(a) = 5) THEN Rejected(a) ELSE a
    OBVIOUS
  <1>c. PICK b : b = Get(a1, "u32")
    OBVIOUS
  <1>d. PICK b1 : b1 = IF b.status = "ok" /\ ~(Last1(b) = 1) THEN Rejected(b) ELSE b
    OBVIOUS
  <1>e. PICK c : c = Str(b1)
    OBVIOUS
  <1>f. PICK d, e, f : d = Get(c, "u64") /\ e = Get(d, "u8") /\ f = Get(e, "u32")
    OBVIOUS
  <1>g. PICK h : h = Str(f)
    OBVIOUS
  <1>h. k = Get(h, "u32")
    <2>1. f = GetAll(c, <<"u64", "u8", "u32">>)
      BY <1>f, GetAll3
    <2> QED
      BY <1>a, <1>b, <1>c, <1>d, <1>e, <1>g, <2>1 DEF DecodeHeader, Require
  <1>0. "u8" \in NumberKinds /\ "u64" \in NumberKinds /\ "u32" \in NumberKinds
    BY DEF NumberKinds
  <1>1. h.status = "ok"
    BY <1>h DEF Get
  <1>2. f.status = "ok"
    BY <1>1, <1>g, StrBack
  <1>3. e.status = "ok" /\ d.status = "ok" /\ c.status = "ok"
    BY <1>2, <1>f DEF Get
  <1>4. b1.status = "ok"
    BY <1>3, <1>e, StrBack
  <1>5. b.status = "ok" /\ a1.status = "ok" /\ a.status = "ok"
    BY <1>4, <1>b, <1>c, <1>d DEF Get
  <1>6. PICK r : r = Reader(bytes)
    OBVIOUS
  <1>7. Within(r) /\ Len(r.got) = 0 /\ r.data = bytes /\ r.pos = 0
    BY <1>6, StartWithin
  <1>8. PICK v1 \in Nat : Took(r, a, v1, Put("u32", v1))
    BY <1>0, <1>5, <1>6, <1>7, <1>a, GetTakes
  <1>9. Within(a) /\ Grew(r, a, v1) /\ Last1(a) = v1
    BY <1>7, <1>8, TookGot
  <1>10. a1 = a /\ v1 = 5
    BY <1>5, <1>9, <1>b, RejectedIs
  <1>11. PICK v2 \in Nat : Took(a, b, v2, Put("u32", v2))
    BY <1>0, <1>5, <1>9, <1>10, <1>c, GetTakes
  <1>12. Within(b) /\ Grew(a, b, v2) /\ Last1(b) = v2
    BY <1>9, <1>11, TookGot
  <1>13. b1 = b /\ v2 = 1
    BY <1>4, <1>5, <1>12, <1>d, RejectedIs
  <1>14. PICK v3 \in Seq(Byte) : Took(b, c, v3, PutString(v3))
    BY <1>3, <1>12, <1>13, <1>e, StrTakes
  <1>15. Within(c) /\ Grew(b, c, v3)
    BY <1>12, <1>14, TookGot
  <1>16. PICK v4 \in Nat : Took(c, d, v4, Put("u64", v4))
    BY <1>0, <1>3, <1>15, <1>f, GetTakes
  <1>17. Within(d) /\ Grew(c, d, v4)
    BY <1>15, <1>16, TookGot
  <1>18. PICK v5 \in Nat : Took(d, e, v5, Put("u8", v5))
    BY <1>0, <1>3, <1>17, <1>f, GetTakes
  <1>19. Within(e) /\ Grew(d, e, v5)
    BY <1>17, <1>18, TookGot
  <1>20. PICK v6 \in Nat : Took(e, f, v6, Put("u32", v6))
    BY <1>0, <1>2, <1>19, <1>f, GetTakes
  <1>21. Within(f) /\ Grew(e, f, v6)
    BY <1>19, <1>20, TookGot
  <1>22. PICK v7 \in Seq(Byte) : Took(f, h, v7, PutString(v7))
    BY <1>1, <1>21, <1>g, StrTakes
  <1>23. Within(h) /\ Grew(f, h, v7)
    BY <1>21, <1>22, TookGot
  <1>24. PICK v8 \in Nat : Took(h, k, v8, Put("u32", v8))
    BY <1>0, <1>23, <1>h, GetTakes
  <1>25. Within(k) /\ Grew(h, k, v8) /\ Last1(k) = v8
    BY <1>23, <1>24, TookGot
  <1>26. /\ Len(k.got) = 8 /\ k.got[3] = v3 /\ k.got[4] = v4 /\ k.got[5] = v5 /\ k.got[6] = v6
         /\ k.got[7] = v7 /\ k.got[8] = v8
    <2>1. Len(a.got) = 1 /\ Len(b.got) = 2
      BY <1>7, <1>9, <1>12 DEF Grew
    <2>2. Len(c.got) = 3 /\ c.got[3] = v3
      BY <1>15, <2>1 DEF Grew
    <2>3. Len(d.got) = 4 /\ d.got[4] = v4 /\ \A i \in 1 .. 3 : d.got[i] = c.got[i]
      BY <1>17, <2>2 DEF Grew
    <2>4. Len(e.got) = 5 /\ e.got[5] = v5 /\ \A i \in 1 .. 4 : e.got[i] = d.got[i]
      BY <1>19, <2>3 DEF Grew
    <2>5. Len(f.got) = 6 /\ f.got[6] = v6 /\ \A i \in 1 .. 5 : f.got[i] = e.got[i]
      BY <1>21, <2>4 DEF Grew
    <2>6. Len(h.got) = 7 /\ h.got[7] = v7 /\ \A i \in 1 .. 6 : h.got[i] = f.got[i]
      BY <1>23, <2>5 DEF Grew
    <2>7. Len(k.got) = 8 /\ k.got[8] = v8 /\ \A i \in 1 .. 7 : k.got[i] = h.got[i]
      BY <1>25, <2>6 DEF Grew
    <2>8. f.got[3] = v3 /\ f.got[4] = v4 /\ f.got[5] = v5
      BY <2>2, <2>3, <2>4, <2>5
    <2>9. k.got[3] = f.got[3] /\ k.got[4] = f.got[4] /\ k.got[5] = f.got[5] /\ k.got[6] = f.got[6]
      BY <2>6, <2>7
    <2>10. k.got[7] = v7
      BY <2>6, <2>7
    <2> QED
      BY <2>5, <2>7, <2>8, <2>9, <2>10
  <1>27. PICK x1, x2, x3, x4, x5, x6, x7, x8 :
           /\ x1 = Put("u32", v1) /\ x2 = Put("u32", v2) /\ x3 = PutString(v3) /\ x4 = Put("u64", v4)
           /\ x5 = Put("u8", v5) /\ x6 = Put("u32", v6) /\ x7 = PutString(v7) /\ x8 = Put("u32", v8)
    OBVIOUS
  <1>28. /\ Moved(r, a, x1) /\ Moved(a, b, x2) /\ Moved(b, c, x3) /\ Moved(c, d, x4) /\ Moved(d, e, x5)
         /\ Moved(e, f, x6) /\ Moved(f, h, x7) /\ Moved(h, k, x8)
    BY <1>8, <1>11, <1>14, <1>16, <1>18, <1>20, <1>22, <1>24, <1>27 DEF Took
  <1>29. Moved(r, c, x1 \o x2 \o x3)
    BY <1>7, <1>28, MovedTwice
  <1>30. Moved(r, e, x1 \o x2 \o x3 \o x4 \o x5)
    BY <1>7, <1>28, <1>29, MovedTwice
  <1>31. Moved(r, h, x1 \o x2 \o x3 \o x4 \o x5 \o x6 \o x7)
    BY <1>7, <1>28, <1>30, MovedTwice
  <1>32. Moved(r, k, x1 \o x2 \o x3 \o x4 \o x5 \o x6 \o x7 \o x8)
    BY <1>7, <1>28, <1>31, MovedTwice
  <1>33. PICK head : head = <<x1, x2, x3, x4, x5, x6, x7, x8>>
    OBVIOUS
  <1>34. /\ Len(head) = 8 /\ head[1] = x1 /\ head[2] = x2 /\ head[3] = x3 /\ head[4] = x4
         /\ head[5] = x5 /\ head[6] = x6 /\ head[7] = x7 /\ head[8] = x8
    BY <1>33
  <1>35. head \in Seq(Seq(Byte))
    <2>1. /\ x1 \in Seq(Byte) /\ x2 \in Seq(Byte) /\ x3 \in Seq(Byte) /\ x4 \in Seq(Byte)
          /\ x5 \in Seq(Byte) /\ x6 \in Seq(Byte) /\ x7 \in Seq(Byte) /\ x8 \in Seq(Byte)
      BY <1>28 DEF Moved
    <2> QED
      BY <1>33, <2>1
  <1>36. Concat(head) = Cut(k.data, 0, k.pos) /\ k.data = bytes /\ k.status = "ok" /\ 0 <= k.pos
    <2>1. Concat(head) = x1 \o x2 \o x3 \o x4 \o x5 \o x6 \o x7 \o x8
      BY <1>34, Concat8
    <2> QED
      BY <1>7, <1>32, <2>1 DEF Moved
  <1>37. Covers(k, 0, head)
    BY <1>25, <1>35, <1>36 DEF Covers
  <1>38. OpsRead(k, 0, head, k.got, head)
    BY <1>26, <1>34, <1>37 DEF OpsRead
  <1>39. IsHead(head, k.got)
    BY <1>10, <1>13, <1>26, <1>27, <1>34, <1>35 DEF IsHead
  <1> QED
    BY <1>25, <1>26, <1>36, <1>38, <1>39

\* An executable that decode() accepts is the bytes that its fields are written to.
LEMMA ExecutableExact ==
    ASSUME NEW bytes \in Seq(Byte), Len(bytes) < SizeT, Decode(bytes).status = "ok"
    PROVE  EncodeNumbers(Decode(bytes).value) = bytes
  <1>1. PICK k : k = DecodeHeader(bytes)
    OBVIOUS
  <1>7. PICK k1 : k1 = IF k.status = "ok" /\ ~(Last1(k) <= MaxCount) THEN Rejected(k) ELSE k
    OBVIOUS
  <1>8. PICK q : q = GetOps(k1)
    OBVIOUS
  <1>9. PICK t : t = IF q.status = "ok" /\ ~(~HasRemaining(q) /\ q.got[8] > 0) THEN Rejected(q) ELSE q
    OBVIOUS
  <1>10. Decode(bytes) = [status |-> t.status,
                                     value |-> IF t.status = "ok" THEN ProgramOf(t.got) ELSE <<>>]
    BY <1>1, <1>7, <1>8, <1>9 DEF Decode, Require, Result
  <1>11. t.status = "ok" /\ Decode(bytes).value = ProgramOf(t.got)
    BY <1>10
  <1>12. q.status = "ok"
    BY <1>9, <1>11
  <1>13. k1.status = "ok"
    BY <1>8, <1>12 DEF GetOps
  <1>14. k.status = "ok"
    BY <1>7, <1>13
  <1>15. /\ k.data = bytes /\ Last1(k) = k.got[8] /\ k.got[8] \in Nat /\ Within(k)
         /\ \E head : OpsRead(k, 0, head, k.got, head) /\ IsHead(head, k.got)
    BY <1>1, <1>14, HeaderRead
  <1>16. PICK head : OpsRead(k, 0, head, k.got, head) /\ IsHead(head, k.got)
    BY <1>15
  <1>17. k1 = k
    BY <1>7, <1>13, <1>14, <1>15, RejectedIs
  <1>18. PICK n \in Nat : n = k.got[8]
    BY <1>15
  <1>19. q.data = bytes /\ \E ps : OpsRead(q, n, head, k.got, ps)
    BY <1>8, <1>12, <1>14, <1>15, <1>16, <1>17, <1>18, OpsCover
  <1>20. PICK parts : OpsRead(q, n, head, k.got, parts)
    BY <1>19
  <1>21. ~HasRemaining(q) /\ t = q
    <2>1. Rejected(q).status = "rejected"
      BY <1>20, RejectedIs DEF OpsRead, Covers
    <2> QED
      BY <1>9, <1>11, <2>1
  <1>22. Concat(parts) = bytes
    BY <1>19, <1>20, <1>21, CoversAll DEF OpsRead
  <1>23. PICK g : g = q.got
    OBVIOUS
  <1>24. PICK p : p = ProgramOf(g)
    OBVIOUS
  <1>25. /\ p.name = g[3] /\ p.shapeN = g[4] /\ p.datatype = g[5] /\ p.alignment = g[6]
         /\ p.launchConfig = g[7]
         /\ p.ops = [i \in 1 .. g[8] |-> [kind |-> g[6 + 3 * i], scalar |-> g[7 + 3 * i], n |-> g[8 + 3 * i]]]
    BY <1>24 DEF ProgramOf
  <1>26. /\ g[3] = k.got[3] /\ g[4] = k.got[4] /\ g[5] = k.got[5] /\ g[6] = k.got[6] /\ g[7] = k.got[7]
         /\ g[8] = n
    <2>1. \A j \in 1 .. 8 : g[j] = k.got[j]
      BY <1>20, <1>23 DEF OpsRead
    <2> QED
      BY <1>18, <2>1
  <1>27. DOMAIN p.ops = 1 .. n /\ Len(p.ops) = n
    BY <1>25, <1>26
  <1> DEFINE ops == [i \in DOMAIN p.ops |-> Put("u8", p.ops[i].kind)
               \o Put("u64", p.ops[i].scalar) \o Put("u32", p.ops[i].n)]
  <1>28. DOMAIN ops = 1 .. n /\ \A i \in 1 .. n : ops[i] = OpPart(g, i)
    <2>1. DOMAIN ops = 1 .. n
      BY <1>27
    <2>2. ASSUME NEW i \in 1 .. n PROVE ops[i] = OpPart(g, i)
      <3>1. PICK o : o = p.ops[i]
        OBVIOUS
      <3>2. o.kind = g[6 + 3 * i] /\ o.scalar = g[7 + 3 * i] /\ o.n = g[8 + 3 * i]
        BY <1>25, <1>26, <3>1
      <3>3. ops[i] = Put("u8", o.kind) \o Put("u64", o.scalar) \o Put("u32", o.n)
        BY <1>27, <3>1
      <3> QED
        BY <3>2, <3>3 DEF OpPart
    <2> QED
      BY <2>1, <2>2
  <1>29. EncodeNumbers(p) = Concat(<<Put("u32", 5), Put("u32", 1), PutString(p.name), Put("u64", p.shapeN),
             Put("u8", p.datatype), Put("u32", p.alignment), PutString(p.launchConfig),
             Put("u32", Len(p.ops))>> \o ops)
    BY DEF EncodeNumbers
  <1> HIDE DEF ops
  <1>30. PICK top : top = <<Put("u32", 5), Put("u32", 1), PutString(p.name), Put("u64", p.shapeN),
             Put("u8", p.datatype), Put("u32", p.alignment), PutString(p.launchConfig),
             Put("u32", Len(p.ops))>>
    OBVIOUS
  <1>31. /\ Len(top) = 8 /\ top[1] = Put("u32", 5) /\ top[2] = Put("u32", 1)
         /\ top[3] = PutString(k.got[3]) /\ top[4] = Put("u64", k.got[4])
         /\ top[5] = Put("u8", k.got[5]) /\ top[6] = Put("u32", k.got[6])
         /\ top[7] = PutString(k.got[7]) /\ top[8] = Put("u32", k.got[8])
    BY <1>18, <1>25, <1>26, <1>27, <1>30
  <1>32. \A j \in 1 .. 8 : top[j] = parts[j]
    <2>1. \A j \in 1 .. 8 : parts[j] = head[j]
      BY <1>20 DEF OpsRead
    <2>2. /\ head[1] = top[1] /\ head[2] = top[2] /\ head[3] = top[3] /\ head[4] = top[4]
          /\ head[5] = top[5] /\ head[6] = top[6] /\ head[7] = top[7] /\ head[8] = top[8]
      BY <1>16, <1>31 DEF IsHead
    <2> SUFFICES ASSUME NEW j \in 1 .. 8 PROVE top[j] = head[j]
      BY <2>1
    <2>3. j = 1 \/ j = 2 \/ j = 3 \/ j = 4 \/ j = 5 \/ j = 6 \/ j = 7 \/ j = 8
      OBVIOUS
    <2> QED
      BY <2>2, <2>3
  <1>33. top \o ops = parts
    <2>1. parts \in Seq(Seq(Byte)) /\ Len(parts) = 8 + n /\ \A i \in 1 .. n : parts[8 + i] = OpPart(g, i)
      BY <1>20, <1>23 DEF OpsRead, Covers
    <2>2. \A j \in 1 .. 8 : parts[j] \in Seq(Byte)
      BY <2>1
    <2>3. DOMAIN top = 1 .. 8 /\ top = [j \in DOMAIN top |-> top[j]]
      BY <1>30
    <2>4. top \in Seq(Seq(Byte))
      <3>1. \A j \in 1 .. 8 : top[j] \in Seq(Byte)
        BY <1>32, <2>2
      <3>2. 8 \in Nat
        OBVIOUS
      <3> QED
        BY <2>3, <3>1, <3>2, FunctionIsSeq
    <2>5. ops = [i \in DOMAIN ops |-> ops[i]]
      BY DEF ops
    <2>6. \A i \in 1 .. n : ops[i] \in Seq(Byte)
      BY <1>28, <2>1
    <2>7. ops \in Seq(Seq(Byte)) /\ Len(ops) = n
      BY <1>28, <2>5, <2>6
    <2>8. PICK w \in Seq(Seq(Byte)) : w = top \o ops
      BY <2>4, <2>7, ConcatProperties
    <2>9. /\ Len(w) = 8 + n
          /\ \A i \in 1 .. Len(top) + Len(ops) : w[i] = IF i <= Len(top) THEN top[i] ELSE ops[i - Len(top)]
      <3>1. PICK m \in Nat : m = Len(top)
        BY <1>31
      <3>2. /\ Len(top \o ops) = Len(top) + Len(ops)
            /\ \A i \in 1 .. Len(top) + Len(ops) :
                  (top \o ops)[i] = IF i <= Len(top) THEN top[i] ELSE ops[i - Len(top)]
        BY <2>4, <2>7, ConcatProperties, Zenon
      <3> QED
        BY <1>31, <2>7, <2>8, <3>2
    <2>10. ASSUME NEW i \in 1 .. 8 + n PROVE w[i] = parts[i]
      <3>1. CASE i <= 8
        <4>1. i \in 1 .. 8
          BY <3>1
        <4> QED
          BY <1>31, <1>32, <2>7, <2>9, <3>1, <4>1
      <3>2. CASE i > 8
        <4>1. PICK j \in 1 .. n : i = 8 + j
          <5>1. i - 8 \in 1 .. n /\ i = 8 + (i - 8)
            BY <3>2
          <5> QED
            BY <5>1
        <4>2. w[i] = ops[j]
          BY <1>31, <2>7, <2>9, <3>2, <4>1
        <4> QED
          BY <1>28, <2>1, <4>1, <4>2
      <3> QED
        BY <3>1, <3>2
    <2> QED
      BY <2>1, <2>8, <2>9, <2>10, SeqEqual
  <1>34. EncodeNumbers(p) = bytes
    BY <1>22, <1>29, <1>30, <1>33
  <1> QED
    BY <1>11, <1>21, <1>23, <1>24, <1>34

\* One field more.
ParseIn(c, s, i) == ParseField(s, i)
Fields == INSTANCE FoldFacts WITH Op <- ParseIn, Mx <- Max

\* out is r after reading n fields in turn.
FieldsAreRead(r, n, out) ==
    \E st : /\ st[0] = r
            /\ \A i \in 1 .. n : st[i] = ParseField(st[i - 1], i)
            /\ out = st[n]

\* The fields of a key are read one at a time.
LEMMA FieldsTrace ==
    ASSUME NEW r, NEW n \in Nat, Last1(r) = n, r.status = "ok"
    PROVE  FieldsAreRead(Drop(r), n, ParseFields(r))
  <1> DEFINE s == [i \in 1 .. n |-> i]
  <1> DEFINE g == CHOOSE g : Fields!IsTable(0, Drop(r), s, n, g)
  <1>0. Fields!MxIsMax
    BY Zenon DEF Fields!MxIsMax, Max
  <1>1. ParseFields(r) = g[DOMAIN s]
    BY DEF ParseFields, FoldLeft, MapThenFoldSet, Fields!IsTable, Fields!Table, ParseIn
  <1>2. DOMAIN s = 1 .. n /\ \A i \in 1 .. n : s[i] = i
    OBVIOUS
  <1> HIDE DEF s
  <1>3. \E h : Fields!IsTable(0, Drop(r), s, n, h)
    BY <1>0, Fields!TableExists
  <1>4. Fields!IsTable(0, Drop(r), s, n, g)
    BY <1>3
  <1> HIDE DEF g
  <1>5. Fields!Trace(0, Drop(r), s, n, g[1 .. n])
    BY <1>0, <1>4, Fields!TableTrace
  <1>6. PICK st : /\ st[0] = Drop(r) /\ ParseFields(r) = st[n]
                  /\ \A i \in 1 .. n : st[i] = ParseField(st[i - 1], s[i])
    BY <1>1, <1>2, <1>5 DEF Fields!Trace, ParseIn
  <1>7. \A i \in 1 .. n : st[i] = ParseField(st[i - 1], i)
    BY <1>2, <1>6
  <1> QED
    BY <1>6, <1>7 DEF FieldsAreRead

\* One field: a tag that was not there before and a value, all of it present.
TagNew(got, tag) == \A j \in 1 .. Len(got) : got[j][1] # tag
FieldTaken(s, q) == \E tag \in Nat, val \in Seq(Byte) :
    /\ Took(s, q, <<tag, val>>, Put("u8", tag) \o PutString(val))
    /\ TagNew(s.got, tag)

\* The last two of the values read, and those before them.
LEMMA TwoOff ==
    ASSUME NEW g \in Seq(Item), NEW a \in Item, NEW b \in Item
    PROVE  /\ SubSeq(Append(Append(g, a), b), 1, Len(Append(Append(g, a), b)) - 2) = g
           /\ Append(Append(g, a), b)[Len(Append(Append(g, a), b)) - 1] = a
  <1>1. PICK m \in Seq(Item) : m = Append(g, a)
    BY AppendProperties
  <1>2. PICK n \in Nat : n = Len(g)
    OBVIOUS
  <1>3. Len(m) = n + 1 /\ m[n + 1] = a /\ \A i \in 1 .. n : m[i] = g[i]
    BY <1>1, <1>2, AppendProperties
  <1>4. PICK h \in Seq(Item) : h = Append(m, b)
    BY AppendProperties
  <1>5. h \in Seq(Item) /\ Len(h) = Len(m) + 1 /\ \A i \in 1 .. Len(m) : h[i] = m[i]
    BY <1>4, AppendProperties
  <1>6. Len(h) = n + 2 /\ h[n + 1] = a /\ \A i \in 1 .. n : h[i] = g[i]
    BY <1>3, <1>5
  <1>7. SubSeq(h, 1, n) = g
    <2>1. \A i \in 1 .. n : h[i] \in Item
      BY <1>5, <1>6
    <2>2. /\ SubSeq(h, 1, n) \in Seq(Item)
          /\ Len(SubSeq(h, 1, n)) = IF 1 <= n THEN n - 1 + 1 ELSE 0
          /\ \A i \in 1 .. n - 1 + 1 : SubSeq(h, 1, n)[i] = h[1 + i - 1]
      BY <2>1, SubSeqProperties
    <2>3. PICK b1 \in Seq(Item) : b1 = SubSeq(h, 1, n)
      BY <2>2
    <2>4. Len(b1) = n /\ \A i \in 1 .. n : b1[i] = g[i]
      BY <1>6, <2>2, <2>3
    <2> QED
      BY <1>2, <2>3, <2>4, SeqEqual
  <1>8. Len(h) - 2 = n /\ Len(h) - 1 = n + 1
    BY <1>6
  <1> QED
    BY <1>1, <1>4, <1>6, <1>7, <1>8

\* parseField() that succeeds has read a tag it had not met and a value.
LEMMA FieldTakes ==
    ASSUME NEW s, Within(s), NEW i, NEW q, q = ParseField(s, i), q.status = "ok"
    PROVE  FieldTaken(s, q)
  <1>0. "u8" \in NumberKinds /\ "u64" \in NumberKinds
    BY DEF NumberKinds
  <1>1. PICK x : x = Get(s, "u8")
    OBVIOUS
  <1>2. PICK x1 : x1 = IF x.status = "ok" /\ ~NewTag(x) THEN Rejected(x) ELSE x
    OBVIOUS
  <1>3. PICK y : y = Get(x1, "u64")
    OBVIOUS
  <1>4. PICK y1 : y1 = IF y.status = "ok" /\ ~(Last1(y) <= Remaining(y)) THEN Rejected(y) ELSE y
    OBVIOUS
  <1>5. q = TakeValue(y1)
    BY <1>1, <1>2, <1>3, <1>4 DEF ParseField, Require
  <1>6. y1.status = "ok"
    BY <1>5 DEF TakeValue
  <1>7. y.status = "ok" /\ x1.status = "ok" /\ x.status = "ok"
    BY <1>2, <1>3, <1>4, <1>6 DEF Get
  <1>8. PICK tag \in Nat : Took(s, x, tag, Put("u8", tag))
    BY <1>0, <1>1, <1>7, GetTakes
  <1>9. Within(x) /\ Grew(s, x, tag) /\ Last1(x) = tag
    BY <1>8, TookGot
  <1>10. x1 = x /\ NewTag(x)
    BY <1>2, <1>7, <1>9, RejectedIs
  <1>11. PICK len \in Nat : Took(x, y, len, Put("u64", len))
    BY <1>0, <1>3, <1>7, <1>9, <1>10, GetTakes
  <1>12. Within(y) /\ Grew(x, y, len) /\ Last1(y) = len
    BY <1>9, <1>11, TookGot
  <1>13. y1 = y /\ len <= Remaining(y)
    BY <1>4, <1>6, <1>7, <1>12, RejectedIs
  <1>14. /\ y.data = s.data /\ y.pos \in Nat /\ y.data \in Seq(Byte) /\ Len(y.data) \in Nat
         /\ y.pos <= Len(y.data) /\ Len(y.data) < SizeT /\ y \in Readers
         /\ s.got \in Seq(Item) /\ s.data \in Seq(Byte)
    BY <1>8, <1>11, <1>12 DEF Took, Moved, Within, Readers
  <1>15. PICK p \in Nat : p = y.pos + len
    BY <1>14
  <1>16. p <= Len(y.data) /\ y.pos <= p
    BY <1>13, <1>14, <1>15 DEF Remaining
  <1>17. PICK val : val = Cut(y.data, y.pos, p)
    OBVIOUS
  <1>18. View(y, len) = val
    <2>1. ~(len > Remaining(y))
      BY <1>13, <1>14 DEF Remaining
    <2> QED
      BY <1>15, <1>17, <2>1 DEF View, Cut
  <1>19. val \in Seq(Byte) /\ Len(val) = len
    <2>1. val \in Seq(Byte) /\ Len(val) = p - y.pos
      BY <1>14, <1>16, <1>17, CutIn
    <2> QED
      BY <1>14, <1>15, <2>1
  <1>20. PICK pair : pair = <<tag, val>>
    OBVIOUS
  <1>21. pair \in Item
    <2>1. val \in Seq(Nat)
      BY <1>19, CanonicalAssumption, SeqMonotonic DEF Byte
    <2> QED
      BY <1>20, <2>1 DEF Item
  <1>22. y.got = Append(Append(s.got, tag), len) /\ tag \in Item /\ len \in Item
    BY <1>8, <1>11 DEF Took
  <1>23. SubSeq(y.got, 1, Len(y.got) - 2) = s.got /\ y.got[Len(y.got) - 1] = tag
    BY <1>14, <1>22, TwoOff
  <1>24. PICK g \in Seq(Item) : g = Append(s.got, pair)
    BY <1>14, <1>21, AppendProperties
  <1>25. q = [y EXCEPT !.pos = p, !.got = g]
    <2>1. q = [y EXCEPT !.pos = y.pos + Last1(y),
                        !.got = Append(SubSeq(y.got, 1, Len(y.got) - 2),
                                       <<y.got[Len(y.got) - 1], View(y, Last1(y))>>)]
      BY <1>5, <1>7, <1>13 DEF TakeValue
    <2> QED
      BY <1>12, <1>15, <1>18, <1>20, <1>23, <1>24, <2>1
  <1>26. q \in Readers /\ q.data = y.data /\ q.status = "ok" /\ q.pos = p /\ q.got = g
    BY <1>7, <1>14, <1>25 DEF Readers
  <1>27. Moved(y, q, val)
    BY <1>7, <1>14, <1>16, <1>17, <1>19, <1>26 DEF Moved, Within
  <1>28. Moved(x, q, PutString(val))
    <2>1. Moved(x, y, Put("u64", len))
      BY <1>11 DEF Took
    <2>2. PutString(val) = Put("u64", len) \o val
      BY <1>19 DEF PutString
    <2> QED
      BY <1>9, <1>27, <2>1, <2>2, MovedTwice
  <1>29. Moved(s, q, Put("u8", tag) \o PutString(val))
    <2>1. Moved(s, x, Put("u8", tag))
      BY <1>8 DEF Took
    <2> QED
      BY <1>28, <2>1, MovedTwice
  <1>30. Took(s, q, <<tag, val>>, Put("u8", tag) \o PutString(val))
    BY <1>20, <1>21, <1>24, <1>26, <1>29 DEF Took
  <1>31. TagNew(s.got, tag)
    <2> SUFFICES ASSUME NEW j \in 1 .. Len(s.got) PROVE s.got[j][1] # tag
      BY DEF TagNew
    <2>1. x.got[j] = s.got[j] /\ Len(x.got) - 1 = Len(s.got)
      BY <1>9, <1>14 DEF Grew
    <2>2. tag \notin {x.got[k][1] : k \in 1 .. Len(x.got) - 1}
      BY <1>9, <1>10 DEF NewTag
    <2> QED
      BY <2>1, <2>2
  <1> QED
    BY <1>19, <1>30, <1>31 DEF FieldTaken

\* A reader that failed stays failed over a field.
LEMMA ParseBack == ASSUME NEW s, NEW i, ParseField(s, i).status = "ok" PROVE s.status = "ok"
  <1>1. PICK x : x = Get(s, "u8")
    OBVIOUS
  <1>2. PICK x1 : x1 = IF x.status = "ok" /\ ~NewTag(x) THEN Rejected(x) ELSE x
    OBVIOUS
  <1>3. PICK y : y = Get(x1, "u64")
    OBVIOUS
  <1>4. PICK y1 : y1 = IF y.status = "ok" /\ ~(Last1(y) <= Remaining(y)) THEN Rejected(y) ELSE y
    OBVIOUS
  <1>5. ParseField(s, i) = TakeValue(y1)
    BY <1>1, <1>2, <1>3, <1>4 DEF ParseField, Require
  <1>6. y1.status = "ok"
    BY <1>5 DEF TakeValue
  <1>7. y.status = "ok" /\ x1.status = "ok" /\ x.status = "ok"
    BY <1>2, <1>3, <1>4, <1>6 DEF Get
  <1> QED
    BY <1>1, <1>7 DEF Get

\* The bytes of a field; after i fields, the first of them at from, the tags differ.
FieldPart(f) == Put("u8", f[1]) \o PutString(f[2])
FieldsRead(s, i, from, parts) ==
    /\ Covers(s, from, parts) /\ Len(parts) = i /\ Len(s.got) = i
    /\ \A k \in 1 .. i : parts[k] = FieldPart(s.got[k])
    /\ \A j, k \in 1 .. i : j # k => s.got[j][1] # s.got[k][1]

\* One field more.
LEMMA FieldsMore ==
    ASSUME NEW s, NEW i \in Nat, NEW from, NEW parts, FieldsRead(s, i, from, parts),
           NEW q, FieldTaken(s, q)
    PROVE  q.data = s.data /\ \E ps : FieldsRead(q, i + 1, from, ps)
  <1>1. Within(s) /\ parts \in Seq(Seq(Byte)) /\ Covers(s, from, parts)
    BY DEF FieldsRead, Covers
  <1>2. PICK tag \in Nat, val \in Seq(Byte) :
          Took(s, q, <<tag, val>>, Put("u8", tag) \o PutString(val)) /\ TagNew(s.got, tag)
    BY DEF FieldTaken
  <1>3. PICK f : f = <<tag, val>>
    OBVIOUS
  <1>4. f[1] = tag /\ f[2] = val
    BY <1>3
  <1>5. PICK part : part = FieldPart(f)
    OBVIOUS
  <1>6. Took(s, q, f, part)
    BY <1>2, <1>3, <1>4, <1>5 DEF FieldPart
  <1>7. Moved(s, q, part) /\ part \in Seq(Byte) /\ q.data = s.data
    BY <1>6 DEF Took, Moved
  <1>8. Grew(s, q, f)
    BY <1>1, <1>6, TookGot
  <1>9. PICK ps : ps = Append(parts, part)
    OBVIOUS
  <1>10. Covers(q, from, ps)
    BY <1>1, <1>7, <1>9, CoversMore
  <1>11. Len(parts) = i /\ Len(s.got) = i
    BY DEF FieldsRead
  <1>12. Len(ps) = i + 1 /\ ps[i + 1] = part /\ \A j \in 1 .. i : ps[j] = parts[j]
    BY <1>1, <1>7, <1>9, <1>11, AppendProperties
  <1>13. Len(q.got) = i + 1 /\ q.got[i + 1] = f /\ \A j \in 1 .. i : q.got[j] = s.got[j]
    BY <1>8, <1>11 DEF Grew
  <1>14. ASSUME NEW k \in 1 .. i + 1 PROVE ps[k] = FieldPart(q.got[k])
    <2>1. CASE k = i + 1
      BY <1>5, <1>12, <1>13, <2>1
    <2>2. CASE k \in 1 .. i
      <3>1. parts[k] = FieldPart(s.got[k])
        BY <2>2 DEF FieldsRead
      <3> QED
        BY <1>12, <1>13, <2>2, <3>1
    <2> QED
      BY <2>1, <2>2
  <1>15. \A j \in 1 .. i : s.got[j][1] # tag
    BY <1>2, <1>11 DEF TagNew
  <1>16. ASSUME NEW j \in 1 .. i + 1, NEW k \in 1 .. i + 1, j # k PROVE q.got[j][1] # q.got[k][1]
    <2>1. CASE j = i + 1
      <3>1. k \in 1 .. i
        BY <1>16, <2>1
      <3> QED
        BY <1>4, <1>13, <1>15, <2>1, <3>1
    <2>2. CASE k = i + 1
      <3>1. j \in 1 .. i
        BY <1>16, <2>2
      <3> QED
        BY <1>4, <1>13, <1>15, <2>2, <3>1
    <2>3. CASE j \in 1 .. i /\ k \in 1 .. i
      <3>1. s.got[j][1] # s.got[k][1]
        BY <1>16, <2>3 DEF FieldsRead
      <3> QED
        BY <1>13, <2>3, <3>1
    <2> QED
      BY <2>1, <2>2, <2>3
  <1>17. FieldsRead(q, i + 1, from, ps)
    BY <1>10, <1>12, <1>13, <1>14, <1>16 DEF FieldsRead
  <1> QED
    BY <1>7, <1>17

\* All fields, each tag once.
LEMMA FieldsCover ==
    ASSUME NEW r, NEW n \in Nat, NEW from, FieldsRead(r, 0, from, <<>>),
           NEW out, FieldsAreRead(r, n, out), out.status = "ok"
    PROVE  out.data = r.data /\ \E ps : FieldsRead(out, n, from, ps)
  <1>2. PICK st : /\ st[0] = r /\ out = st[n]
                  /\ \A i \in 1 .. n : st[i] = ParseField(st[i - 1], i)
    BY DEF FieldsAreRead
  <1>4. \A i \in 0 .. n : st[i].status = "ok"
    <2> DEFINE S == {j \in Nat : j <= n => st[n - j].status = "ok"}
    <2>1. 0 \in S
      BY <1>2
    <2>2. ASSUME NEW j \in Nat, j \in S PROVE j + 1 \in S
      <3> SUFFICES ASSUME j + 1 <= n PROVE st[n - (j + 1)].status = "ok"
        OBVIOUS
      <3>1. PICK i \in 1 .. n : i = n - j /\ n - (j + 1) = i - 1
        OBVIOUS
      <3>2. st[i].status = "ok" /\ st[i] = ParseField(st[i - 1], i)
        BY <1>2, <2>2, <3>1
      <3>3. st[i - 1].status = "ok"
        BY <3>2, ParseBack
      <3> QED
        BY <3>1, <3>3
    <2>3. Nat \subseteq S
      <3> HIDE DEF S
      <3> QED
        BY <2>1, <2>2, Number!SetInduction
    <2> SUFFICES ASSUME NEW i \in 0 .. n PROVE st[i].status = "ok"
      OBVIOUS
    <2>4. n - i \in S /\ n - i <= n /\ n - (n - i) = i
      <3> HIDE DEF S
      <3> QED
        BY <2>3
    <2> QED
      BY <2>4
  <1> DEFINE At(i) == st[i].data = r.data /\ \E ps : FieldsRead(st[i], i, from, ps)
  <1> DEFINE S == {i \in Nat : i <= n => At(i)}
  <1>5. 0 \in S
    BY <1>2
  <1>6. ASSUME NEW i \in Nat, i \in S PROVE i + 1 \in S
    <2> SUFFICES ASSUME i + 1 <= n PROVE At(i + 1)
      OBVIOUS
    <2>1. PICK ps : FieldsRead(st[i], i, from, ps) /\ st[i].data = r.data
      BY <1>6
    <2>2. i + 1 \in 1 .. n /\ i + 1 \in 0 .. n /\ (i + 1) - 1 = i
      OBVIOUS
    <2>3. PICK q : q = st[i + 1]
      OBVIOUS
    <2>4. q = ParseField(st[i], i + 1) /\ q.status = "ok"
      BY <1>2, <1>4, <2>2, <2>3
    <2>5. Within(st[i])
      BY <2>1 DEF FieldsRead, Covers
    <2>6. FieldTaken(st[i], q)
      BY <2>4, <2>5, FieldTakes
    <2>7. q.data = st[i].data /\ \E t : FieldsRead(q, i + 1, from, t)
      BY <2>1, <2>6, FieldsMore
    <2> QED
      BY <2>1, <2>3, <2>7
  <1>7. Nat \subseteq S
    <2> HIDE DEF S
    <2> QED
      BY <1>5, <1>6, Number!SetInduction
  <1>8. At(n)
    BY <1>7
  <1> QED
    BY <1>2, <1>8

\* The tags, in the order they were read.
TagsOf(g) == [k \in 1 .. Len(g) |-> g[k][1]]
Distinct(g) == \A j, k \in 1 .. Len(g) : j # k => g[j][1] # g[k][1]

\* The fields of a key, in the order they were read, each of them once.
LEMMA KeyOfFields ==
    ASSUME NEW S, NEW g \in Seq(S), Distinct(g)
    PROVE  /\ TagsOf(g) \in SetToSeqs(DOMAIN KeyOf(g))
           /\ \A k \in 1 .. Len(g) : KeyOf(g)[g[k][1]] = g[k][2]
  <1>1. PICK n \in Nat : n = Len(g)
    OBVIOUS
  <1>2. DOMAIN g = 1 .. n
    BY <1>1
  <1>3. PICK T : T = {f[1] : f \in ToSet(g)}
    OBVIOUS
  <1>4. T = {g[k][1] : k \in 1 .. n}
    BY <1>2, <1>3 DEF ToSet
  <1>5. KeyOf(g) = [t \in T |-> (CHOOSE f \in ToSet(g) : f[1] = t)[2]]
    BY <1>3 DEF KeyOf
  <1>6. DOMAIN KeyOf(g) = T
    BY <1>5
  <1>7. PICK w : w = TagsOf(g)
    OBVIOUS
  <1>8. w \in [1 .. n -> T] /\ \A k \in 1 .. n : w[k] = g[k][1]
    BY <1>1, <1>4, <1>7 DEF TagsOf
  <1>9. \A j, k \in 1 .. n : j # k => w[j] # w[k]
    BY <1>1, <1>8 DEF Distinct
  <1>10. Cardinality(T) = n
    <2>1. w \in Injection(1 .. n, T)
      BY <1>8, <1>9 DEF Injection, IsInjective
    <2>2. w \in Surjection(1 .. n, T)
      BY <1>4, <1>8 DEF Surjection
    <2>3. ExistsBijection(1 .. n, T)
      BY <2>1, <2>2 DEF ExistsBijection, Bijection
    <2> QED
      BY <2>3, FS_CountingElements
  <1>11. w \in SetToSeqs(T)
    BY <1>8, <1>9, <1>10 DEF SetToSeqs
  <1>12. ASSUME NEW k \in 1 .. n PROVE KeyOf(g)[g[k][1]] = g[k][2]
    <2>1. g[k] \in ToSet(g) /\ g[k][1] \in T
      BY <1>2, <1>4 DEF ToSet
    <2>2. ASSUME NEW f \in ToSet(g), f[1] = g[k][1] PROVE f = g[k]
      <3>1. PICK j \in 1 .. n : f = g[j]
        BY <1>2 DEF ToSet
      <3> QED
        BY <1>1, <2>2, <3>1 DEF Distinct
    <2>3. PICK c : c = CHOOSE f \in ToSet(g) : f[1] = g[k][1]
      OBVIOUS
    <2>4. c = g[k]
      <3>1. c \in ToSet(g) /\ c[1] = g[k][1]
        BY <2>1, <2>3
      <3> QED
        BY <2>2, <3>1
    <2>5. KeyOf(g)[g[k][1]] = c[2]
      BY <1>5, <2>1, <2>3
    <2> QED
      BY <2>4, <2>5
  <1> QED
    BY <1>1, <1>6, <1>7, <1>11, <1>12

\* A key that fromCanonicalBytes() accepts was written from its own fields in some order.
LEMMA KeyExact ==
    ASSUME NEW bytes \in Seq(Byte), Len(bytes) < SizeT, FromCanonicalBytes(bytes).status = "ok"
    PROVE  \E tags \in SetToSeqs(DOMAIN FromCanonicalBytes(bytes).value) :
              bytes = FieldsInOrder(FromCanonicalBytes(bytes).value, tags)
  <1>0. "u32" \in NumberKinds
    BY DEF NumberKinds
  <1>1. PICK r : r = Reader(bytes)
    OBVIOUS
  <1>2. PICK a : a = Get(r, "u32")
    OBVIOUS
  <1>3. PICK a1 : a1 = IF a.status = "ok" /\ ~(Last1(a) <= MaxCount) THEN Rejected(a) ELSE a
    OBVIOUS
  <1>4. PICK q : q = ParseFields(a1)
    OBVIOUS
  <1>5. PICK t : t = IF q.status = "ok" /\ ~(~HasRemaining(q)) THEN Rejected(q) ELSE q
    OBVIOUS
  <1>6. FromCanonicalBytes(bytes) = [status |-> t.status,
                                     value |-> IF t.status = "ok" THEN KeyOf(t.got) ELSE <<>>]
    BY <1>1, <1>2, <1>3, <1>4, <1>5 DEF FromCanonicalBytes, Require, AtEnd, Result
  <1>7. t.status = "ok" /\ FromCanonicalBytes(bytes).value = KeyOf(t.got)
    BY <1>6
  <1>8. q.status = "ok"
    BY <1>5, <1>7
  <1>9. a1.status = "ok"
    BY <1>4, <1>8 DEF ParseFields
  <1>10. a.status = "ok"
    BY <1>3, <1>9
  <1>11. Within(r) /\ r.data = bytes /\ r.pos = 0 /\ r.got = <<>> /\ Len(r.got) = 0
    BY <1>1, StartWithin
  <1>12. PICK n \in Nat : Took(r, a, n, Put("u32", n))
    BY <1>0, <1>2, <1>10, <1>11, GetTakes
  <1>13. Within(a) /\ Last1(a) = n
    BY <1>11, <1>12, TookGot
  <1>14. a1 = a
    BY <1>3, <1>9, <1>10, <1>13, RejectedIs
  <1>15. PICK z : z = Drop(a)
    OBVIOUS
  <1>16. Within(z) /\ z.pos = a.pos /\ z.data = bytes /\ z.status = "ok" /\ Len(z.got) = 0
    <2>1. Moved(r, a, Put("u32", n)) /\ a.got = Append(r.got, n)
      BY <1>12 DEF Took
    <2>2. /\ Last1(a) = n /\ Within(Drop(a)) /\ Drop(a).pos = a.pos /\ Drop(a).data = r.data
          /\ Drop(a).status = "ok" /\ Drop(a).got = r.got
      <3>1. Within(r)
        BY <1>11
      <3>2. n \in Nat
        OBVIOUS
      <3> QED
        BY <2>1, <3>1, <3>2, DropIs, Zenon
    <2> QED
      BY <1>11, <1>15, <2>2
  <1>17. PICK from \in Nat : from = z.pos
    BY <1>16 DEF Within, Readers
  <1>18. FieldsRead(z, 0, from, <<>>)
    <2>1. Covers(z, from, <<>>)
      BY <1>16, <1>17, CoversNothing
    <2> QED
      BY <1>16, <2>1 DEF FieldsRead
  <1>19. FieldsAreRead(z, n, q)
    BY <1>4, <1>10, <1>13, <1>14, <1>15, FieldsTrace
  <1>20. q.data = bytes /\ \E ps : FieldsRead(q, n, from, ps)
    BY <1>8, <1>16, <1>18, <1>19, FieldsCover
  <1>21. PICK parts : FieldsRead(q, n, from, parts)
    BY <1>20
  <1>22. Covers(q, from, parts) /\ Within(q)
    BY <1>21 DEF FieldsRead, Covers
  <1>23. ~HasRemaining(q) /\ t = q
    <2>1. Rejected(q).status = "rejected"
      BY <1>22, RejectedIs
    <2> QED
      BY <1>5, <1>7, <2>1
  <1>24. q.pos = Len(bytes) /\ from <= Len(bytes) /\ Len(bytes) \in Nat
    BY <1>20, <1>22, <1>23 DEF Covers, Within, Readers, HasRemaining
  <1>25. Put("u32", n) = Cut(bytes, 0, from)
    BY <1>11, <1>12, <1>16, <1>17 DEF Took, Moved
  <1>26. Concat(parts) = Cut(bytes, from, Len(bytes))
    BY <1>20, <1>22, <1>24 DEF Covers
  <1>27. bytes = Put("u32", n) \o Concat(parts)
    <2>1. PICK m \in Nat, o \in Nat : m = Len(bytes) /\ o = 0
      BY <1>24
    <2>2. o <= from /\ from <= m /\ m <= Len(bytes)
      BY <1>24, <2>1
    <2>3. Cut(bytes, o, from) \o Cut(bytes, from, m) = Cut(bytes, o, m)
      BY <2>2, CutJoin
    <2>4. Cut(bytes, 0, Len(bytes)) = bytes
      BY CutFull
    <2> QED
      BY <1>25, <1>26, <2>1, <2>3, <2>4
  <1>28. PICK g \in Seq(Item) : g = q.got
    BY <1>22 DEF Within, Readers
  <1>29. Len(g) = n /\ Distinct(g) /\ Len(parts) = n /\ parts \in Seq(Seq(Byte))
    BY <1>21, <1>22, <1>28 DEF FieldsRead, Distinct, Covers
  <1>30. PICK key, tags : key = KeyOf(g) /\ tags = TagsOf(g)
    OBVIOUS
  <1>31. tags \in SetToSeqs(DOMAIN key) /\ \A k \in 1 .. n : key[g[k][1]] = g[k][2]
    BY <1>29, <1>30, KeyOfFields
  <1>32. DOMAIN tags = 1 .. n /\ Len(tags) = n /\ \A k \in 1 .. n : tags[k] = g[k][1]
    BY <1>29, <1>30 DEF TagsOf
  <1>33. parts = [i \in DOMAIN tags |-> Put("u8", tags[i]) \o PutString(key[tags[i]])]
    <2>1. DOMAIN parts = 1 .. n /\ parts = [i \in DOMAIN parts |-> parts[i]]
      BY <1>29
    <2>2. ASSUME NEW i \in 1 .. n PROVE parts[i] = Put("u8", tags[i]) \o PutString(key[tags[i]])
      <3>1. parts[i] = FieldPart(g[i])
        BY <1>21, <1>28 DEF FieldsRead
      <3>2. tags[i] = g[i][1] /\ key[tags[i]] = g[i][2]
        BY <1>31, <1>32
      <3> QED
        BY <3>1, <3>2 DEF FieldPart
    <2> QED
      BY <1>32, <2>1, <2>2
  <1>34. bytes = FieldsInOrder(key, tags)
    BY <1>27, <1>32, <1>33 DEF FieldsInOrder
  <1>35. FromCanonicalBytes(bytes).value = key
    BY <1>7, <1>23, <1>28, <1>30
  <1> QED
    BY <1>31, <1>34, <1>35

\* What the medium can hold, and what the decoder made of it.
ChannelInv ==
    /\ wrote \in Written /\ damages \in 0 .. MaxDamage
    /\ wrote[1] # "meta" => medium \in Seq(Byte) /\ Len(medium) + (MaxDamage - damages) < SizeT
    /\ outcome = Unread \/ outcome = DecodeAs(wrote[1], medium)

\* Whatever is lost or altered on the way, the medium holds bytes and the outcome is what
\* the decoder of the format that was written makes of them.
THEOREM ChannelInvariant == ChannelSpec => []ChannelInv
  <1>1. ChannelInit => ChannelInv
    <2> SUFFICES ASSUME ChannelInit PROVE ChannelInv
      OBVIOUS
    <2>1. wrote \in Written /\ medium = EncodeAs(wrote[1], wrote[2]) /\ damages = 0 /\ outcome = Unread
      BY DEF ChannelInit
    <2>2. wrote[1] # "meta" => medium \in Seq(Byte) /\ Len(medium) + MaxDamage < SizeT
      BY <2>1, ChannelAssumption
    <2>3. MaxDamage \in Nat
      BY ChannelAssumption
    <2> QED
      BY <2>1, <2>2, <2>3 DEF ChannelInv
  <1>2. ChannelInv /\ [ChannelNext]_channelVars => ChannelInv'
    <2> SUFFICES ASSUME ChannelInv, [ChannelNext]_channelVars PROVE ChannelInv'
      OBVIOUS
    <2>0. MaxDamage \in Nat /\ SizeT \in Nat /\ Noise \subseteq Byte
      BY ChannelAssumption, SizeTIs
    <2>h. ASSUME NEW b, Harm(b), wrote[1] # "meta" => b \in Seq(Byte) /\ Len(b) <= Len(medium) + 1
          PROVE  ChannelInv'
      <3>1. wrote' = wrote /\ outcome' = outcome /\ outcome = Unread /\ medium' = b
        BY <2>h DEF Harm
      <3>2. damages \in 0 .. MaxDamage /\ damages < MaxDamage /\ damages' = damages + 1
        BY <2>h DEF Harm, ChannelInv
      <3>3. damages' \in 0 .. MaxDamage
        BY <2>0, <3>2
      <3>4. wrote[1] # "meta" => b \in Seq(Byte) /\ Len(b) + (MaxDamage - damages') < SizeT
        <4> SUFFICES ASSUME wrote[1] # "meta" PROVE b \in Seq(Byte) /\ Len(b) + (MaxDamage - damages') < SizeT
          OBVIOUS
        <4>1. b \in Seq(Byte) /\ Len(b) \in Nat /\ Len(b) <= Len(medium) + 1
          BY <2>h
        <4>2. Len(medium) \in Nat /\ Len(medium) + (MaxDamage - damages) < SizeT
          BY DEF ChannelInv
        <4> QED
          BY <2>0, <3>2, <4>1, <4>2
      <3> QED
        BY <3>1, <3>3, <3>4 DEF ChannelInv
    <2>1. CASE Overwrite
      <3>1. PICK i \in DOMAIN medium, b \in Noise : Harm([medium EXCEPT ![i] = b])
        BY <2>1 DEF Overwrite
      <3>2. wrote[1] # "meta" => /\ [medium EXCEPT ![i] = b] \in Seq(Byte)
                                 /\ Len([medium EXCEPT ![i] = b]) <= Len(medium) + 1
        <4> SUFFICES ASSUME wrote[1] # "meta"
                     PROVE  /\ [medium EXCEPT ![i] = b] \in Seq(Byte)
                            /\ Len([medium EXCEPT ![i] = b]) <= Len(medium) + 1
          OBVIOUS
        <4>1. medium \in Seq(Byte)
          BY DEF ChannelInv
        <4>2. i \in 1 .. Len(medium) /\ b \in Byte
          BY <2>0, <4>1
        <4> QED
          BY <4>1, <4>2, ExceptSeq
      <3> QED
        BY <2>h, <3>1, <3>2
    <2>2. CASE Erase
      <3> DEFINE gone(i) == [j \in DOMAIN medium |->
                              IF j \in i .. i + Width.u64 - 1 THEN Base - 1 ELSE medium[j]]
      <3>1. PICK i : Harm(gone(i))
        BY <2>2 DEF Erase
      <3>2. wrote[1] # "meta" => gone(i) \in Seq(Byte) /\ Len(gone(i)) <= Len(medium) + 1
        <4> SUFFICES ASSUME wrote[1] # "meta" PROVE gone(i) \in Seq(Byte) /\ Len(gone(i)) <= Len(medium) + 1
          OBVIOUS
        <4>1. medium \in Seq(Byte)
          BY DEF ChannelInv
        <4>2. PICK n \in Nat : n = Len(medium) /\ DOMAIN medium = 1 .. n
          BY <4>1
        <4>3. PICK c : c = gone(i)
          OBVIOUS
        <4>4. Base - 1 \in Byte
          BY CanonicalAssumption DEF Byte
        <4>5. DOMAIN c = 1 .. n /\ c = [j \in DOMAIN c |-> c[j]] /\ \A j \in 1 .. n : c[j] \in Byte
          BY <4>1, <4>2, <4>3, <4>4
        <4>6. c \in Seq(Byte) /\ Len(c) = n
          BY <4>5, FunctionIsSeq
        <4> QED
          BY <4>2, <4>3, <4>6
      <3> HIDE DEF gone
      <3> QED
        BY <2>h, <3>1, <3>2
    <2>3. CASE Truncate
      <3>1. PICK n \in 0 .. Len(medium) - 1 : Harm(SubSeq(medium, 1, n))
        BY <2>3 DEF Truncate
      <3>2. wrote[1] # "meta" => /\ SubSeq(medium, 1, n) \in Seq(Byte)
                                 /\ Len(SubSeq(medium, 1, n)) <= Len(medium) + 1
        <4> SUFFICES ASSUME wrote[1] # "meta"
                     PROVE  SubSeq(medium, 1, n) \in Seq(Byte) /\ Len(SubSeq(medium, 1, n)) <= Len(medium) + 1
          OBVIOUS
        <4>1. medium \in Seq(Byte)
          BY DEF ChannelInv
        <4>2. PICK m \in Nat, l \in Nat : m = n /\ l = Len(medium)
          BY <4>1
        <4>3. m <= l /\ 0 <= m /\ 0 \in Nat
          BY <4>1, <4>2
        <4>4. Cut(medium, 0, m) \in Seq(Byte) /\ Len(Cut(medium, 0, m)) = m - 0
          BY <4>1, <4>2, <4>3, CutIn
        <4>5. Cut(medium, 0, m) = SubSeq(medium, 1, n)
          BY <4>2 DEF Cut
        <4> QED
          BY <4>2, <4>3, <4>4, <4>5
      <3> QED
        BY <2>h, <3>1, <3>2
    <2>4. CASE Extend
      <3>1. PICK b \in Noise : Harm(Append(medium, b))
        BY <2>4 DEF Extend
      <3>2. wrote[1] # "meta" => Append(medium, b) \in Seq(Byte) /\ Len(Append(medium, b)) <= Len(medium) + 1
        <4> SUFFICES ASSUME wrote[1] # "meta"
                     PROVE  Append(medium, b) \in Seq(Byte) /\ Len(Append(medium, b)) <= Len(medium) + 1
          OBVIOUS
        <4>1. medium \in Seq(Byte) /\ b \in Byte
          BY <2>0 DEF ChannelInv
        <4> QED
          BY <4>1, AppendProperties
      <3> QED
        BY <2>h, <3>1, <3>2
    <2>5. CASE Read
      BY <2>5 DEF Read, ChannelInv
    <2>6. CASE UNCHANGED channelVars
      BY <2>6 DEF channelVars, ChannelInv
    <2> QED
      BY <2>1, <2>2, <2>3, <2>4, <2>5, <2>6 DEF ChannelNext
  <1> QED
    BY <1>1, <1>2, PTL DEF ChannelSpec

\* No decoder accepts bytes that the value it returns is not written to: after any damage, an
\* accepted frame, envelope or executable encodes to the very bytes that were read, an
\* accepted key to its fields in some order, each once (decodeFrameBody, decodeEnvelope,
\* CpuExecutable::decode, CompilationKey::fromCanonicalBytes).
THEOREM ChannelExact == ChannelSpec => []DecodingIsExact
  <1>0. ASSUME NEW w \in Written PROVE w[1] \in {"executable", "key", "frame", "envelope", "meta"}
    BY ChannelAssumption DEF Formats
  <1>1. ChannelInv => DecodingIsExact
    <2> SUFFICES ASSUME ChannelInv, outcome.status = "ok", wrote[1] # "meta"
                 PROVE  IF wrote[1] = "key"
                        THEN \E tags \in SetToSeqs(DOMAIN outcome.value) :
                                 medium = FieldsInOrder(outcome.value, tags)
                        ELSE Reencoded = medium
      BY DEF DecodingIsExact
    <2>1. medium \in Seq(Byte) /\ Len(medium) < SizeT
      <3>1. medium \in Seq(Byte) /\ Len(medium) \in Nat /\ Len(medium) + (MaxDamage - damages) < SizeT
            /\ damages \in 0 .. MaxDamage /\ MaxDamage \in Nat /\ SizeT \in Nat
        BY ChannelAssumption, SizeTIs DEF ChannelInv
      <3> QED
        BY <3>1
    <2>2. outcome = DecodeAs(wrote[1], medium)
      BY DEF ChannelInv, Unread
    <2>3. CASE wrote[1] = "key"
      <3>1. outcome = FromCanonicalBytes(medium)
        BY <2>2, <2>3 DEF DecodeAs
      <3> QED
        BY <2>1, <2>3, <3>1, KeyExact
    <2>4. CASE wrote[1] = "executable"
      <3>1. outcome = Decode(medium)
        BY <2>2, <2>4 DEF DecodeAs
      <3>2. EncodeNumbers(outcome.value) = medium
        BY <2>1, <3>1, ExecutableExact
      <3> QED
        BY <2>4, <3>2 DEF Reencoded
    <2>5. CASE wrote[1] = "frame"
      <3>1. outcome = DecodeFrameBody(medium)
        BY <2>2, <2>5 DEF DecodeAs
      <3>2. EncodeFrameBody(outcome.value) = medium
        BY <2>1, <3>1, FrameExact
      <3> QED
        BY <2>5, <3>2 DEF Reencoded, EncodeAs
    <2>6. CASE wrote[1] = "envelope"
      <3>1. outcome = DecodeEnvelope(medium)
        BY <2>2, <2>6 DEF DecodeAs
      <3>2. EncodeEnvelope(outcome.value) = medium
        BY <2>1, <3>1, EnvelopeExact
      <3> QED
        BY <2>6, <3>2 DEF Reencoded, EncodeAs
    <2> QED
      BY <1>0, <2>3, <2>4, <2>5, <2>6 DEF ChannelInv
  <1> QED
    BY <1>1, ChannelInvariant, PTL

-----------------------------------------------------------------------------
IsKey(k)    == k = [t \in DOMAIN k |-> k[t]]
Reuses      == {"exact", "equivalent-target", "runtime-validation"}

\* Keys without differing fields are equal.
LEMMA NoDiffsMeansEqual ==
    ASSUME NEW a, NEW b, IsKey(a), IsKey(b), FieldDiffs(a, b) = {}
    PROVE  a = b
  <1>1. \A t \in DOMAIN a \cup DOMAIN b : t \in DOMAIN a /\ t \in DOMAIN b /\ a[t] = b[t]
    BY DEF FieldDiffs
  <1>2. DOMAIN a = DOMAIN b
    BY <1>1
  <1>3. [t \in DOMAIN a |-> a[t]] = [t \in DOMAIN b |-> b[t]]
    BY <1>1, <1>2
  <1>4. QED
    BY <1>3 DEF IsKey

\* So are keys that differ for no reason: every field has one.
LEMMA NoReasonMeansEqual ==
    ASSUME NEW a, NEW b, IsKey(a), IsKey(b), Reasons(a, b) = {}
    PROVE  a = b
  <1>1. FieldDiffs(a, b) = {}
    BY Zenon DEF Reasons
  <1>2. QED
    BY <1>1, NoDiffsMeansEqual

\* Under the default policy, no equivalent targets and a strict environment, an artifact
\* is reused for a request only if the two keys are equal in every field, driver, target
\* and owner included, and its state does not forbid it.
THEOREM StrictReuseIsExact ==
    ASSUME NEW a, NEW b, IsKey(a), IsKey(b), NEW state, NEW policy,
           ~policy.allowEquivalentTarget, policy.strictEnvironment,
           Decide(a, b, state, policy) \in Reuses
    PROVE  a = b /\ state \notin RefusedState
  <1>1. state \notin RefusedState
    <2>1. CASE state \in RefusedState
      <3>1. Decide(a, b, state, policy) = "refused"
        BY <2>1, Zenon DEF Decide
      <3>2. QED
        BY <3>1 DEF Reuses
    <2>2. QED
      BY <2>1
  <1>2. CASE Reasons(a, b) = {}
    BY <1>1, <1>2, NoReasonMeansEqual
  <1>3. CASE Reasons(a, b) # {}
    <2>1. Decide(a, b, state, policy) = "recompile"
      BY <1>1, <1>3 DEF Decide
    <2>2. QED
      BY <2>1 DEF Reuses
  <1>4. QED
    BY <1>2, <1>3

KeyFields == UNION {FieldsOf[reason] : reason \in DOMAIN FieldsOf}
OwnerTags == {"Namespace", "Tenant"}
ArchitectureTags == {"Driver", "DriverVersion", "TargetArchitecture", "ComputeCapability", "ISA",
                     "AcceleratorVendor", "AcceleratorFamily"}

\* The reason a field gives is the one it is listed under.
LEMMA ReasonIs ==
    ASSUME NEW t \in KeyFields
    PROVE  ReasonForKeyField(t) \in DOMAIN FieldsOf /\ t \in FieldsOf[ReasonForKeyField(t)]
  <1>1. PICK reason \in DOMAIN FieldsOf : t \in FieldsOf[reason]
    BY DEF KeyFields
  <1>2. QED
    BY <1>1, Zenon DEF ReasonForKeyField

\* The fields of the three reasons that do not force a recompilation.
LEMMA SoftFields ==
    /\ FieldsOf["EnvironmentFingerprint"] = {"EnvFingerprint"}
    /\ FieldsOf["ArchitectureChanged"] = ArchitectureTags
    /\ FieldsOf["Policy"] = OwnerTags
    /\ {"EnvironmentFingerprint", "ArchitectureChanged", "Policy"} \subseteq DOMAIN FieldsOf
  BY DEF FieldsOf, ArchitectureTags, OwnerTags

\* Exactly what a reuse may cross, whatever the policy (decide()).  Two keys that differ
\* without a reuse being refused differ only in the environment, in one of the seven
\* fields that count as the architecture (driver, driver version, architecture, compute
\* capability, ISA, vendor and family), or in namespace or tenant.  Without a change of
\* environment the policy must allow equivalent targets and the owner is the same; with
\* one the policy must not insist on the environment, and then the target, the
\* namespace and the tenant may all differ as well.
THEOREM ReuseCrossesOnly ==
    ASSUME NEW a, NEW b, NEW state, NEW policy, FieldDiffs(a, b) \subseteq KeyFields,
           Decide(a, b, state, policy) \in Reuses, FieldDiffs(a, b) # {}
    PROVE  \/ /\ FieldDiffs(a, b) \subseteq ArchitectureTags
              /\ policy.allowEquivalentTarget
           \/ /\ FieldDiffs(a, b) \subseteq {"EnvFingerprint"} \cup ArchitectureTags \cup OwnerTags
              /\ "EnvFingerprint" \in FieldDiffs(a, b)
              /\ ~policy.strictEnvironment
  <1>1. PICK diffs, reasons : /\ diffs = FieldDiffs(a, b) /\ reasons = Reasons(a, b)
                              /\ reasons = {ReasonForKeyField(t) : t \in diffs}
    BY DEF Reasons
  <1>2. \A t \in diffs : ReasonForKeyField(t) \in reasons /\ t \in FieldsOf[ReasonForKeyField(t)]
    BY <1>1, ReasonIs
  <1>3. reasons # {}
    BY <1>1
  <1>4. \/ reasons = {"ArchitectureChanged"} /\ policy.allowEquivalentTarget
        \/ /\ reasons \subseteq {"EnvironmentFingerprint", "ArchitectureChanged", "Policy"}
           /\ "EnvironmentFingerprint" \in reasons /\ ~policy.strictEnvironment
    <2>1. CASE reasons = {"ArchitectureChanged"} /\ policy.allowEquivalentTarget
      BY <2>1
    <2>2. CASE ~(reasons = {"ArchitectureChanged"} /\ policy.allowEquivalentTarget)
      <3>1. Decide(a, b, state, policy) \notin {"refused", "recompile", "exact", "equivalent-target"}
        BY <1>1, <1>3, <2>2 DEF Decide, Reuses
      <3>2. QED
        BY <1>1, <1>3, <2>2, <3>1 DEF Decide
    <2>3. QED
      BY <2>1, <2>2
  <1>5. CASE reasons = {"ArchitectureChanged"} /\ policy.allowEquivalentTarget
    <2>1. \A t \in diffs : t \in ArchitectureTags
      BY <1>2, <1>5, SoftFields
    <2>2. QED
      BY <1>1, <1>5, <2>1
  <1>6. CASE /\ reasons \subseteq {"EnvironmentFingerprint", "ArchitectureChanged", "Policy"}
             /\ "EnvironmentFingerprint" \in reasons /\ ~policy.strictEnvironment
    <2>1. \A t \in diffs : t \in {"EnvFingerprint"} \cup ArchitectureTags \cup OwnerTags
      BY <1>2, <1>6, SoftFields
    <2>2. PICK t \in diffs : ReasonForKeyField(t) = "EnvironmentFingerprint"
      BY <1>1, <1>6
    <2>3. t = "EnvFingerprint"
      BY <1>2, <2>2, SoftFields
    <2>4. QED
      BY <1>1, <1>6, <2>1, <2>2, <2>3
  <1>7. QED
    BY <1>4, <1>5, <1>6

-----------------------------------------------------------------------------
(* What equal keys say of two requests *)

\* Merging two groups of fields.
LEMMA Merged ==
    ASSUME NEW f, NEW g, NEW x
    PROVE  /\ x \in DOMAIN (f ++ g) <=> x \in DOMAIN f \/ x \in DOMAIN g
           /\ x \in DOMAIN f => (f ++ g)[x] = f[x]
           /\ x \in DOMAIN g /\ x \notin DOMAIN f => (f ++ g)[x] = g[x]
  BY DEF ++

\* A field that is left out when it is empty can still be told from the key.
LEMMA NonEmptyFields ==
    ASSUME NEW f, NEW empty, NEW x
    PROVE  /\ x \in DOMAIN NonEmpty(f, empty) <=> x \in DOMAIN f /\ f[x] # empty
           /\ x \in DOMAIN NonEmpty(f, empty) => NonEmpty(f, empty)[x] = f[x]
  BY DEF NonEmpty

SourceTags == {"LogicalOperation", "SourceIdentity", "SourceDigest", "SourceContent", "IRIdentity", "IRDigest"}
ToolchainTags == {"Frontend", "FrontendVersion", "Compiler", "CompilerVersion", "Backend",
                  "BackendVersion", "CodeGenerator", "Optimizer", "Linker", "Runtime", "Driver",
                  "DriverVersion", "EnvFingerprint"}
TargetTags == {"AcceleratorVendor", "AcceleratorFamily", "TargetArchitecture", "ComputeCapability",
               "ISA", "ABI", "KernelABI", "GraphABI"}
SpecializationTags == {"Datatype", "Layout", "Rank", "StaticShape", "Alignment", "DebugRelease",
                       "RuntimeCompatibilityGeneration", "CompilerPolicyGeneration",
                       "Quantization", "Precision", "Determinism", "Reproducibility"}
TextTags == {"IRFormat", "SymbolicShape", "LaunchSpecialization", "ScalarConstants", "FeatureFlags",
             "OptimizationFlags", "CodegenFlags", "DependencyIdentities", "DependencyGenerations",
             "ModelRevision", "Namespace", "Tenant"}

\* Each group of setters writes tags of its own.
LEMMA TagsOfGroups ==
    ASSUME NEW r, NEW p, NEW t
    PROVE  /\ DOMAIN SourceFields(r) \subseteq SourceTags
           /\ DOMAIN ToolchainFields(t) \subseteq ToolchainTags
           /\ DOMAIN TargetFields(r, p) \subseteq TargetTags
           /\ DOMAIN SpecializationFields(r, p) \subseteq SpecializationTags
           /\ DOMAIN TextFields(r) \subseteq TextTags
  <1>1. DOMAIN SourceFields(r) \subseteq SourceTags
    BY Merged, NonEmptyFields DEF SourceFields, SourceTags
  <1>2. DOMAIN ToolchainFields(t) \subseteq ToolchainTags
    BY NonEmptyFields DEF ToolchainFields, ToolchainTags
  <1>3. DOMAIN TargetFields(r, p) \subseteq TargetTags
    BY Merged, NonEmptyFields DEF TargetFields, TargetTags
  <1>4. DOMAIN SpecializationFields(r, p) \subseteq SpecializationTags
    BY Merged, NonEmptyFields DEF SpecializationFields, SpecializationTags
  <1>5. DOMAIN TextFields(r) \subseteq TextTags
    BY NonEmptyFields DEF TextFields, TextTags
  <1>6. QED
    BY <1>1, <1>2, <1>3, <1>4, <1>5

\* No two groups write the same tag.
LEMMA TagsDisjoint ==
    /\ SourceTags \cap (ToolchainTags \cup TargetTags \cup SpecializationTags \cup TextTags) = {}
    /\ ToolchainTags \cap (TargetTags \cup SpecializationTags \cup TextTags) = {}
    /\ TargetTags \cap (SpecializationTags \cup TextTags) = {}
    /\ SpecializationTags \cap TextTags = {}
  BY DEF SourceTags, ToolchainTags, TargetTags, SpecializationTags, TextTags

\* A key shows each group of fields as it was written.
Shows(key, tags, fields) ==
    \A x \in tags : /\ x \in DOMAIN key <=> x \in DOMAIN fields
                    /\ x \in DOMAIN key => key[x] = fields[x]

\* So nothing a group writes is lost in the merge.
LEMMA KeyShowsGroups ==
    ASSUME NEW r, NEW p, NEW t
    PROVE  LET key == BuildCompilationKey(r, p, t) IN
           /\ Shows(key, SourceTags, SourceFields(r))
           /\ Shows(key, ToolchainTags, ToolchainFields(t))
           /\ Shows(key, SpecializationTags, SpecializationFields(r, p))
           /\ Shows(key, TextTags, TextFields(r))
  <1> DEFINE a == SourceFields(r)
             b == ToolchainFields(t)
             c == TargetFields(r, p)
             d == SpecializationFields(r, p)
             e == TextFields(r)
             key == a ++ b ++ c ++ d ++ e
  <1>1. /\ DOMAIN a \subseteq SourceTags /\ DOMAIN b \subseteq ToolchainTags
        /\ DOMAIN c \subseteq TargetTags /\ DOMAIN d \subseteq SpecializationTags
        /\ DOMAIN e \subseteq TextTags
    BY TagsOfGroups
  <1>2. BuildCompilationKey(r, p, t) = key
    BY DEF BuildCompilationKey
  <1> HIDE DEF a, b, c, d, e
  <1>3. ASSUME NEW x
        PROVE  /\ x \in DOMAIN key <=> \/ x \in DOMAIN a \/ x \in DOMAIN b \/ x \in DOMAIN c
                                       \/ x \in DOMAIN d \/ x \in DOMAIN e
               /\ x \in DOMAIN a => key[x] = a[x]
               /\ x \in DOMAIN b /\ x \notin DOMAIN a => key[x] = b[x]
               /\ x \in DOMAIN d /\ x \notin DOMAIN a \cup DOMAIN b \cup DOMAIN c => key[x] = d[x]
               /\ x \in DOMAIN e /\ x \notin DOMAIN a \cup DOMAIN b \cup DOMAIN c \cup DOMAIN d => key[x] = e[x]
    BY Merged
  <1> HIDE DEF key
  <1>4. /\ Shows(key, SourceTags, a) /\ Shows(key, ToolchainTags, b)
        /\ Shows(key, SpecializationTags, d) /\ Shows(key, TextTags, e)
    BY <1>1, <1>3, TagsDisjoint DEF Shows
  <1>5. QED
    BY <1>2, <1>4 DEF a, b, d, e

\* Two groups that a key shows alike agree in a field that is left out when empty.
LEMMA FieldTold ==
    ASSUME NEW key, NEW tags, NEW f, NEW g, NEW empty, NEW x \in tags,
           x \in DOMAIN f, x \in DOMAIN g,
           Shows(key, tags, NonEmpty(f, empty)), Shows(key, tags, NonEmpty(g, empty))
    PROVE  f[x] = g[x]
  BY NonEmptyFields DEF Shows

\* The plan of a request repeats it or leaves it blank.
PlannedFor(r, p) ==
    /\ p.request.datatype \in {r.datatype, "None"} /\ p.request.layout \in {r.layout, "None"}
    /\ p.request.rank \in {r.rank, 0} /\ p.request.staticShape \in {r.staticShape, <<>>}
    /\ p.request.alignment \in {r.alignment, 0}

\* The members that a key is made of.
SameSource(r, q) ==
    /\ r.logicalOperation = q.logicalOperation /\ r.source = q.source
    /\ r.sourceDigest = q.sourceDigest /\ r.irDigest = q.irDigest
SameSpecialization(r, q) ==
    /\ r.datatype = q.datatype /\ r.layout = q.layout /\ r.rank = q.rank
    /\ r.staticShape = q.staticShape /\ r.alignment = q.alignment /\ r.debugRelease = q.debugRelease
    /\ r.quantization = q.quantization /\ r.precision = q.precision
    /\ r.determinism = q.determinism /\ r.reproducibility = q.reproducibility
SameTexts(r, q) ==
    /\ r.irFormat = q.irFormat /\ r.symbolicShape = q.symbolicShape
    /\ r.launchSpecialization = q.launchSpecialization /\ r.scalarConstants = q.scalarConstants
    /\ r.featureFlags = q.featureFlags /\ r.optimizationFlags = q.optimizationFlags
    /\ r.codegenFlags = q.codegenFlags /\ r.dependencyIdentities = q.dependencyIdentities
    /\ r.dependencyGenerations = q.dependencyGenerations /\ r.modelRevision = q.modelRevision
    /\ r.namespaceName = q.namespaceName /\ r.tenant = q.tenant
SameToolchain(t, u) ==
    /\ t.frontend = u.frontend /\ t.frontendVersion = u.frontendVersion
    /\ t.compiler = u.compiler /\ t.compilerVersion = u.compilerVersion
    /\ t.backend = u.backend /\ t.backendVersion = u.backendVersion
    /\ t.codeGenerator = u.codeGenerator /\ t.optimizer = u.optimizer /\ t.linker = u.linker
    /\ t.runtime = u.runtime /\ t.driver = u.driver /\ t.driverVersion = u.driverVersion
    /\ t.environment = u.environment

\* One key, one set of texts.
LEMMA TextsTold ==
    ASSUME NEW key, NEW r, NEW q, Shows(key, TextTags, TextFields(r)), Shows(key, TextTags, TextFields(q))
    PROVE  SameTexts(r, q)
  <1> DEFINE f(s) == [IRFormat |-> s.irFormat, SymbolicShape |-> s.symbolicShape,
              LaunchSpecialization |-> s.launchSpecialization,
              ScalarConstants |-> s.scalarConstants, FeatureFlags |-> s.featureFlags,
              OptimizationFlags |-> s.optimizationFlags, CodegenFlags |-> s.codegenFlags,
              DependencyIdentities |-> s.dependencyIdentities,
              DependencyGenerations |-> s.dependencyGenerations,
              ModelRevision |-> s.modelRevision, Namespace |-> s.namespaceName,
              Tenant |-> s.tenant]
  <1>1. TextFields(r) = NonEmpty(f(r), <<>>) /\ TextFields(q) = NonEmpty(f(q), <<>>)
    BY DEF TextFields
  <1>2. DOMAIN f(r) = TextTags /\ DOMAIN f(q) = TextTags
    BY DEF TextTags
  <1> HIDE DEF f
  <1>3. \A x \in TextTags : f(r)[x] = f(q)[x]
    BY <1>1, <1>2, FieldTold
  <1>4. QED
    BY <1>3 DEF f, TextTags, SameTexts

\* One key, one toolchain context.
LEMMA ToolchainTold ==
    ASSUME NEW key, NEW t, NEW u,
           Shows(key, ToolchainTags, ToolchainFields(t)), Shows(key, ToolchainTags, ToolchainFields(u))
    PROVE  SameToolchain(t, u)
  <1> DEFINE f(s) == [Frontend |-> s.frontend, FrontendVersion |-> s.frontendVersion,
              Compiler |-> s.compiler, CompilerVersion |-> s.compilerVersion,
              Backend |-> s.backend, BackendVersion |-> s.backendVersion,
              CodeGenerator |-> s.codeGenerator, Optimizer |-> s.optimizer,
              Linker |-> s.linker, Runtime |-> s.runtime, Driver |-> s.driver,
              DriverVersion |-> s.driverVersion, EnvFingerprint |-> s.environment]
  <1>1. ToolchainFields(t) = NonEmpty(f(t), <<>>) /\ ToolchainFields(u) = NonEmpty(f(u), <<>>)
    BY DEF ToolchainFields
  <1>2. DOMAIN f(t) = ToolchainTags /\ DOMAIN f(u) = ToolchainTags
    BY DEF ToolchainTags
  <1> HIDE DEF f
  <1>3. \A x \in ToolchainTags : f(t)[x] = f(u)[x]
    BY <1>1, <1>2, FieldTold
  <1>4. QED
    BY <1>3 DEF f, ToolchainTags, SameToolchain

\* One key, one source.
LEMMA SourceTold ==
    ASSUME NEW key, NEW r, NEW q,
           Shows(key, SourceTags, SourceFields(r)), Shows(key, SourceTags, SourceFields(q))
    PROVE  SameSource(r, q)
  <1> DEFINE always(s) == [LogicalOperation |-> s.logicalOperation, SourceIdentity |-> s.sourceDigest,
                           SourceDigest |-> s.sourceDigest, SourceContent |-> s.source]
             ir(s)     == [IRIdentity |-> s.irDigest, IRDigest |-> s.irDigest]
  <1>1. /\ SourceFields(r) = always(r) ++ NonEmpty(ir(r), "zero")
        /\ SourceFields(q) = always(q) ++ NonEmpty(ir(q), "zero")
    BY DEF SourceFields
  <1>2. /\ DOMAIN always(r) = {"LogicalOperation", "SourceIdentity", "SourceDigest", "SourceContent"}
        /\ DOMAIN always(q) = {"LogicalOperation", "SourceIdentity", "SourceDigest", "SourceContent"}
        /\ DOMAIN ir(r) = {"IRIdentity", "IRDigest"} /\ DOMAIN ir(q) = {"IRIdentity", "IRDigest"}
    OBVIOUS
  <1> HIDE DEF always, ir
  <1>3. \A x \in {"LogicalOperation", "SourceDigest", "SourceContent"} : always(r)[x] = always(q)[x]
    BY <1>1, <1>2, Merged DEF Shows, SourceTags
  <1>4. /\ "IRDigest" \in SourceTags
        /\ \A s \in {r, q} : Shows(key, {"IRDigest"}, NonEmpty(ir(s), "zero"))
    BY <1>1, <1>2, Merged DEF Shows, SourceTags
  <1>5. ir(r)["IRDigest"] = ir(q)["IRDigest"]
    BY <1>2, <1>4, FieldTold
  <1>6. QED
    BY <1>3, <1>5 DEF always, ir, SameSource

\* One key, one specialization, whether a member came from the request or from its plan.
LEMMA SpecializationTold ==
    ASSUME NEW key, NEW r, NEW q, NEW p, NEW o, PlannedFor(r, p), PlannedFor(q, o),
           Shows(key, SpecializationTags, SpecializationFields(r, p)),
           Shows(key, SpecializationTags, SpecializationFields(q, o))
    PROVE  SameSpecialization(r, q)
  <1> DEFINE Always == {"Datatype", "Layout", "Rank", "StaticShape", "Alignment", "DebugRelease",
                        "RuntimeCompatibilityGeneration", "CompilerPolicyGeneration"}
             always(s) == [Datatype |-> s.datatype, Layout |-> s.layout, Rank |-> s.rank,
                           StaticShape |-> s.staticShape, Alignment |-> s.alignment,
                           DebugRelease |-> s.debugRelease,
                           RuntimeCompatibilityGeneration |-> 0, CompilerPolicyGeneration |-> 0]
             types(s)  == [Quantization |-> s.quantization, Precision |-> s.precision]
             modes(s)  == [Determinism |-> s.determinism, Reproducibility |-> s.reproducibility]
  <1>1. /\ SpecializationFields(r, p) = always(r) ++ NonEmpty(types(r), "None") ++ NonEmpty(modes(r), "Unspecified")
        /\ SpecializationFields(q, o) = always(q) ++ NonEmpty(types(q), "None") ++ NonEmpty(modes(q), "Unspecified")
    <2>1. ASSUME NEW s, NEW n, PlannedFor(s, n)
          PROVE  /\ OrElse(s.datatype, "None", n.request.datatype) = s.datatype
                 /\ OrElse(s.layout, "None", n.request.layout) = s.layout
                 /\ OrElse(s.rank, 0, n.request.rank) = s.rank
                 /\ OrElse(s.staticShape, <<>>, n.request.staticShape) = s.staticShape
                 /\ OrElse(s.alignment, 0, n.request.alignment) = s.alignment
      BY <2>1 DEF PlannedFor, OrElse
    <2>2. QED
      BY <2>1 DEF SpecializationFields
  <1>2. \A s \in {r, q} : /\ DOMAIN always(s) = Always
                          /\ DOMAIN types(s) = {"Quantization", "Precision"}
                          /\ DOMAIN modes(s) = {"Determinism", "Reproducibility"}
    OBVIOUS
  <1> HIDE DEF always, types, modes
  <1>3. \A x \in Always : always(r)[x] = always(q)[x]
    BY <1>1, <1>2, Merged DEF Shows, SpecializationTags
  <1>4. \A s \in {r, q} : /\ Shows(key, {"Quantization", "Precision"}, NonEmpty(types(s), "None"))
                          /\ Shows(key, {"Determinism", "Reproducibility"}, NonEmpty(modes(s), "Unspecified"))
    <2>1. ASSUME NEW s \in {r, q}
          PROVE  Shows(key, SpecializationTags,
                       always(s) ++ NonEmpty(types(s), "None") ++ NonEmpty(modes(s), "Unspecified"))
      BY <1>1
    <2>2. ASSUME NEW s \in {r, q}
          PROVE  Shows(key, {"Quantization", "Precision"}, NonEmpty(types(s), "None"))
      BY <1>2, <2>1, Merged, NonEmptyFields DEF Shows, SpecializationTags
    <2>3. ASSUME NEW s \in {r, q}
          PROVE  Shows(key, {"Determinism", "Reproducibility"}, NonEmpty(modes(s), "Unspecified"))
      BY <1>2, <2>1, Merged, NonEmptyFields DEF Shows, SpecializationTags
    <2>4. QED
      BY <2>2, <2>3
  <1>5. /\ \A x \in {"Quantization", "Precision"} : types(r)[x] = types(q)[x]
        /\ \A x \in {"Determinism", "Reproducibility"} : modes(r)[x] = modes(q)[x]
    BY <1>2, <1>4, FieldTold
  <1>6. QED
    BY <1>3, <1>5 DEF always, types, modes, SameSpecialization

\* Two requests have one key only if they agree in every member that
\* buildCompilationKey() takes from a request (the target is the plan's), namespace and
\* tenant included, and were keyed under one toolchain and environment: leaving a field
\* out when it is empty, and taking it from the plan when the request has none, never
\* makes two requests one.
THEOREM EqualKeysMeanEqualRequests ==
    ASSUME NEW r, NEW q, NEW p, NEW o, NEW t, NEW u, PlannedFor(r, p), PlannedFor(q, o),
           BuildCompilationKey(r, p, t) = BuildCompilationKey(q, o, u)
    PROVE  SameSource(r, q) /\ SameSpecialization(r, q) /\ SameTexts(r, q) /\ SameToolchain(t, u)
  <1> DEFINE key == BuildCompilationKey(r, p, t)
  <1>1. /\ Shows(key, SourceTags, SourceFields(r)) /\ Shows(key, ToolchainTags, ToolchainFields(t))
        /\ Shows(key, SpecializationTags, SpecializationFields(r, p)) /\ Shows(key, TextTags, TextFields(r))
    BY KeyShowsGroups
  <1>2. /\ Shows(key, SourceTags, SourceFields(q)) /\ Shows(key, ToolchainTags, ToolchainFields(u))
        /\ Shows(key, SpecializationTags, SpecializationFields(q, o)) /\ Shows(key, TextTags, TextFields(q))
    BY KeyShowsGroups
  <1> HIDE DEF key
  <1>3. QED
    BY <1>1, <1>2, SourceTold, SpecializationTold, TextsTold, ToolchainTold

\* What compile() reuses under the default policy was compiled for a request that
\* agrees with the present one in every member of the key: no reuse across sources,
\* specializations, namespaces, tenants, toolchains or environments.
THEOREM ReuseIsForEqualRequests ==
    ASSUME NEW r, NEW q, NEW state, NEW policy,
           ~policy.allowEquivalentTarget, policy.strictEnvironment,
           Decide(BuildCompilationKey(q, Plan(q), MakeTc(Plan(q))),
                  BuildCompilationKey(r, Plan(r), MakeTc(Plan(r))), state, policy) \in Reuses
    PROVE  /\ SameSource(r, q) /\ SameSpecialization(r, q) /\ SameTexts(r, q)
           /\ SameToolchain(MakeTc(Plan(r)), MakeTc(Plan(q)))
  <1> DEFINE KeyFor(s) == BuildCompilationKey(s, Plan(s), MakeTc(Plan(s)))
  <1>1. IsKey(KeyFor(r)) /\ IsKey(KeyFor(q))
    BY DEF BuildCompilationKey, IsKey, ++
  <1>2. PlannedFor(r, Plan(r)) /\ PlannedFor(q, Plan(q))
    BY DEF PlannedFor, Plan
  <1>3. KeyFor(q) = KeyFor(r)
    BY <1>1, StrictReuseIsExact
  <1>4. QED
    BY <1>2, <1>3, EqualKeysMeanEqualRequests
=============================================================================
