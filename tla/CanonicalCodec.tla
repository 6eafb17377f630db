--------------------------- MODULE CanonicalCodec ---------------------------
(***************************************************************************)
(* Canonical.cpp's writer and reader, and the binary formats built from    *)
(* them: canonical keys, protocol frames, envelopes, metadata files.  A    *)
(* byte string is a sequence of numbers below Base.  The widths are scaled *)
(* down (u8, u32, u64 and u128 take 1, 2, 3 and 6 bytes) and the positions *)
(* of a reader are as wide as a u64, so that adding a length to a position *)
(* wraps around exactly where it does in the program.                      *)
(***************************************************************************)
EXTENDS Integers, Sequences, SequencesExt

CONSTANTS Base,       \* values of a byte
          MaxTag,     \* the last KeyField
          MaxCount    \* 4096, the limit on the number of fields or operations

ASSUME CanonicalAssumption ==
    /\ Base \in Nat /\ Base > 3
    /\ MaxTag \in 1 .. Base - 1
    /\ MaxCount \in 1 .. Base * Base - 1

Width    == [u8 |-> 1, u32 |-> 2, u64 |-> 3, u128 |-> 6, digest |-> 1]
PowersOf(b) == LET power[n \in Nat] == IF n = 0 THEN 1 ELSE power[n - 1] * b IN power
Place    == PowersOf(Base)            \* what the n-th digit counts
SizeT    == Place[Width.u64]          \* size_t and u64 count modulo this

(* ------------------------------- writer -------------------------------- *)
\* putU16BE() and its siblings: the most significant byte first.
Put(kind, v)  == [i \in 1 .. Width[kind] |-> (v \div Place[Width[kind] - i]) % Base]
PutString(s)  == Put("u64", Len(s)) \o s
Concat(parts) == FlattenSeq(parts)

(* ------------------------------- reader -------------------------------- *)
(* A reader has a position, the values read so far, and whether it goes on *)
(* ("ok"), has returned false ("rejected"), or left with std::length_error *)
(* ("thrown").                                                             *)
Reader(data)  == [data |-> data, pos |-> 0, status |-> "ok", got |-> <<>>]
HasRemaining(r)  == r.pos < Len(r.data)
Remaining(r)     == Len(r.data) - r.pos
Last1(r)         == r.got[Len(r.got)]
Rejected(r)      == [r EXCEPT !.status = "rejected"]
Require(r, Holds(_)) == IF r.status = "ok" /\ ~Holds(r) THEN Rejected(r) ELSE r
AtEnd(r)         == Require(r, LAMBDA s : ~HasRemaining(s))
\* The outcome of a decoder: what it makes of the values it got.
Result(r, Value(_)) ==
    [status |-> r.status, value |-> IF r.status = "ok" THEN Value(r.got) ELSE <<>>]

\* data_.substr(pos_, n): the view ends with the data.
View(r, n) == SubSeq(r.data, r.pos + 1, IF n > Remaining(r) THEN Len(r.data) ELSE r.pos + n)
Step(r, n, v) == [r EXCEPT !.pos = (@ + n) % SizeT, !.got = Append(@, v)]

\* u8() to u128(): the value of a fixed number of bytes.
Get(r, kind) ==
    IF r.status # "ok" THEN r
    ELSE IF r.pos + Width[kind] > Len(r.data) THEN Rejected(r)
    ELSE Step(r, Width[kind],
              FoldLeft(LAMBDA acc, b : acc * Base + b, 0, View(r, Width[kind])))
GetAll(r, kinds) == FoldLeft(Get, r, kinds)

\* pos_ + len is computed modulo 2^64.
Fits(r, len) == (r.pos + len) % SizeT <= Len(r.data)

\* rawBlob() takes what substr() gives and moves by the length asked for.
RawBlob(r, len) ==
    IF r.status # "ok" THEN r
    ELSE IF ~Fits(r, len) THEN Rejected(r)
    ELSE Step(r, len, View(r, len))
Drop(r)      == [r EXCEPT !.got = SubSeq(@, 1, Len(@) - 1)]
Counted(h)   == IF h.status # "ok" THEN h ELSE RawBlob(Drop(h), Last1(h))
BytesBlob(r) == Counted(Get(r, "u64"))

\* str() copies len characters with string::assign(), which throws when no
\* string is that long.
Assigned(h) == IF h.status = "ok" /\ Fits(h, Last1(h)) /\ Last1(h) > Remaining(h)
               THEN [h EXCEPT !.status = "thrown"] ELSE Counted(h)
Str(r) == Assigned(Get(r, "u64"))

(* --------------------------------- keys -------------------------------- *)
(* A key is a function from tags to value bytes (fields_ as operator==     *)
(* compares them).                                                         *)
FieldsInOrder(key, tags) ==
    Put("u32", Len(tags)) \o
    Concat([i \in DOMAIN tags |-> Put("u8", tags[i]) \o PutString(key[tags[i]])])
MakeCanonicalFields(key) == FieldsInOrder(key, SetToSortSeq(DOMAIN key, <))

\* One turn of parseKeyFields(): a new tag, then a value that is all there.
NewTag(r) == /\ Last1(r) \in 1 .. MaxTag
             /\ Last1(r) \notin {r.got[j][1] : j \in 1 .. Len(r.got) - 1}
TakeValue(r) ==
    IF r.status # "ok" THEN r
    ELSE [r EXCEPT !.pos = @ + Last1(r),
                   !.got = Append(SubSeq(@, 1, Len(@) - 2),
                                  <<@[Len(@) - 1], View(r, Last1(r))>>)]
ParseField(r, i) ==
    TakeValue(Require(Get(Require(Get(r, "u8"), NewTag), "u64"),
                      LAMBDA l : Last1(l) <= Remaining(l)))
ParseFields(r) ==
    IF r.status # "ok" THEN r
    ELSE FoldLeft(ParseField, Drop(r), [i \in 1 .. Last1(r) |-> i])

\* parseKeyFields() and CompilationKey::fromCanonicalBytes().
KeyOf(fields) == [t \in {f[1] : f \in ToSet(fields)} |->
                     (CHOOSE f \in ToSet(fields) : f[1] = t)[2]]
FromCanonicalBytes(data) ==
    Result(AtEnd(ParseFields(Require(Get(Reader(data), "u32"),
                                     LAMBDA c : Last1(c) <= MaxCount))), KeyOf)

\* encU64s(): a counted list of values, the encoding of a static shape.
EncU64s(vs) == Put("u32", Len(vs)) \o Concat([i \in DOMAIN vs |-> Put("u64", vs[i])])

(* ------------------------- frames and envelopes ------------------------ *)
ProtocolVersion == 1
MsgTypes        == 1 .. 12

EncodeFrameBody(f) ==
    Concat(<<Put("u32", ProtocolVersion), Put("u32", f.type), Put("u32", f.flags),
             Put("u32", f.seq), PutString(f.payload)>>)
FrameOf(got) == [type |-> got[2], flags |-> got[3], seq |-> got[4], payload |-> got[5]]
\* Mutation: bytes after the payload are ignored.
LaxFrame(body) ==
    Result(BytesBlob(GetAll(Reader(body), <<"u32", "u32", "u32", "u32">>)), FrameOf)
DecodeFrameBody(body) ==
    LET version == Require(Get(Reader(body), "u32"), LAMBDA v : Last1(v) = ProtocolVersion)
        type    == Require(Get(version, "u32"), LAMBDA t : Last1(t) \in MsgTypes)
    IN Result(AtEnd(BytesBlob(GetAll(type, <<"u32", "u32">>))), FrameOf)

\* epoch, workerId, bootId, cacheGen, toolchainGen, requestId, attemptId,
\* artifactId, artifactGen
EnvelopeKinds == <<"u64", "u32", "u128", "u64", "u64", "u128", "u128", "u128", "u64">>
EncodeEnvelope(e) == Concat([i \in DOMAIN EnvelopeKinds |-> Put(EnvelopeKinds[i], e[i])])
DecodeEnvelope(bytes) ==
    Result(AtEnd(GetAll(Reader(bytes), EnvelopeKinds)), LAMBDA got : got)

(* ---------------------------- metadata files --------------------------- *)
Magic   == <<1, 2>>
Version == 1

\* Stands for SHA-256; wide enough to tell the byte strings of a run apart.
Digest(s) == <<FoldLeft(LAMBDA h, b : (h * 31 + b + 1) % 46337, 7, s)>>

\* encodeMeta(); json is the dumped descriptor.
EncodeMeta(m) ==
    LET body == Concat(<<PutString(Magic), Put("u32", Version),
                         PutString(MakeCanonicalFields(m.key)), PutString(m.json),
                         m.content>>)
    IN body \o Digest(body)

KeyReadable(r) == FromCanonicalBytes(Last1(r)).status = "ok"
MetaOf(got)    == [key |-> FromCanonicalBytes(got[3]).value, json |-> got[4], content |-> got[5]]
\* The canonical key, the descriptor and the content digest.
MetaBody(r)    == RawBlob(Str(Require(Str(r), KeyReadable)), Width.digest)
\* Mutation: the checksum is not compared.
UncheckedMeta(bytes) == Result(MetaBody(Get(Str(Reader(bytes)), "u32")), MetaOf)
\* decodeMeta(): magic and version are read before the checksum is compared.
DecodeMeta(bytes) ==
    LET last   == Len(bytes) - Width.digest
        magic  == Require(Str(Reader(bytes)), LAMBDA m : Last1(m) = Magic)
        header == Require(Get(magic, "u32"), LAMBDA v : Last1(v) = Version)
    IN Result(MetaBody(Require(header, LAMBDA r :
                  /\ Remaining(r) >= Width.digest
                  /\ Digest(SubSeq(bytes, 1, last)) = SubSeq(bytes, last + 1, Len(bytes)))),
              MetaOf)
=============================================================================
