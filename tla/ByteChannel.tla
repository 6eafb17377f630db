---------------------------- MODULE ByteChannel ----------------------------
(***************************************************************************)
(* Byte strings that leave the process and come back: an executable, a     *)
(* canonical key, a frame, an envelope or a metadata file is encoded,      *)
(* something happens to the bytes, and the decoder of its format reads     *)
(* what is left.                                                           *)
(***************************************************************************)
EXTENDS CpuProgram

CONSTANTS Written,     \* pairs of a format and a value, what may be encoded
          Noise,       \* bytes damage may leave behind
          MaxDamage    \* bound on damages

VARIABLES wrote,      \* the format and the value encoded, <<>> before that
          medium,     \* the bytes as they are now
          damages,    \* damages so far
          outcome     \* of the decoder

Byte == 0 .. Base - 1
Formats == {"executable", "key", "frame", "envelope", "meta"}
channelVars == <<wrote, medium, damages, outcome>>
Unread == [status |-> "unread", value |-> <<>>]

EncodeAs(format, v) ==
    CASE format = "executable" -> Encode(v)
      [] format = "key"        -> MakeCanonicalFields(v)
      [] format = "frame"      -> EncodeFrameBody(v)
      [] format = "envelope"   -> EncodeEnvelope(v)
      [] format = "meta"       -> EncodeMeta(v)
DecodeAs(format, bytes) ==
    CASE format = "executable" -> Decode(bytes)
      [] format = "key"        -> FromCanonicalBytes(bytes)
      [] format = "frame"      -> DecodeFrameBody(bytes)
      [] format = "envelope"   -> DecodeEnvelope(bytes)
      [] format = "meta"       -> DecodeMeta(bytes)

\* Byte strings are shorter than a size_t counts; the digest of a metadata file
\* stands for more than a byte.
ASSUME ChannelAssumption ==
    /\ Noise \subseteq Byte /\ MaxDamage \in Nat
    /\ \A w \in Written : w[1] \in Formats
    /\ \A w \in Written : w[1] # "meta" =>
          /\ EncodeAs(w[1], w[2]) \in Seq(Byte)
          /\ Len(EncodeAs(w[1], w[2])) + MaxDamage < SizeT

ChannelIdle == wrote = <<>> /\ medium = <<>> /\ damages = 0 /\ outcome = Unread
ChannelInit ==
    /\ wrote \in Written
    /\ medium = EncodeAs(wrote[1], wrote[2])
    /\ damages = 0 /\ outcome = Unread

Harm(bytes) ==
    /\ wrote # <<>> /\ outcome = Unread /\ damages < MaxDamage
    /\ medium' = bytes
    /\ damages' = damages + 1
    /\ UNCHANGED <<wrote, outcome>>
Overwrite == \E i \in DOMAIN medium, b \in Noise : Harm([medium EXCEPT ![i] = b])
\* A stretch as long as a u64 reads as all ones.
Erase     == \E i \in 1 .. Len(medium) - Width.u64 + 1 :
                 Harm([j \in DOMAIN medium |->
                          IF j \in i .. i + Width.u64 - 1 THEN Base - 1 ELSE medium[j]])
Truncate  == \E n \in 0 .. Len(medium) - 1 : Harm(SubSeq(medium, 1, n))
Extend    == \E b \in Noise : Harm(Append(medium, b))

Read ==
    /\ wrote # <<>> /\ outcome = Unread
    /\ outcome' = DecodeAs(wrote[1], medium)
    /\ UNCHANGED <<wrote, medium, damages>>

ChannelNext == Overwrite \/ Erase \/ Truncate \/ Extend \/ Read
ChannelSpec == ChannelInit /\ [][ChannelNext]_channelVars
-----------------------------------------------------------------------------
\* The bytes an accepted value stands for.  A decoded program has numbers for
\* its enumerators already.
EncodeNumbers(p) ==
    Concat(<<Put("u32", 5), Put("u32", 1), PutString(p.name), Put("u64", p.shapeN),
             Put("u8", p.datatype), Put("u32", p.alignment), PutString(p.launchConfig),
             Put("u32", Len(p.ops))>> \o
           [i \in DOMAIN p.ops |-> Put("u8", p.ops[i].kind)
               \o Put("u64", p.ops[i].scalar) \o Put("u32", p.ops[i].n)])
Reencoded == IF wrote[1] = "executable" THEN EncodeNumbers(outcome.value)
             ELSE EncodeAs(wrote[1], outcome.value)

\* Nothing is accepted with bytes ignored, read twice or made up, whatever the
\* lengths in it say: an accepted executable, frame or envelope encodes to exactly
\* the bytes that were read, and so does an accepted key with its fields in some
\* order, each of them once.
DecodingIsExact ==
    outcome.status = "ok" /\ wrote[1] # "meta" =>
        IF wrote[1] = "key"
        THEN \E tags \in SetToSeqs(DOMAIN outcome.value) :
                 medium = FieldsInOrder(outcome.value, tags)
        ELSE Reencoded = medium

\* Accepted metadata are what encodeMeta() wrote: no damage gets past decodeMeta().
MetadataIsWhatWasWritten ==
    wrote # <<>> /\ wrote[1] = "meta" /\ outcome.status = "ok" =>
        outcome.value = wrote[2]
=============================================================================
