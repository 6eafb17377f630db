----------------------------- MODULE CpuProgram -----------------------------
(***************************************************************************)
(* The CPU backend: source text to program, program to optimised program   *)
(* to artifact bytes, and what an artifact computes.                       *)
(*                                                                         *)
(* A source is a sequence of tokens, "nl" ends a line.  A number is a      *)
(* double with a sign bit, since adding and scaling treat the two zeros    *)
(* differently; FloatBits is the precision an F32 result is rounded to.    *)
(***************************************************************************)
EXTENDS CanonicalCodec

CONSTANTS DefaultShape,   \* 1024, the length assumed without a shape
          FloatBits       \* 24, bits of a float

ASSUME CpuAssumption == DefaultShape \in Nat \ {0} /\ FloatBits \in Nat \ {0}

Kinds     == <<"nop", "add", "sub", "mul", "scale", "abs", "neg", "sum", "max", "min", "id">>
Datatypes == <<"None", "F32", "F64">>
Chars     == <<"wide", "narrow">>          \* the texts of a launch configuration
Index(seq, x) == CHOOSE i \in DOMAIN seq : seq[i] = x

(* ------------------------------- numbers ------------------------------- *)
Double(v)  == [neg |-> v < 0, mag |-> IF v < 0 THEN -v ELSE v]
Value(x)   == IF x.neg THEN -x.mag ELSE x.mag
Negate(x)  == [x EXCEPT !.neg = ~@]
Plus(x, y) == IF Value(x) + Value(y) = 0 THEN [neg |-> x.neg /\ y.neg, mag |-> 0]
              ELSE Double(Value(x) + Value(y))
Times(x, y) == [neg |-> x.neg # y.neg, mag |-> x.mag * y.mag]

\* rr(): an F32 value keeps FloatBits bits, rounded to even; what the last of
\* them counts grows with the magnitude.
TwoTo == PowersOf(2)
FloatUnit(mag) ==
    TwoTo[CHOOSE k \in 0 .. mag : /\ mag < TwoTo[FloatBits + k]
                                  /\ k = 0 \/ mag >= TwoTo[FloatBits + k - 1]]
Round(x, datatype) ==
    LET u == FloatUnit(x.mag)
        q == x.mag \div u
        up == 2 * (x.mag % u) > u \/ (2 * (x.mag % u) = u /\ q % 2 = 1)
    IN IF datatype # "F32" THEN x ELSE [x EXCEPT !.mag = u * (IF up THEN q + 1 ELSE q)]

(* ----------------------------- parseSource() --------------------------- *)
\* key=value headers; datatypeFromName() knows the enumerators' own names.
Headers == [shape2 |-> [key |-> "shapeN", val |-> 2], shape3 |-> [key |-> "shapeN", val |-> 3],
            dtF32 |-> [key |-> "datatype", val |-> "F32"],
            dtF64 |-> [key |-> "datatype", val |-> "F64"],
            align4 |-> [key |-> "alignment", val |-> 4],
            kernel |-> [key |-> "name", val |-> <<3>>]]
\* scalar= and n= parameters of an operation; others are passed over.
Params  == [s0 |-> [key |-> "scalar", val |-> 0], s1 |-> [key |-> "scalar", val |-> 1],
            s2 |-> [key |-> "scalar", val |-> 2], n2 |-> [key |-> "n", val |-> 2]]
DefaultName == <<7>>

Lines(source) ==
    LET ends == {0, Len(source) + 1} \cup {i \in DOMAIN source : source[i] = "nl"}
        e == SetToSortSeq(ends, <)
    IN [i \in 1 .. Len(e) - 1 |-> SubSeq(source, e[i] + 1, e[i + 1] - 1)]

EmptyProgram == [ok |-> TRUE, name |-> <<>>, datatype |-> "F32", shapeN |-> 0, alignment |-> 0,
                 launchConfig |-> <<>>, ops |-> <<>>]

WithParam(op, token) ==
    IF token \notin DOMAIN Params THEN op ELSE [op EXCEPT ![Params[token].key] = Params[token].val]
ParseLine(p, line) ==
    LET first == line[1]
        op == [kind |-> first, scalar |-> 0,
               n |-> IF p.shapeN # 0 THEN p.shapeN ELSE DefaultShape]
    IN CASE ~p.ok \/ line = <<>> -> p
         [] p.ok /\ line # <<>> ->
              CASE first = "#" -> p
                [] first \in DOMAIN Headers -> [p EXCEPT ![Headers[first].key] = Headers[first].val]
                [] first \in ToSet(Kinds) ->
                     [p EXCEPT !.ops = Append(@, FoldLeft(WithParam, op, Tail(line)))]
                [] OTHER -> [p EXCEPT !.ok = FALSE]

ParseSource(source) ==
    LET p == FoldLeft(ParseLine, EmptyProgram, Lines(source))
        ns == {p.ops[i].n : i \in DOMAIN p.ops} \cup {0}
        most == CHOOSE n \in ns : \A m \in ns : m <= n
        shape == IF p.shapeN # 0 THEN p.shapeN ELSE IF most # 0 THEN most ELSE DefaultShape
    IN [p EXCEPT !.ok = @ /\ p.ops # <<>>, !.shapeN = shape,
                 !.name = IF @ = <<>> THEN DefaultName ELSE @]

(* ------------------------------- compile() ----------------------------- *)
\* Reconcile datatype and shape with the specialization the request declares.
Reconcile(p, r) ==
    LET shape == IF r.staticShape # <<>> THEN r.staticShape[1] ELSE p.shapeN
    IN [p EXCEPT !.datatype = IF r.datatype # "None" THEN r.datatype ELSE @,
                 !.shapeN = IF r.staticShape = <<>> /\ r.rank > shape THEN r.rank ELSE shape,
                 !.launchConfig = r.launchSpecialization]

\* Mutation: a multiplication by zero is folded away like an addition of zero.
FoldsMul(op) == \/ op.kind = "scale" /\ op.scalar = 1
                \/ op.kind \in {"add", "sub", "mul"} /\ op.scalar = 0
IsIdentity(op) == \/ op.kind = "scale" /\ op.scalar = 1
                  \/ op.kind \in {"add", "sub"} /\ op.scalar = 0
\* Level 0 keeps the list; a list that would be empty is kept as well.
Optimize(p, level) ==
    LET kept == SelectSeq(p.ops, LAMBDA op : op.kind # "nop" /\ ~IsIdentity(op))
    IN IF level > 0 /\ kept # <<>> THEN [p EXCEPT !.ops = kept] ELSE p

Encode(p) ==
    Concat(<<Put("u32", 5), Put("u32", 1), PutString(p.name), Put("u64", p.shapeN),
             Put("u8", Index(Datatypes, p.datatype)), Put("u32", p.alignment),
             PutString([i \in DOMAIN p.launchConfig |-> Index(Chars, p.launchConfig[i])]),
             Put("u32", Len(p.ops))>> \o
           [i \in DOMAIN p.ops |-> Put("u8", Index(Kinds, p.ops[i].kind))
                                   \o Put("u64", p.ops[i].scalar) \o Put("u32", p.ops[i].n)])

\* The values read: magic, version, name, shapeN, datatype, alignment,
\* launchConfig, the number of operations, and three for each of them.
ProgramOf(g) ==
    [name |-> g[3], shapeN |-> g[4], datatype |-> g[5], alignment |-> g[6],
     launchConfig |-> g[7],
     ops |-> [i \in 1 .. g[8] |-> [kind |-> g[6 + 3 * i], scalar |-> g[7 + 3 * i],
                                   n |-> g[8 + 3 * i]]]]
GetOps(r) ==
    IF r.status # "ok" THEN r
    ELSE FoldLeft(LAMBDA s, i : GetAll(s, <<"u8", "u64", "u32">>), r,
                  [i \in 1 .. Last1(r) |-> i])
\* Everything before the operations, the number of them last.
DecodeHeader(bytes) ==
    LET magic   == Require(Get(Reader(bytes), "u32"), LAMBDA m : Last1(m) = 5)
        version == Require(Get(magic, "u32"), LAMBDA v : Last1(v) = 1)
    IN Get(Str(GetAll(Str(version), <<"u64", "u8", "u32">>)), "u32")
Decode(bytes) ==
    LET count == Require(DecodeHeader(bytes), LAMBDA c : Last1(c) <= MaxCount)
    IN Result(Require(GetOps(count), LAMBDA r : ~HasRemaining(r) /\ r.got[8] > 0), ProgramOf)

\* compile() of a request at an optimisation level: bytes, or no bytes when the
\* source is refused.  validate() and load() are decode() and an execution that
\* is compared with itself.
Compile(r, level) ==
    LET p == ParseSource(r.source)
    IN IF ~p.ok THEN <<>> ELSE Encode(Optimize(Reconcile(p, r), level))
Validates(bytes) == Decode(bytes).status = "ok"

(* ------------------------------- execute() ----------------------------- *)
\* A decoded program with its enumerators: a number that is none of them runs
\* through the switches of execute() and rr() as "nop" and as "None".
NameOf(seq, i, other) == IF i \in DOMAIN seq THEN seq[i] ELSE other
Loaded(p) ==
    [p EXCEPT !.datatype = NameOf(Datatypes, @, "None"),
              !.ops = [i \in DOMAIN @ |-> [@[i] EXCEPT !.kind = NameOf(Kinds, @, "nop")]]]

\* hostInput(): some values, the same for the same length, datatype and seed; a
\* short piece of a sine, which rises or falls with the phase the seed gives it.
HostInput(p, seed) ==
    [i \in 1 .. (IF p.shapeN = 0 THEN DefaultShape ELSE p.shapeN) |->
        Round(Double(IF seed % 2 = 0 THEN seed + 3 * i ELSE seed - 3 * i), p.datatype)]

Elementwise(op, x) ==
    CASE op.kind = "add" -> Plus(x, Double(op.scalar))
      [] op.kind = "sub" -> Plus(x, Negate(Double(op.scalar)))
      [] op.kind \in {"mul", "scale"} -> Times(x, Double(op.scalar))
      [] op.kind = "abs" -> [x EXCEPT !.neg = FALSE]
      [] op.kind = "neg" -> Negate(x)
      [] OTHER -> x
Larger(x, y)  == IF Value(x) < Value(y) THEN y ELSE x
Smaller(x, y) == IF Value(y) < Value(x) THEN y ELSE x
Combine(kind, x, y) == CASE kind = "sum" -> Plus(x, y)
                         [] kind = "max" -> Larger(x, y)
                         [] kind = "min" -> Smaller(x, y)
Reduce(op, out) ==
    FoldLeft(LAMBDA x, y : Combine(op.kind, x, y), IF op.kind = "sum" THEN Double(0) ELSE out[1], out)

Apply(p, out, op) ==
    CASE op.kind = "nop" -> out
      [] op.kind \in {"sum", "max", "min"} -> <<Round(Reduce(op, out), p.datatype)>>
      [] OTHER -> [i \in DOMAIN out |-> Round(Elementwise(op, out[i]), p.datatype)]
Execute(p, seed) == FoldLeft(LAMBDA out, op : Apply(p, out, op), HostInput(p, seed), p.ops)

\* out[i] != ref[i] compares doubles, for which the two zeros are equal.
SameOutput(a, b) == Len(a) = Len(b) /\ \A i \in DOMAIN a : Value(a[i]) = Value(b[i])
=============================================================================
