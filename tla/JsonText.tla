------------------------------ MODULE JsonText ------------------------------
(***************************************************************************)
(* Json.cpp: the text form of a JSON value and its recursive descent       *)
(* parser.  A text is a sequence of symbols.  A symbol is one character of *)
(* a string, a punctuation mark, a literal, a whole number, or the four    *)
(* hex digits of a \u escape.  The characters the escaping code tells      *)
(* apart are all there: the quote, the backslash, the control characters   *)
(* and the letters that are special after a backslash.                     *)
(*                                                                         *)
(* Numbers are doubles.  Mantissa is the number of bits a double keeps (53 *)
(* in the program); larger integers are rounded to even.  What does not    *)
(* fit an int64_t (2^63, Int64Limit) is printed with six significant       *)
(* digits (PrintedDigits).                                                 *)
(***************************************************************************)
EXTENDS Integers, Sequences, SequencesExt, TLC

CONSTANTS Mantissa,       \* bits of a double's significand
          Int64Limit,     \* the first number beyond an int64_t
          PrintedDigits,  \* significant digits of operator<<(double)
          MaxNumber       \* numbers of the model are in -MaxNumber .. MaxNumber

\* The nearest number of that many significant digits, of two the even one.
LastPlace(base, digits, mag) ==
    base ^ (CHOOSE k \in 0 .. mag : /\ mag < base ^ (digits + k)
                                    /\ k = 0 \/ mag >= base ^ (digits + k - 1))
Nearest(base, digits, n) ==
    LET mag == IF n < 0 THEN -n ELSE n
        u == LastPlace(base, digits, mag)
        rest == mag % u
        q == mag \div u + (IF 2 * rest > u \/ (2 * rest = u /\ (mag \div u) % 2 = 1) THEN 1 ELSE 0)
    IN IF n < 0 THEN -(q * u) ELSE q * u

\* Json::number(static_cast<double>(n)) and strtod().
ToDouble(n) == Nearest(2, Mantissa, n)
\* dumpTo(): a double that is a whole int64_t in full, any other by operator<<.
Printed(d)  == IF d < Int64Limit THEN d ELSE Nearest(10, PrintedDigits, d)
\* An integer member, written and read again.
OverWire(n) == ToDouble(Printed(ToDouble(n)))

ASSUME NumberAssumption ==
    /\ {Mantissa, PrintedDigits, MaxNumber} \subseteq Nat \ {0}
    /\ Int64Limit > 2 ^ Mantissa
    /\ \A n \in 0 .. MaxNumber : {ToDouble(n), Printed(ToDouble(n))} \subseteq 0 .. MaxNumber

(* A JSON value: its kind and its content (Json.hpp's variant).            *)
JNull    == [t |-> "null", v |-> <<>>]
JBool(b) == [t |-> "bool", v |-> b]
JStr(s)  == [t |-> "string", v |-> s]
JArr(a)  == [t |-> "array", v |-> a]
JObj(o)  == [t |-> "object", v |-> o]

JNum(n)  == [t |-> "number", v |-> ToDouble(n)]

Controls == {"nl", "cr", "tab", "bs", "ff", "nul"}
HexOf    == [c \in Controls |-> "00" \o c]

\* Mutation: a backslash that is escaped already is escaped again.
EscapedTwice(c) ==
    IF c = "backslash" THEN [i \in 1 .. 4 |-> c]
    ELSE IF c = "quote" THEN <<"backslash", c>>
    ELSE IF c \in Controls THEN <<"backslash", "u", HexOf[c]>> ELSE <<c>>
(* escapeTo(): one character becomes one symbol or an escape sequence.     *)
EscapedChar(c) ==
    CASE c = "quote"     -> <<"backslash", "quote">>
      [] c = "backslash" -> <<"backslash", "backslash">>
      [] c \in Controls  -> <<"backslash", "u", HexOf[c]>>
      [] OTHER           -> <<c>>
Escape(s) == <<"quote">> \o FlattenSeq([i \in DOMAIN s |-> EscapedChar(s[i])])
                         \o <<"quote">>

NumberText == [n \in -MaxNumber .. MaxNumber |-> ToString(n)]
NumberOf   == [t \in {NumberText[n] : n \in DOMAIN NumberText} |->
                  CHOOSE n \in DOMAIN NumberText : NumberText[n] = t]

Separated(texts) ==
    FlattenSeq([i \in DOMAIN texts |->
                  IF i = 1 THEN texts[i] ELSE <<",">> \o texts[i]])

(* dumpTo(): objects list their members in the order of the map.           *)
RECURSIVE Dump(_)
Dump(j) ==
    CASE j.t = "null"   -> <<"null">>
      [] j.t = "bool"   -> IF j.v THEN <<"true">> ELSE <<"false">>
      [] j.t = "number" -> <<NumberText[Printed(j.v)]>>
      [] j.t = "string" -> Escape(j.v)
      [] j.t = "array"  ->
           <<"[">> \o Separated([i \in DOMAIN j.v |-> Dump(j.v[i])]) \o <<"]">>
      [] j.t = "object" ->
           LET Member(k, text) ==
                   (IF text = <<>> THEN text ELSE text \o <<",">>)
                   \o Escape(<<k>>) \o <<":">> \o Dump(j.v[k])
           IN <<"{">> \o FoldSet(Member, <<>>, DOMAIN j.v) \o <<"}">>

(* The outcome of a parser step: the value and the position after it.      *)
Fail         == [ok |-> FALSE, val |-> JNull, pos |-> 0]
Parsed(j, i) == [ok |-> TRUE, val |-> j, pos |-> i]
At(s, i)     == IF i \in DOMAIN s THEN s[i] ELSE "eof"

(* What the character after a backslash stands for (parseString's switch). *)
Unescaped == [quote |-> "quote", backslash |-> "backslash", slash |-> "slash",
              b |-> "bs", f |-> "ff", n |-> "nl", r |-> "cr", t |-> "tab"]

\* strtoul() reads what is no number as zero.
Strtoul(h) == IF \E k \in Controls : HexOf[k] = h THEN CHOOSE k \in Controls : HexOf[k] = h
              ELSE "nul"

(* parseString() after the opening quote; out is what was read so far.     *)
RECURSIVE ParseChars(_, _, _)
ParseChars(s, i, out) ==
    LET c == At(s, i)
        e == At(s, i + 1)
        h == At(s, i + 2)
    IN CASE c = "eof"   -> Fail
         [] c = "quote" -> Parsed(JStr(out), i + 1)
         [] c = "backslash" /\ e \in DOMAIN Unescaped ->
              ParseChars(s, i + 2, Append(out, Unescaped[e]))
         [] c = "backslash" /\ e = "u" /\ h # "eof" ->
              ParseChars(s, i + 3, Append(out, Strtoul(h)))
         [] c = "backslash" /\ e \notin DOMAIN Unescaped /\ (e # "u" \/ h = "eof") -> Fail
         [] OTHER -> ParseChars(s, i + 1, Append(out, c))

(* parseValue() with parseArray(), parseObject() and the literals.         *)
RECURSIVE ParseValue(_, _), ParseElements(_, _, _), ParseMembers(_, _, _)
ParseValue(s, i) ==
    LET c == At(s, i)
    IN CASE c = "{" -> IF At(s, i + 1) = "}" THEN Parsed(JObj(<<>>), i + 2)
                       ELSE ParseMembers(s, i + 1, <<>>)
         [] c = "[" -> IF At(s, i + 1) = "]" THEN Parsed(JArr(<<>>), i + 2)
                       ELSE ParseElements(s, i + 1, <<>>)
         [] c = "quote" -> ParseChars(s, i + 1, <<>>)
         [] c = "true"  -> Parsed(JBool(TRUE), i + 1)
         [] c = "false" -> Parsed(JBool(FALSE), i + 1)
         [] c = "null"  -> Parsed(JNull, i + 1)
         [] c \in DOMAIN NumberOf -> Parsed(JNum(NumberOf[c]), i + 1)
         [] OTHER -> Fail

ParseElements(s, i, elems) ==
    LET p == ParseValue(s, i)
        all == Append(elems, p.val)
    IN CASE ~p.ok -> Fail
         [] p.ok /\ At(s, p.pos) = "]" -> Parsed(JArr(all), p.pos + 1)
         [] p.ok /\ At(s, p.pos) = "," -> ParseElements(s, p.pos + 1, all)
         [] OTHER -> Fail

(* A member: a string, a colon and a value; insert_or_assign() keeps the   *)
(* last of two members with the same name.                                 *)
ParseMembers(s, i, members) ==
    LET k == IF At(s, i) = "quote" THEN ParseChars(s, i + 1, <<>>) ELSE Fail
        p == IF k.ok /\ At(s, k.pos) = ":" THEN ParseValue(s, k.pos + 1) ELSE Fail
        all == (k.val.v[1] :> p.val) @@ members
    IN CASE ~p.ok -> Fail
         [] p.ok /\ At(s, p.pos) = "}" -> Parsed(JObj(all), p.pos + 1)
         [] p.ok /\ At(s, p.pos) = "," -> ParseMembers(s, p.pos + 1, all)
         [] OTHER -> Fail

(* Json::parse(): one value and nothing after it.                          *)
Parse(s) ==
    LET p == ParseValue(s, 1)
    IN IF p.ok /\ p.pos = Len(s) + 1 THEN p ELSE Fail
=============================================================================
