------------------------------- MODULE Format -------------------------------
(* lib/stdio.c: what __vprintf() puts out for one conversion, vsnprintf()'s  *)
(* cutting of it, and hex_dump().  A conversion is the record parse_conver-  *)
(* sion() reads from the format: its flag characters, width, precision, type *)
(* and letter, the numbers written out or taken for "*".  Characters are     *)
(* strings of length one; text is a sequence of them.                        *)
EXTENDS Integers, Sequences, FiniteSets, SequencesExt, FiniteSetsExt, Caller

CONSTANTS FmtValues,   \* arguments, as unsigned numbers of Bits["INTMAX"] bits
          FmtWidths, FmtPrecisions,
          FmtStrings,  \* string arguments, sequences of characters
          PerLine,     \* 16 in hex_dump()
          MaxDump      \* longest buffer dumped

\* The widths of the types, scaled down from 8, 16, 32 and 64 bits.
Bits_ == [CHAR |-> 4, SHORT |-> 8, INT |-> 12, LONG |-> 12, PTRDIFFT |-> 12, SIZET |-> 12,
          INTMAX |-> 18, LONGLONG |-> 18]
Types == DOMAIN Bits_
FlagChars == {"MINUS", "PLUS", "SPACE", "POUND", "ZERO", "GROUP"}
LowerDigits == <<"0", "1", "2", "3", "4", "5", "6", "7", "8", "9", "a", "b", "c", "d", "e", "f">>
UpperDigits == <<"0", "1", "2", "3", "4", "5", "6", "7", "8", "9", "A", "B", "C", "D", "E", "F">>
base_d == [base |-> 10, digits |-> LowerDigits, x |-> "", group |-> 3]
base_o == [base |-> 8, digits |-> LowerDigits, x |-> "", group |-> 3]
base_x == [base |-> 16, digits |-> LowerDigits, x |-> "x", group |-> 4]
base_X == [base |-> 16, digits |-> UpperDigits, x |-> "X", group |-> 4]
BaseOf == [d |-> base_d, i |-> base_d, u |-> base_d, o |-> base_o, x |-> base_x, X |-> base_X]

\* parse_conversion(): what is left of the flags, the width and the precision.
parse_conversion(flags, width, precision) ==
  LET f1 == IF "MINUS" \in flags THEN flags \ {"ZERO"} ELSE flags
      f2 == IF "PLUS" \in f1 THEN f1 \ {"SPACE"} ELSE f1
      f3 == IF width < 0 THEN f2 \cup {"MINUS"} ELSE f2
      p == IF precision < 0 THEN -1 ELSE precision IN
  [flags |-> IF p >= 0 THEN f3 \ {"ZERO"} ELSE f3,
   width |-> IF width < 0 THEN -width ELSE width,
   precision |-> p]

BufSize == 64
output_dup(ch, cnt) == [i \in 1..cnt |-> ch]
If(cond, text) == IF cond THEN text ELSE <<>>

\* The digits of value, the last one first, with separators.
RECURSIVE DigitsOf(_, _, _, _)
DigitsOf(value, b, grouped, digit_cnt) ==
  IF value = 0 THEN <<>>
  ELSE If(grouped /\ digit_cnt > 0 /\ digit_cnt % b.group = 0, <<",">>)
         \o <<b.digits[(value % b.base) + 1]>>
         \o DigitsOf(value \div b.base, b, grouped, digit_cnt + 1)

SignOf(is_signed, negative, c) ==
  CASE is_signed /\ negative -> <<"-">>
    [] is_signed /\ ~negative /\ "PLUS" \in c.flags -> <<"+">>
    [] is_signed /\ ~negative /\ "PLUS" \notin c.flags /\ "SPACE" \in c.flags -> <<" ">>
    [] OTHER -> <<>>

\* Mutant: the "0x" is not counted among the characters of the field.
PadWithoutX(c, buf, x, sign) == LET n == c.width - Len(buf) - Len(sign) IN IF n < 0 THEN 0 ELSE n
PadCnt(c, buf, x, sign) ==
  LET n == c.width - Len(buf) - Len(x) - Len(sign) IN IF n < 0 THEN 0 ELSE n

format_integer(value, is_signed, negative, b, c) ==
  LET sign == SignOf(is_signed, negative, c)
      x == If("POUND" \in c.flags /\ value # 0 /\ b.x # "", <<"0", b.x>>)
      digits == DigitsOf(value, b, "GROUP" \in c.flags, 0)
      precision == IF c.precision < 0 THEN 1 ELSE c.precision
      padded == digits \o output_dup("0", Min({precision, BufSize - 1}) - Len(digits))
      buf == padded \o If("POUND" \in c.flags /\ b.base = 8
                            /\ (padded = <<>> \/ Last(padded) # "0"), <<"0">>)
      pad_cnt == PadCnt(c, buf, x, sign) IN
  If({"MINUS", "ZERO"} \cap c.flags = {}, output_dup(" ", pad_cnt)) \o sign \o x
    \o If("ZERO" \in c.flags, output_dup("0", pad_cnt)) \o Reverse(buf)
    \o If("MINUS" \in c.flags, output_dup(" ", pad_cnt))

format_string(s, c) ==
  LET pad == output_dup(" ", c.width - Len(s)) IN
  If("MINUS" \notin c.flags, pad) \o s \o If("MINUS" \in c.flags, pad)

\* The argument as va_arg() and the casts of "%d" and "%u" leave it.
Unsigned(type, arg) == arg % 2^Bits_[type]
SignedArg(type, arg) ==
  LET value == Unsigned(type, arg)
      max == 2^Bits_[type] - 1 IN
  IF value > max \div 2 THEN value - max - 1 ELSE value

\* One conversion of __vprintf().
ConvertInteger(conv, type, arg, c) ==
  IF conv \in {"d", "i"}
  THEN LET v == SignedArg(type, arg) IN
       format_integer(IF v < 0 THEN -v ELSE v, TRUE, v < 0, base_d, c)
  ELSE format_integer(Unsigned(type, arg), FALSE, FALSE, BaseOf[conv], c)
ConvertPointer(arg, c) == format_integer(Unsigned("SIZET", arg), FALSE, FALSE, base_x, [c EXCEPT !.flags = {"POUND"}])
ConvertString(s, c) == format_string(IF c.precision < 0 THEN s ELSE SubSeq(s, 1, Min({Len(s), c.precision})), c)

\* vsnprintf() and its helper: what is stored before the null, what is returned.
vsnprintf(text, buf_size) ==
  LET max_length == IF buf_size > 0 THEN buf_size - 1 ELSE 0 IN
  [buffer |-> SubSeq(text, 1, Min({Len(text), max_length})), length |-> Len(text)]

\* hex_dump() without the ASCII column: lines of an offset, blanks and bytes.
RECURSIVE hex_dump(_, _)
hex_dump(ofs, buf) ==
  IF buf = <<>> THEN <<>>
  ELSE LET start == ofs % PerLine
           n == Min({PerLine - start, Len(buf)}) IN
       <<[ofs |-> ofs - start, cells |-> output_dup("   ", start) \o SubSeq(buf, 1, n)]>>
         \o hex_dump(ofs + n, SubSeq(buf, n + 1, Len(buf)))

-----------------------------------------------------------------------------
(* Reference.                                                              *)

DigitCount(v, base) == CHOOSE n \in 0..20 : base^n > v /\ (n = 0 \/ base^(n - 1) <= v)
\* The digits of v from the first one, a comma wherever a multiple of group is left.
Numeral(v, b, grouped) ==
  LET n == DigitCount(v, b.base) IN
  FlattenSeq([i \in 1..n |->
     If(grouped /\ i > 1 /\ (n - i + 1) % b.group = 0, <<",">>)
       \o <<b.digits[((v \div b.base^(n - i)) % b.base) + 1]>>])
Fill(ch, n) == [i \in 1..n |-> ch]
\* core in a field: left justified, or filled up with zeros behind the prefix.
Field(prefix, core, width, left, zero) ==
  LET n == width - Len(prefix) - Len(core) IN
  IF left THEN prefix \o core \o Fill(" ", n)
  ELSE IF zero THEN prefix \o Fill("0", n) \o core ELSE Fill(" ", n) \o prefix \o core
AsDocumented(v, is_signed, b, flags, width, precision) ==
  LET abs == IF v < 0 THEN -v ELSE v
      num == Numeral(abs, b, "GROUP" \in flags)
      least == IF precision < 0 THEN 1 ELSE precision
      core == Fill("0", least - Len(num)) \o num
      alt == "POUND" \in flags
      octal == If(alt /\ b.base = 8 /\ (core = <<>> \/ core[1] # "0"), <<"0">>)
      sign == IF ~is_signed THEN <<>>
              ELSE IF v < 0 THEN <<"-">>
              ELSE IF "PLUS" \in flags THEN <<"+">> ELSE If("SPACE" \in flags, <<" ">>)
      prefix == sign \o If(alt /\ abs # 0 /\ b.base = 16, <<"0", b.x>>)
  IN  Field(prefix, octal \o core, IF width < 0 THEN -width ELSE width,
            "MINUS" \in flags \/ width < 0, "ZERO" \in flags /\ precision < 0)

FmtInit == unit = "format" /\ obj = "unprinted" /\ ref = 0 /\ ret = NoReturn
Unprinted == unit = "format" /\ obj = "unprinted"
Prints(got, want) == Does("printed", ref, got, want)

\* A negative width for "*" together with the 0 flag is left out: the code
\* then pads on both sides.
PrintInteger == Unprinted /\ \E flags \in SUBSET FlagChars, width \in FmtWidths,
    precision \in FmtPrecisions, conv \in DOMAIN BaseOf, type \in {"INT", "CHAR"}, arg \in FmtValues :
  LET v == IF conv \in {"d", "i"} THEN SignedArg(type, arg) ELSE Unsigned(type, arg) IN
  /\ ~(width < 0 /\ "ZERO" \in flags)
  /\ Prints(ConvertInteger(conv, type, arg, parse_conversion(flags, width, precision)),
            AsDocumented(v, conv \in {"d", "i"}, BaseOf[conv], flags, width, precision))
\* The casts: the number printed is the argument's low bits, in two's complement.
PrintTyped == Unprinted /\ \E type \in Types, arg \in FmtValues :
  LET low == arg % 2^Bits_[type]
      v == IF low >= 2^(Bits_[type] - 1) THEN low - 2^Bits_[type] ELSE low
      c == parse_conversion({}, 0, -1) IN
  Prints(<<ConvertInteger("d", type, arg, c), ConvertInteger("u", type, arg, c)>>,
         <<AsDocumented(v, TRUE, base_d, {}, 0, -1), AsDocumented(low, FALSE, base_d, {}, 0, -1)>>)
PrintPointer == Unprinted /\ \E arg \in FmtValues, width \in FmtWidths :
  /\ width >= 0
  /\ Prints(ConvertPointer(arg, parse_conversion({}, width, -1)),
            AsDocumented(arg % 2^Bits_["SIZET"], FALSE, base_x, {"POUND"}, width, -1))
\* The text is cut at the precision, and by vsnprintf() at the buffer's end.
PrintString == Unprinted /\ \E flags \in SUBSET {"MINUS"}, width \in FmtWidths,
    precision \in FmtPrecisions, s \in FmtStrings, size \in 0..4 :
  LET cut == SubSeq(s, 1, IF precision < 0 THEN Len(s) ELSE Min({precision, Len(s)}))
      text == Field(<<>>, cut, IF width < 0 THEN -width ELSE width, flags # {} \/ width < 0, FALSE) IN
  Prints(vsnprintf(ConvertString(s, parse_conversion(flags, width, precision)), size),
         [buffer |-> IF size = 0 THEN <<>> ELSE SubSeq(text, 1, Min({size - 1, Len(text)})),
          length |-> Len(text)])
\* Every byte is on the line, and in the column, of its address, once.
Dump == Unprinted /\ \E ofs \in 0..2 * PerLine, n \in 0..MaxDump :
  LET buf == [i \in 1..n |-> ToString(ofs + i - 1)]
      lines == hex_dump(ofs, buf) IN
  Prints({<<lines[l].ofs + k - 1, lines[l].cells[k]>> :
            <<l, k>> \in {<<l, k>> \in (1..Len(lines)) \X (1..PerLine) :
                            k <= Len(lines[l].cells) /\ lines[l].cells[k] # "   "}},
         {<<a, ToString(a)>> : a \in ofs..ofs + n - 1})

FmtNext == PrintInteger \/ PrintTyped \/ PrintPointer \/ PrintString \/ Dump

\* The text of every combination of flags, width, precision, type and value is
\* the one the C standard prescribes; vsnprintf() stores what fits and returns
\* the whole length; hex_dump() shows each byte once, at its address.
FormatExact == unit = "format" => ret.got = ret.want
=============================================================================
