----------------------------- MODULE CliNumbers -----------------------------
(***************************************************************************)
(* Integers between texts and machine words: the parsers and formatters of *)
(* the command arguments (utils/cli_args_parse.c), and the statistics of   *)
(* the tick.                                                               *)
(*                                                                         *)
(* A word has Width bits and its arithmetic wraps; Narrow stands for every *)
(* type that is parsed as a wider one.  A character is the value of its    *)
(* digit (10 to 15 for a to f), or one of the names below.  The conversion *)
(* of a floating-point text is the C library's; which texts reach it is    *)
(* modelled.                                                               *)
(***************************************************************************)
EXTENDS Integers, Sequences

LOCAL INSTANCE SequencesExt

CONSTANTS
  Width,       \* bits of uint32_t, uint64_t
  Narrow,      \* bits of a narrower type
  LongWidth,   \* bits of unsigned long, which the strtol parsers go through
  Arguments,   \* the texts that are parsed
  Values,      \* the numbers that are formatted
  Sizes,       \* the buffer sizes they are formatted into
  MaxTicks,    \* UINT32_MAX, where the count of the statistics stops
  Durations    \* how long a tick takes

MINUS == -1
PLUS == -2
LETTER_X == -3
BLANK == -4
POINT == -5
LETTER_E == 14

ASSUME NumbersAssumption ==
  /\ Width \in Nat /\ Narrow \in 1 .. Width - 1 /\ LongWidth \in Nat /\ LongWidth >= Width
  /\ Width % 4 = 0 /\ Narrow % 4 = 0
  /\ \A v \in Values : v \in -(2 ^ (Width - 1)) .. 2 ^ Width - 1
  /\ MaxTicks \in Nat \ {0} /\ Durations \subseteq Nat

VARIABLES
  answer,  \* the last call, what it returned and what it wrote
  stats    \* tick_stats

numberVars == <<answer, stats>>

Unsigned(w) == 2 ^ w - 1
SignedMax(w) == 2 ^ (w - 1) - 1
SignedMin(w) == -(2 ^ (w - 1))
Wrapped(n) == n % 2 ^ Width

Widths == {Width, Narrow}

-----------------------------------------------------------------------------
(* Parsing                                                                 *)

Failed == [ok |-> FALSE, value |-> 0]

IsDigit(c, base) == c \in 0 .. base - 1

(* Mutant: only a value that is already above the limit overflows.         *)
NextFitsLoosely(val, digit) == val <= Unsigned(Width) \div 10

\* The next digit is checked against constants before it is multiplied in.
NextFits(val, digit) ==
  \/ val < Unsigned(Width) \div 10
  \/ val = Unsigned(Width) \div 10 /\ digit <= Unsigned(Width) % 10

\* parse_dec_u32, parse_dec_u64
ParseDec(s, max) ==
  LET Digit(r, c) ==
        IF ~r.ok \/ ~IsDigit(c, 10) \/ ~NextFits(r.value, c) THEN Failed
        ELSE LET value == Wrapped(r.value * 10 + c)
             IN  IF value <= max THEN [ok |-> TRUE, value |-> value] ELSE Failed
  IN  IF s = <<>> THEN Failed ELSE FoldLeft(Digit, [ok |-> TRUE, value |-> 0], s)

Negative(s) == s # <<>> /\ s[1] = MINUS
Magnitude(s) == IF s # <<>> /\ s[1] \in {MINUS, PLUS} THEN Tail(s) ELSE s

\* parse_dec_i32, parse_i64: a negative number may be one larger.
ParseSigned(s, w) ==
  LET r == ParseDec(Magnitude(s), IF Negative(s) THEN -SignedMin(w) ELSE SignedMax(w))
  IN  IF Negative(s) THEN [r EXCEPT !.value = -@] ELSE r

\* parse_hex_u64, and parse_hex_u32 by its result.
ParseHex(s, w) ==
  LET digits == IF Len(s) >= 2 /\ s[1] = 0 /\ s[2] = LETTER_X THEN SubSeq(s, 3, Len(s)) ELSE s
      Digit(r, c) ==
        IF ~r.ok \/ ~IsDigit(c, 16) \/ r.value > Unsigned(Width) \div 16 THEN Failed
        ELSE [ok |-> TRUE, value |-> Wrapped(r.value * 16 + c)]
      r == IF digits = <<>> THEN Failed ELSE FoldLeft(Digit, [ok |-> TRUE, value |-> 0], digits)
  IN  IF r.ok /\ r.value <= Unsigned(w) THEN r ELSE Failed

\* What a run of digits is worth, however long it is.
Worth(s, base) == FoldLeft(LAMBDA v, c : v * base + c, 0, s)

Unblanked(s) ==
  LET text == {i \in 1 .. Len(s) : s[i] # BLANK}
  IN  IF text = {} THEN <<>>
      ELSE SubSeq(s, CHOOSE i \in text : \A j \in text : i <= j, Len(s))

\* strtoul and strtol of the C library with base 0: the whole text as blanks, a sign and
\* a hexadecimal, octal or decimal number.
CNumber(s) ==
  LET t == Magnitude(Unblanked(s))
      hex == Len(t) >= 3 /\ t[1] = 0 /\ t[2] = LETTER_X
      base == IF hex THEN 16 ELSE IF t # <<>> /\ t[1] = 0 THEN 8 ELSE 10
      digits == IF hex THEN SubSeq(t, 3, Len(t)) ELSE t
      whole == digits # <<>> /\ \A i \in 1 .. Len(digits) : IsDigit(digits[i], base)
  IN  [ok |-> whole, value |-> IF whole THEN Worth(digits, base) ELSE 0]

\* The sign is turned down: strtoul would negate the number modulo its width.
StrtolUnsigned(s, w) ==
  LET c == CNumber(s)
  IN  IF c.ok /\ ~Negative(Unblanked(s)) /\ c.value <= Unsigned(LongWidth)
         /\ c.value <= Unsigned(w)
      THEN c ELSE Failed

StrtolSigned(s, w) ==
  LET c == CNumber(s)
      value == IF Negative(Unblanked(s)) THEN -c.value ELSE c.value
  IN  IF c.ok /\ value \in SignedMin(LongWidth) .. SignedMax(LongWidth)
         /\ value \in SignedMin(w) .. SignedMax(w)
      THEN [ok |-> TRUE, value |-> value] ELSE Failed

\* is_decimal_float_text: scanned once from left to right.
FloatText(s) ==
  LET Skip(i) == CHOOSE j \in i .. Len(s) + 1 :
                   /\ \A k \in i .. j - 1 : IsDigit(s[k], 10)
                   /\ j <= Len(s) => ~IsDigit(s[j], 10)
      At(i, C) == i <= Len(s) /\ s[i] \in C
      start == IF At(1, {MINUS, PLUS}) THEN 2 ELSE 1
      whole == Skip(start)
      point == At(whole, {POINT})
      fraction == IF point THEN Skip(whole + 1) ELSE whole
      digits == whole > start \/ (point /\ fraction > whole + 1)
      power == fraction + (IF At(fraction + 1, {MINUS, PLUS}) THEN 2 ELSE 1)
  IN  IF digits /\ At(fraction, {LETTER_E})
      THEN At(power, 0 .. 9) /\ Skip(power) = Len(s) + 1
      ELSE digits /\ fraction = Len(s) + 1

-----------------------------------------------------------------------------
(* Formatting: all of the number or nothing                                *)

\* The digits of a number, least significant first.
Reversed(v, base) ==
  LET of[n \in 0 .. Width] ==
        IF n = 0 THEN [left |-> v, digits |-> <<>>]
        ELSE LET before == of[n - 1]
             IN  IF n > 1 /\ before.left = 0 THEN before
                 ELSE [left |-> before.left \div base,
                       digits |-> Append(before.digits, before.left % base)]
  IN  of[Width].digits

\* put_digits: with the NUL they have to fit.
PutDigits(digits, size) == IF Len(digits) < size THEN Reverse(digits) ELSE <<>>

FormatUnsigned(v, size) == PutDigits(Reversed(v, 10), size)

FormatSigned(v, size) ==
  IF v >= 0 THEN FormatUnsigned(v, size)
  ELSE LET digits == IF size >= 2 THEN FormatUnsigned(-v, size - 1) ELSE <<>>
       IN  IF digits = <<>> THEN <<>> ELSE <<MINUS>> \o digits

FormatHex(v, size) ==
  LET digits == Reverse(Reversed(v, 16))
  IN  IF 2 + Len(digits) < size THEN <<0, LETTER_X>> \o digits ELSE <<>>

\* format_bytes over format_hex8: whole bytes only, a blank between them.
FormatBytes(data, size) ==
  LET Byte(i) == (IF i = 1 THEN <<>> ELSE <<BLANK>>) \o <<data[i] \div 16, data[i] % 16>>
      upto[n \in 0 .. Len(data)] ==
        IF n = 0 THEN [text |-> <<>>, full |-> FALSE]
        ELSE LET before == upto[n - 1]
             IN  IF before.full \/ Len(before.text) + Len(Byte(n)) + 1 > size
                 THEN [before EXCEPT !.full = TRUE]
                 ELSE [before EXCEPT !.text = @ \o Byte(n)]
  IN  upto[Len(data)].text

-----------------------------------------------------------------------------

NoAnswer == [call |-> "none"]
NoStats == [count |-> 0, min |-> 0, max |-> 0, avg |-> 0]

NumbersInit == answer = NoAnswer /\ stats = NoStats

Answers(call, w, text, size, r) ==
  /\ answer' = [call |-> call, width |-> w, text |-> text, size |-> size, result |-> r]
  /\ UNCHANGED stats

Parse(s) ==
  \E w \in Widths :
    \/ Answers("u", w, s, 0, ParseDec(s, Unsigned(w)))
    \/ Answers("i", w, s, 0, ParseSigned(s, w))
    \/ Answers("hex", w, s, 0, ParseHex(s, w))
    \/ Answers("float", w, s, 0, [ok |-> FloatText(s), value |-> 0])

StrtolParse(s) ==
  \E w \in Widths :
    \/ Answers("strtou", w, s, 0, StrtolUnsigned(s, w))
    \/ Answers("strtoi", w, s, 0, StrtolSigned(s, w))

Format(v, size) ==
  \/ v >= 0 /\ Answers("fu", Width, v, size, FormatUnsigned(v, size))
  \/ v <= SignedMax(Width) /\ Answers("fi", Width, v, size, FormatSigned(v, size))
  \/ v >= 0 /\ Answers("fhex", Width, v, size, FormatHex(v, size))

\* Bound: two bytes.
Dump(a, b, size) == Answers("bytes", Width, <<a, b>>, size, FormatBytes(<<a, b>>, size))

\* Division of C, towards zero.
Quotient(n, d) == IF n < 0 THEN -((-n) \div d) ELSE n \div d

NextMean(avg, elapsed, count) == avg + Quotient(elapsed - avg, count)

\* The end of cli_tick.
Tick(elapsed) ==
  /\ LET count == IF stats.count < MaxTicks THEN stats.count + 1 ELSE stats.count
     IN  stats' = [count |-> count,
                   min |-> IF count = 1 \/ elapsed < stats.min THEN elapsed ELSE stats.min,
                   max |-> IF elapsed > stats.max THEN elapsed ELSE stats.max,
                   avg |-> NextMean(stats.avg, elapsed, count)]
  /\ UNCHANGED answer

ResetStats == stats' = NoStats /\ UNCHANGED answer

\* Bound: calls with an argument are looked at before the first tick.
NumbersNext ==
  \/ /\ stats = NoStats /\ answer = NoAnswer
     /\ \/ \E s \in Arguments : Parse(s) \/ StrtolParse(s)
        \/ \E v \in Values, size \in Sizes : Format(v, size)
        \/ \E a, b \in Values, size \in Sizes : a >= 0 /\ b >= 0 /\ Dump(a, b, size)
  \/ answer = NoAnswer /\ ((\E d \in Durations : Tick(d)) \/ ResetStats)

-----------------------------------------------------------------------------
(* Correctness                                                             *)

AllDigits(s, base) == s # <<>> /\ \A i \in 1 .. Len(s) : IsDigit(s[i], base)

SignedWorth(s) == IF Negative(s) THEN -Worth(Magnitude(s), 10) ELSE Worth(Magnitude(s), 10)

\* A text is accepted exactly if it is a number of the grammar within the type's range,
\* and read as that number, at the limits of each width, however many digits it has; a
\* number is written completely, with its NUL, or not at all, and is read back the same.
\* The mean of the tick durations stays between the shortest and the longest, through the
\* truncated divisions and when the count has stopped at its limit.
NumbersAreExact ==
  /\ stats.count > 0 => stats.min <= stats.avg /\ stats.avg <= stats.max
  /\ answer # NoAnswer =>
       LET s == answer.text
           r == answer.result
           Reads(grammar, value, low, high) ==
             /\ r.ok <=> grammar /\ value \in low .. high
             /\ r.ok => r.value = value
           Written(length, back) ==
             IF length < answer.size
             THEN Len(r) = length /\ back = [ok |-> TRUE, value |-> s]
             ELSE r = <<>>
           Hex == IF Len(s) >= 2 /\ s[2] = LETTER_X /\ s[1] = 0 THEN SubSeq(s, 3, Len(s)) ELSE s
           Exponent(t) == AllDigits(Magnitude(t), 10)
           Mantissa(t) ==
             /\ \E i \in 1 .. Len(t) : IsDigit(t[i], 10)
             /\ \A i \in 1 .. Len(t) : IsDigit(t[i], 10) \/ t[i] = POINT
             /\ \A i, j \in 1 .. Len(t) : t[i] = POINT /\ t[j] = POINT => i = j
       IN  CASE answer.call = "u" ->
                  Reads(AllDigits(s, 10), Worth(s, 10), 0, Unsigned(answer.width))
             [] answer.call = "i" ->
                  Reads(AllDigits(Magnitude(s), 10), SignedWorth(s),
                        SignedMin(answer.width), SignedMax(answer.width))
             [] answer.call = "hex" ->
                  Reads(AllDigits(Hex, 16), Worth(Hex, 16), 0, Unsigned(answer.width))
             [] answer.call = "strtou" ->
                  r.ok => r.value \in 0 .. Unsigned(answer.width) /\ ~Negative(Unblanked(s))
             [] answer.call = "strtoi" ->
                  r.ok => r.value \in SignedMin(answer.width) .. SignedMax(answer.width)
             [] answer.call = "float" ->
                  r.ok <=> \/ Mantissa(Magnitude(s))
                           \/ \E i \in 1 .. Len(s) :
                                /\ s[i] = LETTER_E
                                /\ Mantissa(Magnitude(SubSeq(s, 1, i - 1)))
                                /\ Exponent(SubSeq(s, i + 1, Len(s)))
             [] answer.call = "fu" -> Written(Len(Reversed(s, 10)), ParseDec(r, Unsigned(Width)))
             [] answer.call = "fi" ->
                  Written(Len(Reversed(IF s < 0 THEN -s ELSE s, 10)) + (IF s < 0 THEN 1 ELSE 0),
                          ParseSigned(r, Width))
             [] answer.call = "fhex" -> Written(Len(Reversed(s, 16)) + 2, ParseHex(r, Width))
             [] answer.call = "bytes" ->
                  /\ Len(r) < answer.size \/ r = <<>>
                  /\ Len(r) = IF answer.size > 5 THEN 5 ELSE IF answer.size > 2 THEN 2 ELSE 0

=============================================================================
