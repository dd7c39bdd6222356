------------------------------- MODULE Printf -------------------------------
(***************************************************************************)
(* Formatted output, libc/stdio.c: vsnkprintf, and __vkprintf, which       *)
(* kprintf and vkprintf share with it.  A character is a string of length  *)
(* one, "" the terminator; the state is one call, a step one turn of the   *)
(* loop over the format.  The two messages for conversions that are not    *)
(* supported are shortened.                                                *)
(***************************************************************************)
EXTENDS Integers, Sequences, SequencesExt

CONSTANTS
  BUF,      \* sizeof buf in format_integer
  Bits,     \* the width of the integer types
  Jobs,     \* the calls: <<format, arguments>>
  Sizes     \* the values of buf_size

VARIABLES
  format, at,  \* the format and the position in it
  args,        \* the arguments that are left
  aux,         \* [length, max_length] of vsnkprintf_aux
  buffer,      \* what was stored at the buffer
  out,         \* every character that was given to output
  made,        \* the last conversion: [c, conv, arg, text]
  done

vars == <<format, at, args, aux, buffer, out, made, done>>

Digits == <<"0", "1", "2", "3", "4", "5", "6", "7", "8", "9">>
base_d == [base |-> 10, digits |-> Digits, x |-> "", group |-> 3]
base_o == [base |-> 8, digits |-> Digits, x |-> "", group |-> 3]
base_x == [base |-> 16, digits |-> Digits \o <<"a", "b", "c", "d", "e", "f">>,
           x |-> "x", group |-> 4]
base_X == [base |-> 16, digits |-> Digits \o <<"A", "B", "C", "D", "E", "F">>,
           x |-> "X", group |-> 4]

isdigit(ch) == Contains(Digits, ch)
digit(ch) == CHOOSE d \in 0 .. 9 : Digits[d + 1] = ch

-----------------------------------------------------------------------------
(* parse_conversion.                                                       *)

RECURSIVE Flags(_, _, _)
Flags(f, i, flags) ==
  IF f[i] \in {"-", "+", " ", "#", "0", "'"} THEN Flags(f, i + 1, flags \union {f[i]})
  ELSE <<i, flags>>

RECURSIVE Number(_, _, _)
Number(f, i, n) ==
  IF isdigit(f[i]) THEN Number(f, i + 1, n * 10 + digit(f[i]))
  ELSE <<i, n>>

\* A width or a precision: an argument or digits.
Field(f, i, a) ==
  LET n == Number(f, i, 0)
  IN  IF f[i] = "*" THEN <<i + 1, Tail(a), Head(a)>> ELSE <<n[1], a, n[2]>>

Type(f, i) ==
  CASE f[i] = "h" /\ f[i + 1] = "h" -> <<i + 2, "CHAR">>
    [] f[i] = "h" /\ f[i + 1] # "h" -> <<i + 1, "SHORT">>
    [] f[i] = "l" /\ f[i + 1] = "l" -> <<i + 2, "LONGLONG">>
    [] f[i] = "l" /\ f[i + 1] # "l" -> <<i + 1, "LONG">>
    [] f[i] = "j" -> <<i + 1, "INTMAX">>
    [] f[i] = "t" -> <<i + 1, "PTRDIFFT">>
    [] f[i] = "z" -> <<i + 1, "SIZET">>
    [] OTHER -> <<i, "INT">>

\* A negative width sets MINUS after MINUS has cleared ZERO.
parse_conversion(f, i, a) ==
  LET g == Flags(f, i, {})
      w == Field(f, g[1], a)
      q == IF f[w[1]] = "." THEN Field(f, w[1] + 1, w[2]) ELSE <<w[1], w[2], -1>>
      t == Type(f, q[1])
      flags == {x \in g[2] : (x = "0" => "-" \notin g[2]) /\ (x = " " => "+" \notin g[2])}
               \union (IF w[3] < 0 THEN {"-"} ELSE {})
  IN  [at |-> t[1], args |-> q[2],
       flags |-> IF q[3] >= 0 THEN flags \ {"0"} ELSE flags,
       width |-> IF w[3] < 0 THEN -w[3] ELSE w[3],
       precision |-> IF q[3] < 0 THEN -1 ELSE q[3],
       type |-> t[2]]

-----------------------------------------------------------------------------
(* Conversions: the characters they give to output.                        *)

output_dup(ch, cnt) == [k \in 1 .. (IF cnt > 0 THEN cnt ELSE 0) |-> ch]

\* The loop that accumulates digits, the lowest first.
RECURSIVE Accumulate(_, _, _, _)
Accumulate(value, b, group, digit_cnt) ==
  IF value = 0 THEN <<>>
  ELSE (IF group /\ digit_cnt > 0 /\ digit_cnt % b.group = 0 THEN <<",">> ELSE <<>>)
       \o <<b.digits[(value % b.base) + 1]>>
       \o Accumulate(value \div b.base, b, group, digit_cnt + 1)

SignOf(is_signed, negative, c) ==
  CASE is_signed /\ negative -> <<"-">>
    [] is_signed /\ ~negative /\ "+" \in c.flags -> <<"+">>
    [] is_signed /\ ~negative /\ "+" \notin c.flags /\ " " \in c.flags -> <<" ">>
    [] OTHER -> <<>>

\* Mutant: an octal number that needs no zeros gets none for the # flag.
BodyBare(value, b, c) ==
  LET digs == Accumulate(value, b, "'" \in c.flags, 0)
      want == IF c.precision < 0 THEN 1 ELSE Min({c.precision, BUF - 1})
  IN  digs \o output_dup("0", want - Len(digs))

\* buf: the digits and the zeros for the precision, the lowest first.
Body(value, b, c) ==
  LET digs == Accumulate(value, b, "'" \in c.flags, 0)
      want == IF c.precision < 0 THEN 1 ELSE Min({c.precision, BUF - 1})
      full == digs \o output_dup("0", want - Len(digs))
  IN  IF "#" \in c.flags /\ b.base = 8 /\ (full = <<>> \/ full[Len(full)] # "0")
      THEN Append(full, "0") ELSE full

\* Mutant: the prefix is not counted.
pad_cntWide(c, buf, x, sign) == c.width - Len(buf) - Len(sign)

pad_cnt(c, buf, x, sign) == c.width - Len(buf) - Len(x) - Len(sign)

format_integer(value, is_signed, negative, b, c) ==
  LET sign == SignOf(is_signed, negative, c)
      x    == IF "#" \in c.flags /\ value # 0 /\ b.x # "" THEN <<"0", b.x>> ELSE <<>>
      buf  == Body(value, b, c)
      pad  == pad_cnt(c, buf, x, sign)
  IN  (IF {"-", "0"} \intersect c.flags = {} THEN output_dup(" ", pad) ELSE <<>>)
      \o sign \o x
      \o (IF "0" \in c.flags THEN output_dup("0", pad) ELSE <<>>)
      \o Reverse(buf)
      \o (IF "-" \in c.flags THEN output_dup(" ", pad) ELSE <<>>)

format_string(string, length, c) ==
  LET pad == output_dup(" ", c.width - length)
  IN  (IF "-" \in c.flags THEN <<>> ELSE pad) \o SubSeq(string, 1, length)
      \o (IF "-" \in c.flags THEN pad ELSE <<>>)

\* The value of an argument of a type; -value in intmax_t wraps around.
Unsigned(v, type) == v % 2^Bits[type]

\* Mutant: the argument is not cut to its type.
SignedWide(v, type) == IF v >= 2^(Bits["LONG"] - 1) THEN v - 2^Bits["LONG"] ELSE v

Signed(v, type) ==
  LET u == Unsigned(v, type) IN IF u >= 2^(Bits[type] - 1) THEN u - 2^Bits[type] ELSE u

NULL == <<"NULL">>
String(s) == IF s = NULL THEN <<"(", "n", "u", "l", "l", ")">> ELSE s

\* strnlen, with SIZE_MAX for a precision of -1.
Limit(s, precision) == IF precision < 0 THEN Len(s) ELSE Min({precision, Len(s)})

Taking == {"d", "i", "o", "u", "x", "X", "c", "s", "p"}

\* The switch of __vkprintf on the conversion character.
Convert(conv, c, arg) ==
  CASE conv \in {"d", "i"} ->
         LET v == Signed(arg, c.type)
         IN  format_integer(IF v < 0 THEN -v ELSE v, TRUE, v < 0, base_d, c)
    [] conv = "o" -> format_integer(Unsigned(arg, c.type), FALSE, FALSE, base_o, c)
    [] conv = "u" -> format_integer(Unsigned(arg, c.type), FALSE, FALSE, base_d, c)
    [] conv = "x" -> format_integer(Unsigned(arg, c.type), FALSE, FALSE, base_x, c)
    [] conv = "X" -> format_integer(Unsigned(arg, c.type), FALSE, FALSE, base_X, c)
    [] conv = "c" -> format_string(<<arg>>, 1, c)
    [] conv = "s" -> format_string(String(arg), Limit(String(arg), c.precision), c)
    [] conv = "p" -> format_integer(Unsigned(arg, "LONG"), FALSE, FALSE, base_x,
                                    [c EXCEPT !.flags = {"#"}])
    [] conv \in {"f", "e", "E", "g", "G", "n"} -> <<"<", "%", conv, "k", ">">>
    [] OTHER -> <<"<", "%", conv, "c", ">">>

-----------------------------------------------------------------------------
(* The call.                                                               *)

\* Mutant: one character too many is stored.
vsnkprintf_helperOver(text) ==
  /\ aux' = [aux EXCEPT !.length = @ + Len(text)]
  /\ buffer' = SubSeq(buffer \o text, 1,
                      Min({aux.max_length + 1, Len(buffer) + Len(text)}))
  /\ out' = out \o text

\* The calls of output for the characters of text.
vsnkprintf_helper(text) ==
  /\ aux' = [aux EXCEPT !.length = @ + Len(text)]
  /\ buffer' = buffer \o SubSeq(text, 1, Max({0, Min({aux.max_length - aux.length, Len(text)})}))
  /\ out' = out \o text

NoConversion == [conv |-> ""]

Init ==
  \E j \in Jobs, buf_size \in Sizes :
    /\ format = Append(j[1], "") /\ args = j[2]
    /\ at = 1 /\ buffer = <<>> /\ out = <<>> /\ made = NoConversion /\ done = FALSE
    /\ aux = [length |-> 0, max_length |-> IF buf_size > 0 THEN buf_size - 1 ELSE 0,
              buf_size |-> buf_size]

\* A character that is copied, and %%.
Literal ==
  /\ ~done /\ format[at] # ""
  /\ format[at] = "%" => format[at + 1] = "%"
  /\ vsnkprintf_helper(<<format[at]>>)
  /\ at' = IF format[at] = "%" THEN at + 2 ELSE at + 1
  /\ made' = NoConversion
  /\ UNCHANGED <<format, args, done>>

Conversion ==
  /\ ~done /\ format[at] = "%" /\ format[at + 1] # "%"
  /\ LET c    == parse_conversion(format, at + 1, args)
         conv == format[c.at]
         arg  == IF conv \in Taking THEN Head(c.args) ELSE 0
         text == Convert(conv, c, arg)
     IN  /\ vsnkprintf_helper(text)
         /\ at' = c.at + 1
         /\ args' = IF conv \in Taking THEN Tail(c.args) ELSE c.args
         /\ made' = [conv |-> conv, c |-> c, arg |-> arg, text |-> text]
  /\ UNCHANGED <<format, done>>

Terminate ==
  /\ ~done /\ format[at] = ""
  /\ done' = TRUE
  /\ buffer' = IF aux.buf_size > 0 THEN Append(buffer, "") ELSE buffer
  /\ UNCHANGED <<format, at, args, aux, out, made>>

Next == Literal \/ Conversion \/ Terminate

Spec == Init /\ [][Next]_vars

-----------------------------------------------------------------------------
(* Properties.                                                             *)

\* vsnkprintf "writes at most BUF_SIZE - 1 characters to BUFFER, followed by a
\* null terminator", and returns "the number of characters that would have
\* been written": the buffer holds the beginning of the whole output, whatever
\* conversion was cut.
BufferDoc ==
  LET n == Min({aux.max_length, Len(out)})
  IN  /\ aux.length = Len(out)
      /\ buffer = SubSeq(out, 1, n) \o (IF done /\ aux.buf_size > 0 THEN <<"">> ELSE <<>>)
      /\ Len(buffer) <= aux.buf_size
      /\ done => args = <<>>

Integers0 == {"d", "i", "u", "o", "x", "X"}
BaseOf(conv) == CASE conv = "o" -> base_o [] conv = "x" -> base_x [] conv = "X" -> base_X
                  [] OTHER -> base_d

RECURSIVE Denoted(_, _)
Denoted(text, b) ==
  IF text = <<>> THEN 0
  ELSE LET d == {k \in 1 .. b.base : b.digits[k] = Last(text)}
       IN  IF d = {} THEN Denoted(Front(text), b)
           ELSE Denoted(Front(text), b) * b.base + (CHOOSE k \in d : TRUE) - 1

\* Reading an integer conversion back gives the argument, reduced to the width
\* of its type: whatever signs, prefixes, commas, zeros and blanks surround
\* the digits.
ReadBack ==
  made.conv \in Integers0 =>
    LET w == 2^Bits[made.c.type]
        u == made.arg % w
        n == Denoted(made.text, BaseOf(made.conv))
    IN  IF made.conv \in {"d", "i"} /\ 2 * u >= w
        THEN Contains(made.text, "-") /\ n = w - u
        ELSE ~Contains(made.text, "-") /\ n = u

\* Padding fills the field: it is as wide as asked for, or as the conversion is
\* without a width ("pad characters to fill field width").
FieldFilled ==
  made.conv \in Taking =>
    Len(made.text) =
      Max({made.c.width, Len(Convert(made.conv, [made.c EXCEPT !.width = 0], made.arg))})

\* The comments of format_integer: only a signed conversion has a sign; only a
\* hexadecimal one of a nonzero value has the prefix; with # an octal one
\* begins with a zero; a zero with precision 0 leaves nothing but padding.
IntegerComments ==
  made.conv \in Integers0 =>
    LET text == SelectSeq(made.text, LAMBDA ch : ch # " ")
        zero == made.arg % 2^Bits[made.c.type] = 0
    IN  /\ made.conv \notin {"d", "i"} => ~Contains(text, "-") /\ ~Contains(text, "+")
        /\ Contains(text, "x") \/ Contains(text, "X") =>
             made.conv \in {"x", "X"} /\ ~zero /\ "#" \in made.c.flags
        /\ made.conv = "o" /\ "#" \in made.c.flags => text # <<>> /\ text[1] = "0"
        /\ zero /\ made.c.precision = 0 /\ made.conv \in {"u", "x", "X"} => text = <<>>
=============================================================================
