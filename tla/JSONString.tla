----------------------------- MODULE JSONString -----------------------------
(***************************************************************************)
(* safeAppendStringLike: a string of bytes is copied into a JSON string in *)
(* runs that need no escaping, with escapes between them.  Bytes are       *)
(* numbers; s[k] is the code's s[k - 1], so i and last start at 1.         *)
(***************************************************************************)
EXTENDS Integers, Sequences, SequencesExt

CONSTANT Strings   \* the strings to append

VARIABLES
  s, i, last,   \* the string, and the indices of the loop
  buf,          \* what is appended to the buffer
  pc

vars == <<s, i, last, buf, pc>>

Quote == 34
Backslash == 92
Newline == 10
Return == 13
Tab == 9
RuneSelf == 128
RuneError == <<239, 191, 189>>   \* the replacement character, in UTF-8

Init == s = << >> /\ i = 1 /\ last = 1 /\ buf = << >> /\ pc = "idle"

AppendStringLike(str) ==
  /\ pc = "idle"
  /\ s' = str /\ i' = 1 /\ last' = 1 /\ buf' = << >> /\ pc' = "loop"

\* utf8.DecodeRune at position k, for leading bytes of two and of three bytes: the
\* bytes of the rune, or RuneError and a width of 1.
IsTail(str, k) == k <= Len(str) /\ str[k] \in 128 .. 191
DecodeRune(str, k) ==
  CASE str[k] \in 194 .. 223 /\ IsTail(str, k + 1) ->
         [r |-> SubSeq(str, k, k + 1), size |-> 2]
    [] str[k] \in (225 .. 239) \ {237} /\ IsTail(str, k + 1) /\ IsTail(str, k + 2) ->
         [r |-> SubSeq(str, k, k + 2), size |-> 3]
    [] OTHER -> [r |-> RuneError, size |-> 1]

InLoop == pc = "loop" /\ i <= Len(s)

Skip(n) == i' = i + n /\ UNCHANGED <<s, last, buf, pc>>

Plain(c) == c >= 32 /\ c # Backslash /\ c # Quote

\* Mutant of Invalid: any replacement character is taken for an invalid sequence.
InvalidByRune(d) == d.r = RuneError

\* The replacement character may be in the string itself, three bytes wide.
Invalid(d) == d.r = RuneError /\ d.size = 1

\* A whole rune of several bytes is left for a later copy.
SkipRune ==
  /\ InLoop /\ s[i] >= RuneSelf
  /\ ~Invalid(DecodeRune(s, i))
  /\ Skip(DecodeRune(s, i).size)

SkipByte == InLoop /\ s[i] < RuneSelf /\ Plain(s[i]) /\ Skip(1)

\* What was skipped is copied, then the escape.
Escape(e) ==
  /\ buf' = buf \o SubSeq(s, last, i - 1) \o e
  /\ i' = i + 1 /\ last' = i + 1
  /\ UNCHANGED <<s, pc>>

EscapeInvalid ==
  /\ InLoop /\ s[i] >= RuneSelf
  /\ Invalid(DecodeRune(s, i))
  /\ Escape(<<Backslash, 117, 102, 102, 102, 100>>)   \* the six characters of an escaped U+FFFD

Hex(d) == IF d < 10 THEN 48 + d ELSE 87 + d

EscapeByte ==
  /\ InLoop /\ s[i] < RuneSelf /\ ~Plain(s[i])
  /\ Escape(CASE s[i] \in {Backslash, Quote} -> <<Backslash, s[i]>>
              [] s[i] = Newline -> <<Backslash, 110>>
              [] s[i] = Return -> <<Backslash, 114>>
              [] s[i] = Tab -> <<Backslash, 116>>
              [] OTHER -> <<Backslash, 117, 48, 48, Hex(s[i] \div 16), Hex(s[i] % 16)>>)

AddRemaining ==
  /\ pc = "loop" /\ i > Len(s)
  /\ buf' = buf \o SubSeq(s, last, Len(s))
  /\ pc' = "done"
  /\ UNCHANGED <<s, i, last>>

Next ==
  \/ pc = "idle" /\ \E str \in Strings : AppendStringLike(str)
  \/ SkipRune \/ SkipByte \/ EscapeInvalid \/ EscapeByte \/ AddRemaining

Spec == Init /\ [][Next]_vars
-----------------------------------------------------------------------------
\* The string with a replacement character for each byte of no rune.
Repaired(str) ==
  LET from[k \in 1 .. Len(str) + 3] ==
        IF k > Len(str) THEN << >>
        ELSE IF str[k] < RuneSelf THEN <<str[k]>> \o from[k + 1]
        ELSE DecodeRune(str, k).r \o from[k + DecodeRune(str, k).size]
  IN from[1]

Digit(c) == IF c >= 97 THEN c - 87 ELSE c - 48

\* What a JSON reader makes of the text between two quotes, and -1 for what is not
\* allowed there.
Unescaped(text) ==
  LET from[k \in 1 .. Len(text) + 6] ==
        IF k > Len(text) THEN << >>
        ELSE IF text[k] < 32 \/ text[k] = Quote THEN <<-1>>
        ELSE IF text[k] # Backslash THEN <<text[k]>> \o from[k + 1]
        ELSE CASE text[k + 1] = 110 -> <<Newline>> \o from[k + 2]
               [] text[k + 1] = 114 -> <<Return>> \o from[k + 2]
               [] text[k + 1] = 116 -> <<Tab>> \o from[k + 2]
               [] text[k + 1] = 117 ->
                    (IF SubSeq(text, k + 2, k + 5) = <<102, 102, 102, 100>> THEN RuneError
                     ELSE <<Digit(text[k + 4]) * 16 + Digit(text[k + 5])>>) \o from[k + 6]
               [] OTHER -> <<text[k + 1]>> \o from[k + 2]
  IN from[1]

\* A reader of the line gets back the string that was logged, byte for byte but for
\* the replacement of invalid UTF-8, however the runs that are copied and the
\* escapes between them fall.
StringsReadBack == pc = "done" => Unescaped(buf) = Repaired(s)
=============================================================================
