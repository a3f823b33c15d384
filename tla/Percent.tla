------------------------------- MODULE Percent -------------------------------
(***************************************************************************)
(* The two readers of %-escapes and the length estimate that goes with     *)
(* them: url_decode() and estimate_decoded_length() of src/utils.cpp, and  *)
(* decode_status_param() of src/handlers/admin.cpp.  Texts are sequences   *)
(* of bytes.                                                               *)
(***************************************************************************)
EXTENDS Integers, Sequences, SequencesExt

CONSTANT Leftover(_)   \* the byte that `value` of url_decode() holds, not
                       \* initialised, at the escape at some position

PercentSign == 37
PlusSign == 43
MinusSign == 45
Space == 32
LineEnds == {0, 10, 13}
Whitespace == {9, 10, 11, 12, 13, 32}

\* hex_val()
HexVal(c) == CASE c \in 48 .. 57 -> c - 48
               [] c \in 97 .. 102 -> c - 97 + 10
               [] c \in 65 .. 70 -> c - 65 + 10
               [] OTHER -> -1

\* The character at position i of a C string, which ends with a NUL.
At(text, i) == IF i <= Len(text) THEN text[i] ELSE 0
-----------------------------------------------------------------------------
\* What `std::istringstream(two characters) >> std::hex >> value` reads: the
\* longest number the two begin with, after white space and a sign; else 0.
\* From nothing but white space it reads nothing, and leaves what value held.
StreamHex(a, b, value) ==
    CASE HexVal(a) >= 0 /\ HexVal(b) >= 0 -> 16 * HexVal(a) + HexVal(b)
      [] HexVal(a) >= 0 /\ HexVal(b) < 0 -> HexVal(a)
      [] a \in Whitespace \cup {PlusSign} /\ HexVal(b) >= 0 -> HexVal(b)
      [] a = MinusSign /\ HexVal(b) >= 0 -> (256 - HexVal(b)) % 256
      [] a \in Whitespace /\ b \in Whitespace -> value
      [] OTHER -> 0

\* Faulty variant: an escape needs a character after its two digits.
UrlDecodeShort(text) ==
    LET from[i \in 1 .. Len(text) + 3] ==
          IF i > Len(text) THEN <<>>
          ELSE IF text[i] = PercentSign /\ i + 3 <= Len(text)
               THEN <<StreamHex(text[i + 1], text[i + 2], Leftover(i))>> \o from[i + 3]
          ELSE <<IF text[i] = PlusSign THEN Space ELSE text[i]>> \o from[i + 1]
    IN  from[1]

UrlDecode(text) ==
    LET from[i \in 1 .. Len(text) + 3] ==
          IF i > Len(text) THEN <<>>
          ELSE IF text[i] = PercentSign /\ i + 2 <= Len(text)
               THEN <<StreamHex(text[i + 1], text[i + 2], Leftover(i))>> \o from[i + 3]
          ELSE <<IF text[i] = PlusSign THEN Space ELSE text[i]>> \o from[i + 1]
    IN  from[1]

\* decode_status_param(): a malformed escape is copied as it stands.
DecodeStatusParam(text) ==
    LET Escape(i) == /\ text[i] = PercentSign
                     /\ HexVal(At(text, i + 1)) >= 0
                     /\ HexVal(At(text, i + 2)) >= 0
        from[i \in 1 .. Len(text) + 3] ==
          IF At(text, i) \in LineEnds THEN <<>>
          ELSE IF Escape(i)
               THEN <<16 * HexVal(text[i + 1]) + HexVal(text[i + 2])>> \o from[i + 3]
          ELSE <<text[i]>> \o from[i + 1]
    IN  from[1]

\* estimate_decoded_length(): every '%' stands for three characters.
EstimateDecodedLength(text) ==
    LET from[i \in 1 .. Len(text) + 3] ==
          IF At(text, i) \in LineEnds THEN 0
          ELSE 1 + from[IF text[i] = PercentSign THEN i + 3 ELSE i + 1]
    IN  from[1]
=============================================================================
