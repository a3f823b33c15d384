------------------------------- MODULE Base64 -------------------------------
(***************************************************************************)
(* base64_encode() and base64_decode() of src/base64.cpp, and the reading  *)
(* of Basic credentials by extract_username_password() of src/utils.cpp.   *)
(* A text is a sequence of bytes, its characters their ASCII codes.  The   *)
(* decoding table is taken as built; Sessions models how it comes about.   *)
(***************************************************************************)
EXTENDS Integers, Sequences, SequencesExt

Bytes == 0 .. 255
Nul == 0
Colon == 58
Pad == 61         \* '='
BasicPrefix == <<66, 97, 115, 105, 99, 32>>     \* "Basic "

\* encoding_table, from the rank of a character: A-Z, a-z, 0-9, '+', '/'.
Letter(sextet) == IF sextet < 26 THEN 65 + sextet
                  ELSE IF sextet < 52 THEN 97 + (sextet - 26)
                  ELSE IF sextet < 62 THEN 48 + (sextet - 52)
                  ELSE IF sextet = 62 THEN 43 ELSE 47
Letters == {Letter(s) : s \in 0 .. 63}

\* build_decoding_table(): memset() to -1, then the rank of each letter.
DecodingTable ==
    [c \in Bytes |-> IF c \in Letters THEN CHOOSE s \in 0 .. 63 : Letter(s) = c ELSE -1]
-----------------------------------------------------------------------------
\* The octet at position i of a text, or 0 past its end.
Octet(text, i) == IF i <= Len(text) THEN text[i] ELSE 0

\* mod_table: how many of the last characters '=' replaces.
PadsFor(length) == <<0, 2, 1>>[(length % 3) + 1]

\* Three octets make a word of 24 bits, which four sextets share.
WordSize == 16777216
OfOctets(a, b, c) == a * 65536 + b * 256 + c
OfSextets(a, b, c, d) == a * 262144 + b * 4096 + c * 64 + d
Word(data, q) == OfOctets(Octet(data, 3 * q + 1), Octet(data, 3 * q + 2), Octet(data, 3 * q + 3))
OctetOf(word, k) == (word \div <<65536, 256, 1>>[k]) % 256
SextetOf(word, k) == (word \div <<262144, 4096, 64, 1>>[k]) % 64

Encode(data) ==
    LET length == 4 * ((Len(data) + 2) \div 3)
    IN  [i \in 1 .. length |->
           IF i > length - PadsFor(Len(data)) THEN Pad
           ELSE Letter(SextetOf(Word(data, (i - 1) \div 4), ((i - 1) % 4) + 1))]

\* A sextet of the text to decode; a character outside the alphabet is -1.
Sextet(c) == IF c = Pad THEN 0 ELSE DecodingTable[c]

\* *output_length, which looks at the last two characters only.
DecodedLength(text) ==
    (Len(text) \div 4) * 3 - (IF text[Len(text)] = Pad THEN 1 ELSE 0)
                         - (IF text[Len(text) - 1] = Pad THEN 1 ELSE 0)

\* Faulty variant: foreign characters are skipped, as other decoders do.
TripleSkipping(text, q) ==
    LET known == SelectSeq(text, LAMBDA c : c \in Letters \cup {Pad})
        S(k) == IF 4 * q + k <= Len(known) THEN Sextet(known[4 * q + k]) ELSE 0
    IN  OfSextets(S(1), S(2), S(3), S(4))

\* The sum of the shifted sextets is an unsigned 32-bit number, of which the
\* low 24 bits are read: a -1 spills over the sextets above it.
Triple(text, q) ==
    LET S(k) == Sextet(text[4 * q + k])
    IN  OfSextets(S(1), S(2), S(3), S(4)) % WordSize

\* nullptr for a length that is no multiple of 4.
Decodable(text) == Len(text) % 4 = 0

\* The bytes that a non-empty decodable text decodes to; the code reads in
\* front of an empty one.
Decode(text) ==
    [j \in 1 .. DecodedLength(text) |-> OctetOf(Triple(text, (j - 1) \div 3), ((j - 1) % 3) + 1)]
-----------------------------------------------------------------------------
\* strchr(): where a byte occurs first in a text, or 0.
Position(text, b) == SelectInSeq(text, LAMBDA c : c = b)

\* What a byte string is as a C string: it ends before the first NUL.
CString(data) == LET n == Position(data, Nul)
                 IN  IF n = 0 THEN data ELSE SubSeq(data, 1, n - 1)

NoCredentials(result) == [result |-> result, username |-> <<>>, password |-> <<>>]

\* Faulty variant: the password starts after the last colon.
SplitAtLastColon(text) ==
    LET colon == SelectLastInSeq(text, LAMBDA c : c = Colon)
    IN  IF colon = 0 THEN NoCredentials("false")
        ELSE [result |-> "true", username |-> SubSeq(text, 1, colon - 1),
              password |-> SubSeq(text, colon + 1, Len(text))]

SplitAtColon(text) ==
    LET colon == Position(text, Colon)
    IN  IF colon = 0 THEN NoCredentials("false")
        ELSE [result |-> "true", username |-> SubSeq(text, 1, colon - 1),
              password |-> SubSeq(text, colon + 1, Len(text))]

\* extract_username_password(): the scheme is skipped, not compared, and
\* substr() throws if there is less than that.
ExtractUsernamePassword(header) ==
    LET encoded == SubSeq(header, Len(BasicPrefix) + 1, Len(header))
    IN  IF Len(header) < Len(BasicPrefix) THEN NoCredentials("throws")
        ELSE IF ~Decodable(encoded) \/ Decode(encoded) = <<>> THEN NoCredentials("false")
        ELSE SplitAtColon(CString(Decode(encoded)))
=============================================================================
