------------------------------- MODULE Base64 -------------------------------
(***************************************************************************)
(* How messaging_service writes a message into a text column and reads it  *)
(* back (utils/Base64.cpp, safe_b64_decode).  Bytes and characters are     *)
(* numbers from 0 to 255.                                                  *)
(***************************************************************************)
EXTENDS Integers, Sequences, FiniteSets

CONSTANT Payloads    \* contents of messages

ASSUME PayloadsAssumption == Payloads \subseteq Seq(0 .. 255)

Pad == 61
Spaces == {9, 10, 11, 12, 13, 32}

\* kAlphabet
Letter(v) ==
    CASE v < 26 -> 65 + v
      [] v \in 26 .. 51 -> 71 + v
      [] v \in 52 .. 61 -> v - 4
      [] v = 62 -> 43
      [] OTHER -> 47

Letters == {Letter(v) : v \in 0 .. 63}

\* b64_value, and 0 for the padding.
Value(c) == IF c = Pad THEN 0 ELSE CHOOSE v \in 0 .. 63 : Letter(v) = c

\* Mutant: the second byte loses its low bits.
SextetsShort(b) ==
    <<b[1] \div 4, (b[1] % 4) * 16 + b[2] \div 16, (b[2] % 8) * 4 + b[3] \div 64, b[3] % 64>>

\* Three bytes are four letters.
Sextets(b) ==
    <<b[1] \div 4, (b[1] % 4) * 16 + b[2] \div 16, (b[2] % 16) * 4 + b[3] \div 64, b[3] % 64>>

\* Four letters are three bytes.
Bytes(v) ==
    <<v[1] * 4 + v[2] \div 16, (v[2] % 16) * 16 + v[3] \div 4, (v[3] % 4) * 64 + v[4]>>

\* Item i of a text that is written in groups of n: its group and its place there.
Group(i, n) == (i + n - 1) \div n
Place(i, n) == ((i - 1) % n) + 1

\* Group g: a byte that is missing at the end is 0, and has no letter but padding.
EncodeGroup(bytes, g) ==
    LET v == Sextets([j \in 1 .. 3 |-> LET i == 3 * g - 3 + j
                                      IN  IF i <= Len(bytes) THEN bytes[i] ELSE 0])
    IN  [j \in 1 .. 4 |-> IF 3 * g - 4 + j <= Len(bytes) THEN Letter(v[j]) ELSE Pad]

Encode(bytes) ==
    [k \in 1 .. 4 * Group(Len(bytes), 3) |-> EncodeGroup(bytes, Group(k, 4))[Place(k, 4)]]

\* The items of s at the positions in I, in their order.
Kept(s, I) ==
    [k \in 1 .. Cardinality(I) |-> s[CHOOSE i \in I : Cardinality({j \in I : j < i}) = k - 1]]

\* The characters of the text without white space.
Stripped(text) == Kept(text, {k \in DOMAIN text : text[k] \notin Spaces})

\* Group g of four letters.
Quad(in, g) == [j \in 1 .. 4 |-> in[4 * g - 4 + j]]

GroupOk(q) == {q[1], q[2]} \subseteq Letters /\ {q[3], q[4]} \subseteq Letters \union {Pad}

IsBase64(text) ==
    LET in == Stripped(text)
    IN  Len(in) % 4 = 0 /\ \A g \in 1 .. Len(in) \div 4 : GroupOk(Quad(in, g))

DecodeGroup(q) == Bytes([k \in 1 .. 4 |-> Value(q[k])])

\* The second byte of a group goes with the third letter, the third with the fourth.
Decoded(text) ==
    LET in == Stripped(text)
        bytes == [i \in 1 .. 3 * (Len(in) \div 4) |->
                     DecodeGroup(Quad(in, Group(i, 3)))[Place(i, 3)]]
    IN  Kept(bytes, {i \in DOMAIN bytes : Quad(in, Group(i, 3))[Place(i, 3) + 1] # Pad})

\* safe_b64_decode: a text that is not base64 is shown as it is.
SafeDecode(text) == IF IsBase64(text) THEN Decoded(text) ELSE text

\* What is stored is read back, byte by byte.
RoundTrip == \A p \in Payloads : SafeDecode(Encode(p)) = p

=============================================================================
