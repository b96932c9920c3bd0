-------------------------------- MODULE Token --------------------------------
(***************************************************************************)
(* The spelling of a challenge token (pow/challenge.cpp): base64url, the   *)
(* decimal numbers, the four fields, and the count of zero bits            *)
(* (pow/sha256.cpp, and web/sha256.js alike).                              *)
(*                                                                         *)
(* Bytes have 4 * Unit bits and base64 digits 3 * Unit, so that three      *)
(* bytes are four digits as with the 8 and 6 bits of the code, where Unit  *)
(* is 2; the int of the decoder has IntBits bits.  A character of a token  *)
(* is its index in the alphabet, Dot, or Foreign, which stands for all     *)
(* others.  The HMAC is external: nobody but the issuer knows the          *)
(* signature of a payload.                                                 *)
(***************************************************************************)
EXTENDS Texts

CONSTANTS
    Unit,      \* 2 in the code
    IntBits,   \* 32 in the code
    Zero,      \* the index of the character 0 in the alphabet
    Base       \* 10 in the code

\* b to the n-th, b^n, by recursion since the provers do not know ^.
Power(b, n) == LET p[i \in 0..n] == IF i = 0 THEN 1 ELSE b * p[i - 1] IN p[n]

ASSUME TokenAssumption ==
    /\ {Unit, IntBits, Base} \subseteq Nat \ {0} /\ Zero \in Nat
    /\ IntBits >= 7 * Unit                   \* room for a digit above what is pending
    /\ Base > 1 /\ Zero + Base <= Power(2, 3 * Unit)

Bytes == 0..(Power(2, 4 * Unit) - 1)
Digits == 0..(Power(2, 3 * Unit) - 1)
Dot == -1
Foreign == -2
Chars == Digits \cup {Dot, Foreign}

High(x, bits) == x \div Power(2, bits)
Low(x, bits) == x % Power(2, bits)

\* The digits of a group of one, two or three bytes.
EncodeGroup(g) ==
    LET first == High(g[1], Unit)
        second(b) == Low(g[1], Unit) * Power(2, 2 * Unit) + High(b, 2 * Unit)
        third(c) == Low(g[2], 2 * Unit) * Power(2, Unit) + High(c, 3 * Unit)
    IN  CASE Len(g) = 1 -> <<first, second(0)>>
          [] Len(g) = 2 -> <<first, second(g[2]), third(0)>>
          [] Len(g) = 3 -> <<first, second(g[2]), third(g[3]), Low(g[3], 3 * Unit)>>

B64urlEncode(s) ==
    FlattenSeq([k \in 1..((Len(s) + 2) \div 3) |->
                   EncodeGroup(SubSeq(s, 3 * k - 2, Min({3 * k, Len(s)})))])

\* Mutant of Shifted: the int has no room for a digit above the pending bits.
ShiftedInByte(val, digit) == (val * Power(2, 3 * Unit) + digit) % Power(2, 4 * Unit)

\* val = (val << 6) | v: an int, the bits at the top of which are lost.
Shifted(val, digit) == (val * Power(2, 3 * Unit) + digit) % Power(2, IntBits)

DecodeDigit(acc, digit) ==
    LET val == Shifted(acc.val, digit)
        bits == acc.bits + 3 * Unit
    IN  IF bits < 4 * Unit THEN [acc EXCEPT !.val = val, !.bits = bits]
        ELSE [val |-> val, bits |-> bits - 4 * Unit,
              out |-> Append(acc.out, Low(High(val, bits - 4 * Unit), 4 * Unit))]

\* nullopt, which is no sequence of bytes.
Malformed == <<-1>>

\* Bits that are left over are not looked at.
B64urlDecode(s) ==
    IF \E i \in DOMAIN s : s[i] \notin Digits THEN Malformed
    ELSE FoldLeft(DecodeDigit, [val |-> 0, bits |-> 0, out |-> <<>>], s).out

\* std::to_string and parse_i64, parse_uint.
NumberToText(n) ==
    LET width == CHOOSE w \in 1..(n + 1) :
                    n < Power(Base, w) /\ \A u \in 1..(w - 1) : Power(Base, u) <= n
    IN  [i \in 1..width |-> Zero + ((n \div Power(Base, width - i)) % Base)]

IsNumber(s) == s # <<>> /\ \A i \in DOMAIN s : s[i] \in Zero..(Zero + Base - 1)
TextToNumber(s) == FoldLeft(LAMBDA v, c : v * Base + (c - Zero), 0, s)

-----------------------------------------------------------------------------
(* The token *)

Payload(id, expires, difficulty) ==
    B64urlEncode(id) \o <<Dot>> \o NumberToText(expires) \o <<Dot>> \o NumberToText(difficulty)

\* A challenge, its signature and its token.
Issue(id, expires, difficulty, signature) ==
    [id |-> id, expires |-> expires, difficulty |-> difficulty,
     payload |-> Payload(id, expires, difficulty), signature |-> signature,
     token |-> Payload(id, expires, difficulty) \o <<Dot>> \o B64urlEncode(signature)]

\* The fields of a token, if it has three dots, else none.
Parts(token) ==
    LET field(rest) == Before(rest, Find(rest, Dot))
        next(rest) == After(rest, Find(rest, Dot))
    IN  IF Occurrences(token, Dot) # 3 THEN <<>>
        ELSE <<field(token), field(next(token)), field(next(next(token))),
               next(next(next(token)))>>

\* Mutant of SignedPart: the numbers are not part of what is signed.
SignedIdOnly(parts, c) ==
    parts[1] \o SubSeq(c.payload, Find(c.payload, Dot), Len(c.payload))

\* What the signature of a token is computed from.
SignedPart(parts, c) == parts[1] \o <<Dot>> \o parts[2] \o <<Dot>> \o parts[3]

WellFormed(parts) ==
    /\ parts # <<>>
    /\ IsNumber(parts[2]) /\ IsNumber(parts[3])
    /\ B64urlDecode(parts[1]) # Malformed /\ B64urlDecode(parts[4]) # Malformed

\* verify, up to the comparison of the signatures, where c is the one challenge
\* whose signature is known.
Genuine(token, c) ==
    LET parts == Parts(token)
    IN  /\ WellFormed(parts)
        /\ SignedPart(parts, c) = c.payload
        /\ B64urlDecode(parts[4]) = c.signature

\* The id, the expiry and the difficulty verify goes on with.
Accepted(token) ==
    LET parts == Parts(token)
    IN  <<B64urlDecode(parts[1]), TextToNumber(parts[2]), TextToNumber(parts[3])>>

\* leading_zero_bits: whole bytes of zeros, and the zeros of the first that is not.
LeadingZeros(b) ==
    4 * Unit - CHOOSE w \in 0..(4 * Unit) : High(b, w) = 0 /\ (w > 0 => High(b, w - 1) # 0)

\* Mutant of ZeroBits: the bits of zero bytes are counted, and no others.
ZeroBytes(digest) ==
    LET zeros == SelectInSeq(digest, LAMBDA b : b # 0)
    IN  4 * Unit * (IF zeros = 0 THEN Len(digest) ELSE zeros - 1)

ZeroBits(digest) ==
    LET zeros == SelectInSeq(digest, LAMBDA b : b # 0)
    IN  IF zeros = 0 THEN 4 * Unit * Len(digest)
        ELSE 4 * Unit * (zeros - 1) + LeadingZeros(digest[zeros])

-----------------------------------------------------------------------------
(* Properties of a sequence of bytes *)

\* Every id and every signature survives its spelling in a token, although the
\* int of the decoder runs over on the way.
SurvivesBase64(bytes) == B64urlDecode(B64urlEncode(bytes)) = bytes

\* The token with one character changed, left out or put in.
Edits(token) ==
    {ReplaceAt(token, i, c) : i \in DOMAIN token, c \in Chars}
        \cup {RemoveAt(token, i) : i \in DOMAIN token}
        \cup {InsertAt(token, i, c) : i \in DOMAIN token, c \in Chars}

\* A token is genuine as issued, and in any other spelling one edit away that is
\* let through it is the same challenge: the same id, which the replay store
\* knows it by, the same expiry and the same difficulty.
OneChallenge(id) ==
    LET c == Issue(id, 3, 2, <<9>>)
    IN  /\ Genuine(c.token, c)
        /\ \A token \in Edits(c.token) \cup {c.token} :
              Genuine(token, c) => Accepted(token) = <<c.id, c.expires, c.difficulty>>

\* The number a digest is, its first byte the most significant one.
Magnitude(digest) == FoldLeft(LAMBDA v, b : v * Power(2, 4 * Unit) + b, 0, digest)

\* A digest has k leading zero bits where as a number it has at most all but k.
MeasuresWork(digest) ==
    \A k \in 0..(4 * Unit * Len(digest)) :
        ZeroBits(digest) >= k <=> Magnitude(digest) < Power(2, 4 * Unit * Len(digest) - k)
=============================================================================
