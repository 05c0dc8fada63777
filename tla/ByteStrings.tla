------------------------------ MODULE ByteStrings ------------------------------
(***************************************************************************)
(* Byte strings as sequences of pieces: what a piece says, and which of    *)
(* its bytes are there.  Two strings are equal when they are the same      *)
(* pieces; a piece that is cut and put together again is not recognised,   *)
(* which can only make a comparison fail that would succeed.  Hashes are   *)
(* injective, a signature is by a key over a digest.                       *)
(***************************************************************************)
EXTENDS Integers, Sequences

Piece(tag, value, width) == <<[says |-> <<tag, value>>, from |-> 0, width |-> width]>>

\* A string of bytes: pieces of which none is empty.
IsString(s) == s \in Seq([says : {s[i].says : i \in DOMAIN s}, from : Nat, width : Nat \ {0}])

\* The two orders of the bytes of a number, and a single byte, which has none.
LE(n, width) == Piece("LE", n, width)
BE(n, width) == Piece("BE", n, width)
Byte(n)      == Piece("byte", n, 1)

\* Where the pieces of s end.
Ends(s) == LET end[i \in 0..Len(s)] == IF i = 0 THEN 0 ELSE end[i - 1] + s[i].width IN end
Width(s) == Ends(s)[Len(s)]

\* Where the first n bytes of s end: after so many whole pieces and a part of the next.
Cuts(s) ==
    LET cut[at \in [whole : 0..Len(s), part : Nat]] ==
            IF at.whole < Len(s) /\ s[at.whole + 1].width <= at.part
              THEN cut[[whole |-> at.whole + 1, part |-> at.part - s[at.whole + 1].width]]
              ELSE at
    IN  cut
Cut(s, n) == Cuts(s)[[whole |-> 0, part |-> n]]

\* The first n bytes of s, and what follows them.
First(s, n) ==
    LET cut == Cut(s, n)
    IN  SubSeq(s, 1, cut.whole)
            \o IF cut.part = 0 THEN << >> ELSE <<[s[cut.whole + 1] EXCEPT !.width = cut.part]>>
Rest(s, n) ==
    LET cut == Cut(s, n)
    IN  IF cut.part = 0 THEN SubSeq(s, cut.whole + 1, Len(s))
        ELSE <<[s[cut.whole + 1] EXCEPT !.from = @ + cut.part, !.width = @ - cut.part]>>
                 \o SubSeq(s, cut.whole + 2, Len(s))

\* The first of some strings together, and all of them.
Joins(seqs) == LET upTo[k \in 0..Len(seqs)] == IF k = 0 THEN << >> ELSE upTo[k - 1] \o seqs[k] IN upTo
Concat(seqs) == Joins(seqs)[Len(seqs)]

SHA256(s)  == Piece("SHA256", s, 32)
HASH256(s) == SHA256(SHA256(s))

Signature(key, digest) == Piece("signature", <<key, digest>>, 71)
PubKey(key) == Piece("pubkey", key, 33)

-----------------------------------------------------------------------------
(* Numbers on a script's stack: little-endian, the sign in the last bit, so *)
(* that a byte above 127 is negative until a zero byte follows it           *)

Number(n) == IF n < 128 THEN Byte(n) ELSE Byte(n % 256) \o Byte(n \div 256)

IsNumber(s) == s # << >> /\ \A i \in DOMAIN s : s[i].says[1] = "byte"
NumberOf(s) ==
    IF Len(s) = 2 THEN s[1].says[2] + 256 * s[2].says[2]
    ELSE IF s[1].says[2] > 127 THEN 128 - s[1].says[2] ELSE s[1].says[2]
Truth(holds) == Number(IF holds THEN 1 ELSE 0)
=============================================================================
