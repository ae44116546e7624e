-------------------------------- MODULE Gen ---------------------------------
(***************************************************************************)
(* The reference cipher of the evaluation programs, common/gen.c: what     *)
(* encryptMessage and decryptMessage make of one character, with the C     *)
(* arithmetic of encryptChar and decryptChar.                              *)
(*                                                                         *)
(* The programs trust it twice: they compare the card's cipher with        *)
(* encryptMessage, and the card's plain text with decryptMessage of that.  *)
(***************************************************************************)
EXTENDS Integers

LETTERS == 26
Byte == 0 .. 255
Char == -128 .. 127

\* C's % truncates towards zero, and a char has eight bits and a sign.
Rem(x) == IF x >= 0 THEN x % LETTERS ELSE -((-x) % LETTERS)
ToChar(x) == ((x + 128) % 256) - 128

\* Mutation of encryptChar: b is left out.
encryptCharByA(a, b, p) == ToChar(Rem(p + a))

encryptChar(a, b, p) ==
    LET c == ToChar(Rem(p + a)) IN ToChar(Rem(c + b))

\* Around the alphabet once, if the number is negative.
Lift(p) == IF p < 0 THEN ToChar(p + LETTERS) ELSE p

decryptChar(a, b, c) == Lift(ToChar(Rem(Lift(ToChar(c - b)) - a)))

Upper == 65 .. 90
Lower == 97 .. 122
Letter == Upper \cup Lower
Base(x) == IF x \in Upper THEN 65 ELSE 97

\* A letter is turned within its case, anything else stays.
encryptMessage(a, b, x) ==
    IF x \in Letter THEN ToChar(encryptChar(a, b, x - Base(x)) + Base(x)) ELSE x
decryptMessage(a, b, x) ==
    IF x \in Letter THEN ToChar(decryptChar(a, b, x - Base(x)) + Base(x)) ELSE x

-----------------------------------------------------------------------------
\* The letter k places behind x in the alphabet, in the case of x, and how far
\* x is from there.
Shifted(x, k) == ((x - Base(x) + k) % LETTERS) + Base(x)
Distance(x, y) == (y - x) % LETTERS
=============================================================================
