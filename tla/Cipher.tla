------------------------------- MODULE Cipher -------------------------------
(***************************************************************************)
(* The data the crypto card works on, and what the card does to it.        *)
(*                                                                         *)
(* The card is the emulated PCI device "cryptcard"; its code is not in the *)
(* repository, so this module is written from how drivers/cryptocard.c     *)
(* uses it.  A buffer is abstracted to the text it was made from and the   *)
(* distance its letters are shifted by, which is all that the cipher (a    *)
(* shift of every letter by a + b around the alphabet) changes.            *)
(***************************************************************************)
EXTENDS Integers

CONSTANTS
    Thread,     \* the user threads: each works on a text of its own
    Letters,    \* the size of the alphabet (26 on the card)
    None        \* no thread, no text, no buffer

ASSUME LettersAssumption == Letters \in Nat \ {0}

Byte == 0..255

\* The contents of a buffer.  text = None: bytes nobody put there on purpose.
Data == [text : Thread \cup {None}, sh : 0..(Letters - 1)]

ASSUME NoneAssumption == None \notin Thread /\ None \notin Data

Plain(t) == [text |-> t, sh |-> 0]
Garbage == [text |-> None, sh |-> 0]

Shift(d, n) == [text |-> d.text, sh |-> (d.sh + n) % Letters]

\* Mutation of KeyWord: b is lost.
KeyWordDropsB(a, b) == a * 256

\* The word the driver writes to the KEY register: a << 8 | b.
KeyWord(a, b) == a * 256 + b

\* The card takes the two key bytes apart again and shifts by their sum, forth
\* to encrypt and back to decrypt.
CardCipher(decrypt, word, d) ==
    LET n == (word \div 256) + (word % 256)
    IN  Shift(d, IF decrypt THEN -n ELSE n)

\* What a caller of ENCRYPT or DECRYPT with key bytes a and b asks for.
Wanted(cmd, a, b, d) ==
    Shift(d, IF cmd = "DECRYPT" THEN -(a + b) ELSE a + b)
=============================================================================
