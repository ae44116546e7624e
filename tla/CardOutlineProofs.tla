------------------------- MODULE CardOutlineProofs --------------------------
(***************************************************************************)
(* The reference cipher of common/gen.c for every key and every letter, and*)
(* a proof outline for every program of the suite: first for the lines that*)
(* programs are made of, then for loops, programs and families of processes.*)
(***************************************************************************)
EXTENDS CardOutlines, TLAPS

\* A character between -128 and 127 survives the conversion to char.
LEMMA ToCharIdentity == \A x \in Char : ToChar(x) = x
  <1> SUFFICES ASSUME NEW x \in Char PROVE ToChar(x) = x
    OBVIOUS
  <1>1. (x + 128) % 256 = x + 128
    BY DEF Char
  <1> QED BY <1>1 DEF ToChar, Char

\* C's remainder of a number that is not negative is the residue.
LEMMA RemOfNat == \A x \in Nat : Rem(x) = x % 26 /\ Rem(x) \in 0 .. 25
  BY DEF Rem, LETTERS

\* Of a negative number it is, once around, the residue as well.
LEMMA LiftedRem ==
    \A x \in Int : Lift(ToChar(Rem(x))) = x % 26
  <1> SUFFICES ASSUME NEW x \in Int PROVE Lift(ToChar(Rem(x))) = x % 26
    OBVIOUS
  <1>1. Rem(x) \in -25 .. 25
    BY DEF Rem, LETTERS
  <1>2. ToChar(Rem(x)) = Rem(x)
    BY <1>1, ToCharIdentity DEF Char
  <1>3. CASE x >= 0
    BY <1>2, <1>3, RemOfNat DEF Lift
  <1>4. CASE x < 0
    <2>1. Rem(x) = -((-x) % 26)
      BY <1>4 DEF Rem, LETTERS
    <2>2. (-x) % 26 = 0 => x % 26 = 0
      BY <1>4
    <2>3. (-x) % 26 > 0 => 26 - ((-x) % 26) = x % 26
      BY <1>4
    <2>4. Lift(Rem(x)) = IF (-x) % 26 = 0 THEN 0 ELSE ToChar(26 - ((-x) % 26))
      BY <2>1, <1>1 DEF Lift, LETTERS
    <2>5. ToChar(x % 26) = x % 26
      BY ToCharIdentity DEF Char
    <2> QED BY <2>2, <2>3, <2>4, <2>5, <1>2
  <1> QED BY <1>3, <1>4

\* encryptChar is the shift of a letter's number by a + b, for all key bytes.
LEMMA EncryptCharIsShift ==
    \A a, b \in Byte, p \in 0 .. 25 : encryptChar(a, b, p) = (p + a + b) % 26
  <1> SUFFICES ASSUME NEW a \in Byte, NEW b \in Byte, NEW p \in 0 .. 25
               PROVE  encryptChar(a, b, p) = (p + a + b) % 26
    OBVIOUS
  <1> DEFINE c == (p + a) % 26
  <1>1. ToChar(Rem(p + a)) = c
    BY RemOfNat, ToCharIdentity DEF Byte, Char
  <1>2. ToChar(Rem(c + b)) = (c + b) % 26
    BY RemOfNat, ToCharIdentity DEF Byte, Char
  <1>3. (c + b) % 26 = (p + a + b) % 26
    BY DEF Byte
  <1> QED BY <1>1, <1>2, <1>3 DEF encryptChar

\* decryptChar is the shift back, for a second key byte that a difference of
\* chars still holds.
LEMMA DecryptCharIsShiftBack ==
    \A a \in Byte, b \in 0 .. 128, c \in 0 .. 25 :
        decryptChar(a, b, c) = (c - a - b) % 26
  <1> SUFFICES ASSUME NEW a \in Byte, NEW b \in 0 .. 128, NEW c \in 0 .. 25
               PROVE  decryptChar(a, b, c) = (c - a - b) % 26
    BY Zenon
  <1>1. ToChar(c - b) = c - b
    BY ToCharIdentity DEF Char
  <1> DEFINE d == IF c - b < 0 THEN c - b + 26 ELSE c - b
  <1>2. Lift(ToChar(c - b)) = d
    BY <1>1, ToCharIdentity DEF Char, Lift, LETTERS
  <1>3. d - a \in Int /\ (d - a) % 26 = (c - a - b) % 26
    BY DEF Byte
  <1> QED BY <1>2, <1>3, LiftedRem DEF decryptChar

-----------------------------------------------------------------------------
\* encryptMessage of common/gen.c, which the programs compare the card's cipher
\* with, shifts each letter by a + b within its case, for all key bytes: what
\* the card is asked for.
THEOREM ReferenceEncrypts ==
    \A a, b \in Byte, x \in Letter :
        encryptMessage(a, b, x) = Shifted(x, a + b)
  <1> SUFFICES ASSUME NEW a \in Byte, NEW b \in Byte, NEW x \in Letter
               PROVE  encryptMessage(a, b, x) = Shifted(x, a + b)
    OBVIOUS
  <1>1. x - Base(x) \in 0 .. 25 /\ Base(x) \in {65, 97} /\ x \in Int
    BY DEF Base, Letter, Upper, Lower
  <1> DEFINE p == x - Base(x)
  <1>2. encryptChar(a, b, p) = (p + (a + b)) % 26
    <2>1. encryptChar(a, b, p) = (p + a + b) % 26
      BY <1>1, EncryptCharIsShift
    <2>2. p + a + b = p + (a + b)
      BY <1>1 DEF Byte
    <2> QED BY <2>1, <2>2
  <1>3. ((p + (a + b)) % 26) + Base(x) \in Char
    BY <1>1 DEF Byte, Char
  <1> QED BY <1>2, <1>3, ToCharIdentity DEF encryptMessage, Shifted, LETTERS

\* decryptMessage turns the cipher of encryptMessage back into the letter, for
\* every first key byte and a second one of at most 128: beyond, c - b no longer
\* fits in a char.
THEOREM ReferenceRoundTrip ==
    \A a \in Byte, b \in 0 .. 128, x \in Letter :
        decryptMessage(a, b, encryptMessage(a, b, x)) = x
  <1> SUFFICES ASSUME NEW a \in Byte, NEW b \in 0 .. 128, NEW x \in Letter
               PROVE  decryptMessage(a, b, encryptMessage(a, b, x)) = x
    OBVIOUS
  <1>1. x - Base(x) \in 0 .. 25 /\ Base(x) \in {65, 97} /\ x \in Int
    BY DEF Base, Letter, Upper, Lower
  <1> DEFINE p == x - Base(x)
             c == (p + (a + b)) % 26
             y == c + Base(x)
  <1>2. b \in Byte
    BY DEF Byte
  <1>3. encryptMessage(a, b, x) = y
    BY <1>2, ReferenceEncrypts DEF Shifted, LETTERS
  <1>4. c \in 0 .. 25
    <2>1. p + (a + b) \in Nat
      BY <1>1 DEF Byte
    <2> QED BY <2>1
  <1>5. y \in Letter /\ Base(y) = Base(x)
    <2> HIDE DEF c
    <2> QED BY <1>4 DEF Base, Letter, Upper, Lower
  <1>6. decryptChar(a, b, c) = (c - a - b) % 26
    BY Zenon, <1>4, DecryptCharIsShiftBack
  <1>7. (c - a - b) % 26 = p
    <2> HIDE DEF p
    <2> QED BY <1>1 DEF Byte, p
  <1>8. y - Base(y) = c
    BY <1>1, <1>4, <1>5
  <1>9. x \in Char /\ p + Base(x) = x
    BY <1>1 DEF Char, Letter, Upper, Lower
  <1> QED BY <1>3, <1>5, <1>6, <1>7, <1>8, <1>9, ToCharIdentity DEF decryptMessage

-----------------------------------------------------------------------------
\* Every kind of line is a line.
LEMMA ProgramLines ==
    /\ \A dma, irq \in Bit, ka, kb \in Byte :
           create_device_handle(dma, irq, ka, kb) \in ProgramLine
    /\ \A size \in Nat, m \in {0, 1} :
           encrypt(size, m) \in ProgramLine /\ decrypt(size, m) \in ProgramLine
    /\ \A ka, kb \in Byte :
           create_encrpyted_buffer(ka, kb) \in ProgramLine /\ turn_back(ka, kb) \in ProgramLine
    /\ \A what \in {"text", "card"}, with \in {"expected", "message"} :
           isValid(what, with) \in ProgramLine
    /\ \A back, n \in Nat : again(back, n) \in ProgramLine
    /\ \A size \in Nat : map_card(size) \in ProgramLine
    /\ \A j \in Nat : fork(j) \in ProgramLine /\ kill(j) \in ProgramLine
    /\ \A js \in SUBSET Nat : wait(js) \in ProgramLine
    /\ Plain \subseteq ProgramLine
  <1>0. \A S \in {Openings, CipherCalls, References, Comparisons, Loops, Mappings,
                  Processes, Plain} : S \subseteq ProgramLine
    BY Zenon DEF ProgramLine
  <1>1. \A dma, irq \in Bit, ka, kb \in Byte :
            create_device_handle(dma, irq, ka, kb) \in ProgramLine
    BY <1>0 DEF Openings
  <1>2. \A size \in Nat, m \in {0, 1} :
            encrypt(size, m) \in ProgramLine /\ decrypt(size, m) \in ProgramLine
    BY <1>0 DEF CipherCalls
  <1>3. \A ka, kb \in Byte :
            create_encrpyted_buffer(ka, kb) \in ProgramLine /\ turn_back(ka, kb) \in ProgramLine
    BY <1>0 DEF References
  <1>4. \A what \in {"text", "card"}, with \in {"expected", "message"} :
            isValid(what, with) \in ProgramLine
    BY <1>0 DEF Comparisons
  <1>5. \A back, n \in Nat : again(back, n) \in ProgramLine
    BY <1>0 DEF Loops
  <1>6. \A size \in Nat : map_card(size) \in ProgramLine
    BY Zenon, <1>0 DEF Mappings
  <1>7. \A j \in Nat : fork(j) \in ProgramLine /\ kill(j) \in ProgramLine
    BY Zenon, <1>0 DEF Processes
  <1>8. \A js \in SUBSET Nat : wait(js) \in ProgramLine
    BY Zenon, <1>0 DEF Processes
  <1> QED BY Zenon, <1>0, <1>1, <1>2, <1>3, <1>4, <1>5, <1>6, <1>7, <1>8

-----------------------------------------------------------------------------
\* A rule holds wherever its line and the data around it are found.
LEMMA RuleMoved ==
    ASSUME NEW c1, NEW note1, NEW n1 \in Nat, NEW f,
           NEW c2, NEW note2, NEW n2 \in Nat,
           c2[n2] = c1[n1], n1 <= n2,
           note2[n2] = note1[n1], note2[n2 + 1] = note1[n1 + 1],
           \A k \in 1 .. n1 - 1 : note2[n2 - k] = note1[n1 - k],
           Rule(c1, note1, n1, f)
    PROVE  Rule(c2, note2, n2, f)
  <1>1. c1[n1].do = "again" =>
            c1[n1].back \in 1 .. n2 - 1 /\ note1[n1] \subseteq note2[n2 - c1[n1].back]
    BY DEF Rule
  <1> QED BY Zenon, <1>1 DEF Rule

\* Outlines can be put behind one another.
LEMMA LeadsConcat ==
    ASSUME NEW a \in Seq(ProgramLine), NEW b \in Seq(ProgramLine),
           NEW pre, NEW mid, NEW post, NEW f1, NEW f2, NEW f,
           Leads(a, pre, mid, f1), Leads(b, mid, post, f2), f1 => f, f2 => f
    PROVE  Leads(a \o b, pre, post, f) /\ a \o b \in Seq(ProgramLine)
  <1>1. PICK na \in [1 .. Len(a) + 1 -> SUBSET Data] :
            /\ na[1] = pre
            /\ na[Len(a) + 1] = mid
            /\ \A n \in 1 .. Len(a) : Rule(a, na, n, f1)
    BY Zenon DEF Leads
  <1>2. PICK nb \in [1 .. Len(b) + 1 -> SUBSET Data] :
            /\ nb[1] = mid
            /\ nb[Len(b) + 1] = post
            /\ \A n \in 1 .. Len(b) : Rule(b, nb, n, f2)
    BY Zenon DEF Leads
  <1> DEFINE c == a \o b
  <1>3. /\ c \in Seq(ProgramLine) /\ Len(c) = Len(a) + Len(b)
        /\ Len(a) \in Nat /\ Len(b) \in Nat
        /\ \A n \in 1 .. Len(a) : c[n] = a[n]
        /\ \A n \in 1 .. Len(b) : c[Len(a) + n] = b[n]
    OBVIOUS
  <1> DEFINE note == [n \in 1 .. Len(c) + 1 |->
                         IF n <= Len(a) THEN na[n] ELSE nb[n - Len(a)]]
  <1>4. \A n \in 1 .. Len(a) + 1 : note[n] = na[n]
    BY <1>1, <1>2, <1>3
  <1>5. \A n \in 1 .. Len(b) + 1 : note[Len(a) + n] = nb[n]
    BY <1>3
  <1>6. note \in [1 .. Len(c) + 1 -> SUBSET Data]
    BY <1>3
  <1> HIDE DEF note, c
  <1>7. ASSUME NEW n \in 1 .. Len(a) PROVE Rule(c, note, n, f)
    <2>1. n \in Nat /\ n <= n /\ note[n] = na[n] /\ note[n + 1] = na[n + 1]
      BY <1>3, <1>4
    <2>2. \A k \in 1 .. n - 1 : note[n - k] = na[n - k]
      BY <1>3, <1>4
    <2>3. c[n] = a[n] /\ Rule(a, na, n, f1)
      BY Zenon, <1>1, <1>3
    <2> QED BY Zenon, <2>1, <2>2, <2>3 DEF Rule
  <1>8. ASSUME NEW n \in 1 .. Len(b) PROVE Rule(c, note, Len(a) + n, f)
    <2>1. /\ n \in Nat /\ Len(a) + n \in Nat /\ n <= Len(a) + n
          /\ note[Len(a) + n] = nb[n] /\ note[Len(a) + n + 1] = nb[n + 1]
      <3>1. Len(a) + n + 1 = Len(a) + (n + 1) /\ n + 1 \in 1 .. Len(b) + 1
        BY <1>3
      <3> QED BY <1>3, <1>5, <3>1
    <2>2. \A k \in 1 .. n - 1 : note[(Len(a) + n) - k] = nb[n - k]
      <3> SUFFICES ASSUME NEW k \in 1 .. n - 1 PROVE note[(Len(a) + n) - k] = nb[n - k]
        OBVIOUS
      <3>1. (Len(a) + n) - k = Len(a) + (n - k) /\ n - k \in 1 .. Len(b) + 1
        BY <1>3
      <3> QED BY Zenon, <1>5, <3>1
    <2>3. c[Len(a) + n] = b[n] /\ Rule(b, nb, n, f2)
      BY Zenon, <1>2, <1>3
    <2>4. Rule(c, note, Len(a) + n, f2)
      BY Zenon, <2>1, <2>2, <2>3, RuleMoved
    <2> QED BY Zenon, <2>4 DEF Rule
  <1>9. \A n \in 1 .. Len(c) : Rule(c, note, n, f)
    <2> SUFFICES ASSUME NEW n \in 1 .. Len(c) PROVE Rule(c, note, n, f)
      OBVIOUS
    <2>1. CASE n <= Len(a)
      BY <1>3, <1>7, <2>1
    <2>2. CASE ~(n <= Len(a))
      <3>1. n - Len(a) \in 1 .. Len(b) /\ Len(a) + (n - Len(a)) = n
        BY <1>3, <2>2
      <3> QED BY Zenon, <1>8, <3>1
    <2> QED BY Zenon, <2>1, <2>2
  <1>10. note[1] = pre /\ note[Len(c) + 1] = post
    <2>1. 1 \in 1 .. Len(a) + 1 /\ Len(b) + 1 \in 1 .. Len(b) + 1
          /\ Len(c) + 1 = Len(a) + (Len(b) + 1)
      BY <1>3
    <2> QED BY <1>1, <1>2, <1>4, <1>5, <2>1
  <1> QED BY Zenon, <1>3, <1>6, <1>9, <1>10 DEF Leads, c

-----------------------------------------------------------------------------
\* A letter's distance to the one k places behind it.
LEMMA DistanceOfShift ==
    \A x \in Letter, k \in Nat : Distance(x, Shifted(x, k)) = k % 26
  <1> SUFFICES ASSUME NEW x \in Letter, NEW k \in Nat
               PROVE  Distance(x, Shifted(x, k)) = k % 26
    OBVIOUS
  <1>1. x - Base(x) \in 0 .. 25 /\ Base(x) \in {65, 97} /\ x \in Int
    BY DEF Base, Letter, Upper, Lower
  <1> DEFINE p == x - Base(x)
  <1>2. p + Base(x) = x /\ p \in Int
    BY <1>1
  <1> HIDE DEF p
  <1>3. Shifted(x, k) = ((p + k) % 26) + Base(x)
    BY Zenon DEF Shifted, p, LETTERS
  <1>4. (((p + k) % 26) + Base(x)) - x = ((p + k) % 26) - p
    BY <1>1, <1>2
  <1>5. (((p + k) % 26) - p) % 26 = k % 26
    BY <1>2
  <1> QED BY Zenon, <1>3, <1>4, <1>5 DEF Distance, LETTERS

\* The text that the cipher is checked with.
LEMMA TextIsLetters == Text \subseteq Letter /\ 65 \in Text
  BY DEF Text, Letter, Upper, Lower

\* What create_encrpyted_buffer makes of a plain message.
LEMMA EncryptedIs == \A a, b \in Byte : Encrypted(a, b) = {(a + b) % 26}
  <1> SUFFICES ASSUME NEW a \in Byte, NEW b \in Byte PROVE Encrypted(a, b) = {(a + b) % 26}
    OBVIOUS
  <1>1. a + b \in Nat
    BY DEF Byte
  <1>2. \A x \in Text : Distance(x, encryptMessage(a, b, x)) = (a + b) % 26
    BY Zenon, <1>1, TextIsLetters, ReferenceEncrypts, DistanceOfShift
  <1> QED BY Zenon, <1>2, TextIsLetters DEF Encrypted

\* And back.
LEMMA DecryptedIs ==
    \A a \in Byte, b \in 0 .. 128 : Decrypted(a, b, {(a + b) % 26}) = {0}
  <1> SUFFICES ASSUME NEW a \in Byte, NEW b \in 0 .. 128
               PROVE  Decrypted(a, b, {(a + b) % 26}) = {0}
    BY Zenon
  <1>1. a + b \in Nat /\ b \in Byte
    BY DEF Byte
  <1>2. ASSUME NEW x \in Text
        PROVE  Distance(x, decryptMessage(a, b, Shifted(x, (a + b) % 26))) = 0
    <2>1. x \in Letter
      BY Zenon, TextIsLetters
    <2>2. x - Base(x) \in Int /\ x \in Int
      BY <2>1 DEF Base, Letter, Upper, Lower
    <2>3. Shifted(x, (a + b) % 26) = Shifted(x, a + b)
      <3> DEFINE p == x - Base(x)
                 k == a + b
      <3>1. p \in Int /\ k \in Nat
        BY <1>1, <2>2
      <3> HIDE DEF p, k
      <3>2. (p + (k % 26)) % 26 = (p + k) % 26
        BY <3>1
      <3> QED BY <3>2 DEF Shifted, LETTERS, p, k
    <2>4. decryptMessage(a, b, Shifted(x, a + b)) = x
      BY <1>1, <2>1, ReferenceEncrypts, ReferenceRoundTrip
    <2>5. (x - x) % 26 = 0
      BY <2>2
    <2> QED BY Zenon, <2>3, <2>4, <2>5 DEF Distance, LETTERS
  <1> QED BY <1>2, TextIsLetters DEF Decrypted

\* A message whose letters are all shifted alike.
LEMMA TurnedIs ==
    \A l, key, x : TurnedBy(l, key, {x}) = {Turn(Command(l.do, l.size), key, x)}
  BY Zenon DEF TurnedBy

-----------------------------------------------------------------------------
\* What the lines do to what is known.
LEMMA OpenRule ==
    \A dma, irq, ka, kb, T, E, K, C, S :
        LineRule(create_device_handle(dma, irq, ka, kb),
                 Knows(T, E, K, C, S), Knows(T, E, {ka + kb}, C, S))
  BY DEF LineRule, After, create_device_handle, Knows, D, Silent, Working, Ends, IsCall

\* take.
LEMMA TakeRule ==
    \A T, E, K, C, S : LineRule(take, Knows(T, E, K, C, S), Knows({{0}}, E, K, C, S))
  BY DEF LineRule, After, take, Knows, D, Silent, Working, Ends, IsCall

\* strncpy to the card.
LEMMA StrncpyRule ==
    \A T, E, K, C, S :
        LineRule(strncpy_card, Knows(T, E, K, C, S), Knows(T, E, K, {{0}}, S))
  BY DEF LineRule, After, strncpy_card, Knows, D, Silent, Working, Ends, IsCall

\* create_encrpyted_buffer.
LEMMA ExpectRule ==
    ASSUME NEW a \in Byte, NEW b \in Byte, NEW T, NEW E, NEW K, NEW C, NEW S
    PROVE  LineRule(create_encrpyted_buffer(a, b),
                    Knows(T, E, K, C, S), Knows(T, {{(a + b) % 26}}, K, C, S))
  <1> DEFINE e == (a + b) % 26
             l == create_encrpyted_buffer(a, b)
  <1>1. Encrypted(l.a, l.b) = {e} /\ l.do = "expect"
    BY Zenon, EncryptedIs DEF create_encrpyted_buffer
  <1> HIDE DEF e, l
  <1>2. LineRule(l, Knows(T, E, K, C, S), Knows(T, {{e}}, K, C, S))
    BY <1>1 DEF LineRule, After, Called, Knows, D, Silent, Working, Ends, IsCall
  <1> QED BY Zenon, <1>2 DEF e, l

\* turn_back of what create_encrpyted_buffer made.
LEMMA UnexpectRule ==
    ASSUME NEW a \in Byte, NEW b \in 0 .. 128, NEW T, NEW K, NEW C, NEW S
    PROVE  LineRule(turn_back(a, b),
                    Knows(T, {{(a + b) % 26}}, K, C, S), Knows(T, {{0}}, K, C, S))
  <1> DEFINE e == (a + b) % 26
             l == turn_back(a, b)
  <1>1. Decrypted(l.a, l.b, {e}) = {0} /\ l.do = "unexpect"
    BY Zenon, DecryptedIs DEF turn_back
  <1> HIDE DEF e, l
  <1>2. LineRule(l, Knows(T, {{e}}, K, C, S), Knows(T, {{0}}, K, C, S))
    BY <1>1 DEF LineRule, After, Called, Knows, D, Silent, Working, Ends, IsCall
  <1> QED BY Zenon, <1>2 DEF e, l

\* encrypt and decrypt of the program's own buffer.
LEMMA CallRule ==
    ASSUME NEW l, IsCall(l), l.mapped = 0, NEW x, NEW E, NEW k, NEW C, NEW S
    PROVE  LineRule(l, Knows({{x}}, E, {k}, C, S),
                    Knows({{Turn(Command(l.do, l.size), k, x)}}, E, {k}, C, S))
  <1> DEFINE y == Turn(Command(l.do, l.size), k, x)
  <1>1. TurnedBy(l, k, {x}) = {y}
    BY Zenon, TurnedIs
  <1> HIDE DEF y
  <1>2. LineRule(l, Knows({{x}}, E, {k}, C, S), Knows({{y}}, E, {k}, C, S))
    BY <1>1 DEF LineRule, After, Called, Knows, D, Silent, Working, Ends, IsCall
  <1> QED BY Zenon, <1>2 DEF y

\* A comparison that does not come out leads nowhere.
LEMMA ValidRule ==
    \A what, with, P, Q :
        (\A d \in P : Compares(isValid(what, with), d) => d \in Q)
            => LineRule(isValid(what, with), P, Q)
  BY DEF LineRule, isValid, Silent, Working, Ends, IsCall

\* The lines that leave the data alone.
LEMMA SilentRule ==
    ASSUME NEW l, NEW P, NEW Q, P \subseteq Q,
           l.do \in {"close", "unmap", "passed", "fork", "kill", "wait", "again"}
    PROVE  LineRule(l, P, Q)
  <1>1. l.do \notin {"map", "join", "exit", "open", "take", "strncpy", "expect", "unexpect",
                    "encrypt", "decrypt", "valid"}
    OBVIOUS
  <1> QED BY <1>1 DEF LineRule, IsCall, Working, Ends

\* A line also leads to any wider set.
LEMMA WeakRule ==
    ASSUME NEW l, NEW P, NEW Q, NEW R, LineRule(l, P, Q), Q \subseteq R,
           ~(IsCall(l) /\ l.mapped = 1)
    PROVE  LineRule(l, P, R)
  BY DEF LineRule

-----------------------------------------------------------------------------
\* The shifts of the programs: keys 30 and 17, and 45 and 60.
LEMMA Keys ==
    /\ Turn("ENCRYPT", 30 + 17, 0) = 21 /\ Turn("DECRYPT", 30 + 17, 21) = 0
    /\ Turn("ENCRYPT", 30 + 17, 21) = 16
    /\ Turn("ENCRYPT", 45 + 60, 0) = 1 /\ Turn("DECRYPT", 45 + 60, 1) = 0
    /\ (30 + 17) % 26 = 21 /\ (45 + 60) % 26 = 1
    /\ 30 \in Byte /\ 17 \in Byte /\ 45 \in Byte /\ 60 \in Byte
    /\ 17 \in 0 .. 128 /\ 60 \in 0 .. 128
    /\ {30 + 17} \in SUBSET Nat /\ {45 + 60} \in SUBSET Nat
    /\ {{21}} \in SUBSET Any /\ {{1}} \in SUBSET Any /\ {{0}} \in SUBSET Any
    /\ 0 \in 0 .. 25 /\ 1 \in 0 .. 25 /\ 16 \in 0 .. 25 /\ 21 \in 0 .. 25
  <1>1. {{21}} \in SUBSET Any /\ {{1}} \in SUBSET Any /\ {{0}} \in SUBSET Any
    BY DEF Any, LETTERS
  <1> QED BY <1>1 DEF Turn, JUNK, LETTERS, Byte

\* The command that each call asks for: a long decrypt asks to encrypt.
LEMMA Commands ==
    \A size \in Nat :
        /\ Command("encrypt", size) = "ENCRYPT"
        /\ Command("decrypt", size) = IF Short(size) THEN "DECRYPT" ELSE "ENCRYPT"
  BY DEF Command, Chunk, Short

\* Keyed data are data.
LEMMA KeyedData ==
    ASSUME NEW x \in 0 .. 25, NEW E \in SUBSET Any, NEW K \in SUBSET Nat
    PROVE  Keyed(x, E, K) \in SUBSET Data
  <1>1. {x} \in SUBSET Shifts /\ {0} \in SUBSET Shifts
    BY DEF Shifts, LETTERS
  <1> QED BY Zenon, <1>1 DEF Keyed, Knows, Data, Any

\* Idle is keyed with any key.
LEMMA IdleIs == Idle = Keyed(0, Any, Nat) /\ Idle \in SUBSET Data
  <1>1. Idle = Keyed(0, Any, Nat)
    BY Zenon DEF Idle, Keyed, Any
  <1>2. 0 \in 0 .. 25
    OBVIOUS
  <1> QED BY Zenon, <1>1, <1>2, KeyedData

\* Knowing less of the key and of the expected cipher.
LEMMA KeyedWider ==
    ASSUME NEW x, NEW E, NEW K, NEW E2, NEW K2, E \subseteq E2, K \subseteq K2
    PROVE  Keyed(x, E, K) \subseteq Keyed(x, E2, K2)
  BY Zenon DEF Keyed, Knows

-----------------------------------------------------------------------------

\* Lines that go on to the next.
LEMMA GoesOn ==
    \A l, P, Q, f : LineRule(l, P, Q) /\ l.do \notin {"again", "valid"} => Goes(l, P, Q, f)
  BY Zenon DEF Goes

\* The same rules for lines that do not end a loop: open,
LEMMA OpenGoes ==
    \A dma, irq, ka, kb, x, E, K, f :
        Goes(create_device_handle(dma, irq, ka, kb), Keyed(x, E, K), Keyed(x, E, {ka + kb}), f)
  <1>1. \A dma, irq, ka, kb : create_device_handle(dma, irq, ka, kb).do = "open"
    BY Zenon DEF create_device_handle
  <1> QED BY Zenon, <1>1, OpenRule, GoesOn DEF Keyed

\* take,
LEMMA TakeGoes == \A x, E, K, f : Goes(take, Keyed(x, E, K), Keyed(0, E, K), f)
  <1>1. take.do = "take"
    BY Zenon DEF take
  <1> QED BY Zenon, <1>1, TakeRule, GoesOn DEF Keyed

\* expect,
LEMMA ExpectGoes ==
    ASSUME NEW a \in Byte, NEW b \in Byte, NEW x, NEW E, NEW K, NEW e, e = (a + b) % 26
    PROVE  \A f : Goes(create_encrpyted_buffer(a, b), Keyed(x, E, K), Keyed(x, {{e}}, K), f)
  <1>1. create_encrpyted_buffer(a, b).do = "expect"
    BY Zenon DEF create_encrpyted_buffer
  <1> QED BY Zenon, <1>1, ExpectRule, GoesOn DEF Keyed

\* unexpect,
LEMMA UnexpectGoes ==
    ASSUME NEW a \in Byte, NEW b \in 0 .. 128, NEW x, NEW K, NEW e, e = (a + b) % 26
    PROVE  \A f : Goes(turn_back(a, b), Keyed(x, {{e}}, K), Keyed(x, {{0}}, K), f)
  <1>1. turn_back(a, b).do = "unexpect"
    BY Zenon DEF turn_back
  <1> QED BY Zenon, <1>1, UnexpectRule, GoesOn DEF Keyed

\* a call,
LEMMA CallGoes ==
    ASSUME NEW l, IsCall(l), l.mapped = 0, NEW x, NEW E, NEW k, NEW y,
           y = Turn(Command(l.do, l.size), k, x)
    PROVE  \A f : Goes(l, Keyed(x, E, {k}), Keyed(y, E, {k}), f)
  <1>1. l.do \notin {"again", "valid"}
    BY Zenon DEF IsCall
  <1> QED BY Zenon, <1>1, CallRule, GoesOn DEF Keyed

\* encrypt, which shifts the message by the key,
LEMMA EncryptGoes ==
    ASSUME NEW size \in Nat, NEW x, NEW E, NEW k, NEW y, y = Turn("ENCRYPT", k, x)
    PROVE  \A f : Goes(encrypt(size, 0), Keyed(x, E, {k}), Keyed(y, E, {k}), f)
  <1> DEFINE l == encrypt(size, 0)
  <1>1. l.do = "encrypt" /\ l.size = size /\ l.mapped = 0
    BY Zenon DEF encrypt
  <1> HIDE DEF l
  <1>2. IsCall(l) /\ Command(l.do, l.size) = "ENCRYPT"
    BY Zenon, <1>1, Commands DEF IsCall
  <1>3. \A f : Goes(l, Keyed(x, E, {k}), Keyed(y, E, {k}), f)
    BY Zenon, <1>1, <1>2, CallGoes
  <1> QED BY Zenon, <1>3 DEF l

\* decrypt, which shifts a short message back,
LEMMA DecryptGoes ==
    ASSUME NEW size \in Nat, NEW x, NEW E, NEW k, NEW y,
           y = Turn(IF Short(size) THEN "DECRYPT" ELSE "ENCRYPT", k, x)
    PROVE  \A f : Goes(decrypt(size, 0), Keyed(x, E, {k}), Keyed(y, E, {k}), f)
  <1> DEFINE l == decrypt(size, 0)
  <1>1. l.do = "decrypt" /\ l.size = size /\ l.mapped = 0
    BY Zenon DEF decrypt
  <1> HIDE DEF l
  <1>2. IsCall(l) /\ Command(l.do, l.size) = IF Short(size) THEN "DECRYPT" ELSE "ENCRYPT"
    BY Zenon, <1>1, Commands DEF IsCall
  <1>3. \A f : Goes(l, Keyed(x, E, {k}), Keyed(y, E, {k}), f)
    BY Zenon, <1>1, <1>2, CallGoes
  <1> QED BY Zenon, <1>3 DEF l

\* isValid of the program's buffer.
LEMMA ValidGoes ==
    ASSUME NEW x, NEW y, NEW E, NEW K, NEW with, NEW f, f \/ x = y,
           \/ with = "expected" /\ E = {{y}}
           \/ with = "message" /\ y = 0
    PROVE  Goes(isValid("text", with), Keyed(x, E, K), Keyed(y, E, K), f)
  <1>1. ASSUME NEW d \in Keyed(x, E, K)
        PROVE  /\ Compares(isValid("text", with), d) <=> {x} = {y}
               /\ {x} = {y} => d \in Keyed(y, E, K)
    <2>1. d.text = {x} /\ d.expected \in E
      BY Zenon DEF Keyed, Knows
    <2>2. (IF with = "expected" THEN d.expected ELSE {0}) = {y}
      BY Zenon, <2>1
    <2>3. Compares(isValid("text", with), d) <=> {x} = {y}
      BY Zenon, <2>1, <2>2 DEF Compares, isValid
    <2> QED BY Zenon, <2>3
  <1>2. LineRule(isValid("text", with), Keyed(x, E, K), Keyed(y, E, K))
    BY Zenon, <1>1, ValidRule
  <1>3. isValid("text", with).do # "again"
    BY Zenon DEF isValid
  <1> QED BY Zenon, <1>1, <1>2, <1>3 DEF Goes

\* and the lines that leave the data alone.
LEMMA SilentGoes ==
    ASSUME NEW l, NEW P, NEW Q, P \subseteq Q,
           l.do \in {"close", "unmap", "passed", "fork", "kill", "wait"}
    PROVE  \A f : Goes(l, P, Q, f)
  BY Zenon, SilentRule, GoesOn

-----------------------------------------------------------------------------
\* Code without loops.
LEMMA Straight ==
    ASSUME NEW code \in Seq(ProgramLine), NEW note \in [1 .. Len(code) + 1 -> SUBSET Data],
           NEW f, \A n \in 1 .. Len(code) : Goes(code[n], note[n], note[n + 1], f)
    PROVE  Code(code, note[1], note[Len(code) + 1], f)
  BY Zenon DEF Leads, Rule, Goes, Code

\* Code of one line,
LEMMA OneLine ==
    ASSUME NEW l \in ProgramLine, NEW P \in SUBSET Data, NEW Q \in SUBSET Data, NEW f,
           Goes(l, P, Q, f)
    PROVE  Code(<<l>>, P, Q, f)
  <1> DEFINE code == <<l>>
             note == <<P, Q>>
  <1>1. code \in Seq(ProgramLine) /\ Len(code) = 1
    OBVIOUS
  <1>2. /\ note \in [1 .. Len(code) + 1 -> SUBSET Data]
        /\ note[1] = P /\ note[Len(code) + 1] = Q
    OBVIOUS
  <1>3. \A n \in 1 .. Len(code) : Goes(code[n], note[n], note[n + 1], f)
    OBVIOUS
  <1> HIDE DEF code, note
  <1>4. Leads(code, note[1], note[Len(code) + 1], f)
    BY Zenon, <1>1, <1>2, <1>3, Straight DEF Code
  <1> QED BY Zenon, <1>1, <1>2, <1>4 DEF code, Code

\* and of two.
LEMMA TwoLines ==
    ASSUME NEW l \in ProgramLine, NEW k \in ProgramLine, NEW P \in SUBSET Data,
           NEW Q \in SUBSET Data, NEW R \in SUBSET Data, NEW f, Goes(l, P, Q, f), Goes(k, Q, R, f)
    PROVE  Code(<<l, k>>, P, R, f)
  <1> DEFINE code == <<l, k>>
             note == <<P, Q, R>>
  <1>1. code \in Seq(ProgramLine) /\ Len(code) = 2
    OBVIOUS
  <1>2. /\ note \in [1 .. Len(code) + 1 -> SUBSET Data]
        /\ note[1] = P /\ note[Len(code) + 1] = R
    OBVIOUS
  <1>3. \A n \in 1 .. Len(code) : Goes(code[n], note[n], note[n + 1], f)
    OBVIOUS
  <1> HIDE DEF code, note
  <1>4. Code(code, note[1], note[Len(code) + 1], f)
    BY Zenon, <1>1, <1>2, <1>3, Straight
  <1> QED BY Zenon, <1>2, <1>4 DEF code

\* Code with its outline; two pieces of it one behind the other.
LEMMA CodeConcat ==
    \A a, b, pre, mid, post, f :
        Code(a, pre, mid, f) /\ Code(b, mid, post, f) => Code(a \o b, pre, post, f)
  <1> SUFFICES ASSUME NEW a, NEW b, NEW pre, NEW mid, NEW post, NEW f,
                      Code(a, pre, mid, f), Code(b, mid, post, f)
               PROVE  Code(a \o b, pre, post, f)
    BY Zenon
  <1>1. /\ a \in Seq(ProgramLine) /\ b \in Seq(ProgramLine) /\ (f => f)
        /\ Leads(a, pre, mid, f) /\ Leads(b, mid, post, f)
    BY Zenon DEF Code
  <1>2. Leads(a \o b, pre, post, f) /\ a \o b \in Seq(ProgramLine)
    BY <1>1, LeadsConcat
  <1> QED BY Zenon, <1>2 DEF Code

\* Code whose comparisons come out is code whose comparisons may fail.
LEMMA CodeMayFail ==
    \A a, pre, post, f, g : Code(a, pre, post, f) /\ (f => g) => Code(a, pre, post, g)
  <1>1. \A a, note, n, f, g : Rule(a, note, n, f) /\ (f => g) => Rule(a, note, n, g)
    BY DEF Rule
  <1> SUFFICES ASSUME NEW a, NEW pre, NEW post, NEW f, NEW g, Code(a, pre, post, f), f => g
               PROVE  Code(a, pre, post, g)
    OBVIOUS
  <1>2. PICK note \in [1 .. Len(a) + 1 -> SUBSET Data] :
            /\ note[1] = pre
            /\ note[Len(a) + 1] = post
            /\ \A n \in 1 .. Len(a) : Rule(a, note, n, f)
    BY Zenon DEF Code, Leads
  <1>3. \A n \in 1 .. Len(a) : Rule(a, note, n, g)
    BY <1>1, <1>2
  <1> QED BY Zenon, <1>2, <1>3 DEF Code, Leads

\* A loop, around code that leads back to where it begins.
LEMMA Loop ==
    ASSUME NEW code, NEW P, NEW Q, NEW f, NEW k \in Nat, NEW n \in Nat,
           Code(code, P, Q, f), Q \subseteq P, k = Len(code), k > 0
    PROVE  Code(code \o <<again(k, n)>>, P, Q, f)
  <1> DEFINE l == again(k, n)
             c == code \o <<l>>
  <1>1. l.do = "again" /\ l.back = k
    BY Zenon DEF again
  <1>0. l \in ProgramLine /\ code \in Seq(ProgramLine)
    BY Zenon, ProgramLines DEF Code
  <1> HIDE DEF l
  <1>2. PICK old \in [1 .. Len(code) + 1 -> SUBSET Data] :
            /\ old[1] = P
            /\ old[Len(code) + 1] = Q
            /\ \A m \in 1 .. Len(code) : Rule(code, old, m, f)
    BY Zenon DEF Code, Leads
  <1>3. /\ Len(c) = k + 1 /\ k \in Nat /\ c[k + 1] = l /\ c \in Seq(ProgramLine)
        /\ \A m \in 1 .. k : c[m] = code[m]
    BY <1>0
  <1> DEFINE note == [m \in 1 .. k + 2 |-> IF m <= k + 1 THEN old[m] ELSE Q]
  <1>4. /\ note \in [1 .. Len(c) + 1 -> SUBSET Data]
        /\ note[1] = P /\ note[k + 1] = Q /\ note[(k + 1) + 1] = Q
        /\ \A m \in 1 .. k + 1 : note[m] = old[m]
        /\ Len(c) + 1 = (k + 1) + 1
    <2>1. Q \in SUBSET Data
      BY <1>2, <1>3
    <2>2. \A m \in 1 .. k + 2 : m <= k + 1 => m \in 1 .. Len(code) + 1
      BY <1>3
    <2> QED BY <1>2, <1>3, <2>1, <2>2
  <1> HIDE DEF note, c
  <1>5. ASSUME NEW m \in 1 .. k PROVE Rule(c, note, m, f)
    <2>1. /\ m \in 1 .. k + 1 /\ m + 1 \in 1 .. k + 1 /\ m \in 1 .. Len(code)
          /\ \A b \in 1 .. m - 1 : m - b \in 1 .. k + 1
      BY <1>3
    <2>2. /\ c[m] = code[m] /\ note[m] = old[m] /\ note[m + 1] = old[m + 1]
          /\ \A b \in 1 .. m - 1 : note[m - b] = old[m - b]
      BY Zenon, <1>3, <1>4, <2>1
    <2>3. Rule(code, old, m, f)
      BY Zenon, <1>2, <2>1
    <2> QED BY Zenon, <2>2, <2>3 DEF Rule
  <1>6. Rule(c, note, k + 1, f)
    <2>1. LineRule(l, Q, Q)
      BY Zenon, <1>1, SilentRule
    <2>2. k \in 1 .. (k + 1) - 1 /\ (k + 1) - k = 1
      BY <1>3
    <2> QED BY Zenon, <1>1, <1>3, <1>4, <2>1, <2>2 DEF Rule
  <1>7. \A m \in 1 .. Len(c) : Rule(c, note, m, f)
    BY <1>3, <1>5, <1>6
  <1>8. note[Len(c) + 1] = Q
    BY Zenon, <1>4
  <1> QED BY Zenon, <1>3, <1>4, <1>7, <1>8 DEF Code, Leads, c, l

-----------------------------------------------------------------------------
\* do_encryption ends with a plain message, and only fails for long chunks.
LEMMA EncryptionLeads ==
    ASSUME NEW n \in Nat, NEW dma \in Bit, NEW irq \in Bit, NEW size \in Nat
    PROVE  Code(do_encryption(n, dma, irq, size), Idle, Idle, ~Short(size))
  <1> DEFINE f == ~Short(size)
             key == 30 + 17
             back == IF Short(size) THEN 0 ELSE 16
             open == create_device_handle(dma, irq, 30, 17)
             expect == create_encrpyted_buffer(30, 17)
             forth == encrypt(size, 0)
             then == decrypt(size, 0)
             unexpect == turn_back(30, 17)
             compare == isValid("text", "expected")
             body == <<take, expect, forth, compare, then, unexpect, compare>>
             loop == body \o <<again(7, n)>>
             any == Keyed(0, Any, {key})
             K2 == Keyed(0, {{21}}, {key})
             K3 == Keyed(21, {{21}}, {key})
             K5 == Keyed(back, {{21}}, {key})
             K6 == Keyed(back, {{0}}, {key})
             K7 == Keyed(0, {{0}}, {key})
             note == <<any, any, K2, K3, K3, K5, K6, K7>>
  <1>1. /\ open \in ProgramLine /\ take \in ProgramLine /\ expect \in ProgramLine
        /\ forth \in ProgramLine /\ then \in ProgramLine /\ compare \in ProgramLine
        /\ unexpect \in ProgramLine /\ close_handle \in ProgramLine
        /\ again(7, n) \in ProgramLine
    BY Zenon, Keys, ProgramLines DEF Plain
  <1>2. back \in 0 .. 25 /\ key \in Nat /\ (f \/ back = 0)
    BY Zenon, Keys DEF f
  <1>3. back = Turn(IF Short(size) THEN "DECRYPT" ELSE "ENCRYPT", key, 21)
    BY Zenon, Keys
  <1> HIDE DEF f, back
  <1>4. Goes(take, any, any, f) /\ Goes(expect, any, K2, f)
    BY Zenon, Keys, TakeGoes, ExpectGoes
  <1>5. Goes(forth, K2, K3, f) /\ Goes(then, K3, K5, f)
    BY Zenon, <1>3, Keys, EncryptGoes, DecryptGoes
  <1>6. Goes(compare, K3, K3, f) /\ Goes(unexpect, K5, K6, f)
    BY Zenon, Keys, UnexpectGoes, ValidGoes
  <1>7. Goes(compare, K6, K7, f)
    BY Zenon, <1>2, Keys, ValidGoes
  <1>8. /\ any \in SUBSET Data /\ K2 \in SUBSET Data /\ K3 \in SUBSET Data
        /\ K5 \in SUBSET Data /\ K6 \in SUBSET Data /\ K7 \in SUBSET Data
    BY Zenon, <1>2, Keys, KeyedData
  <1>9. K7 \subseteq any /\ K7 \subseteq Idle
    <2>1. {{0}} \subseteq Any /\ {key} \subseteq Nat /\ {key} \subseteq {key}
      BY Zenon, Keys
    <2> HIDE DEF key
    <2> QED BY Zenon, <2>1, KeyedWider, IdleIs
  <1>10. Goes(open, Idle, any, f) /\ Goes(close_handle, K7, Idle, f)
    <2>1. close_handle.do = "close"
      BY Zenon DEF close_handle
    <2> QED BY Zenon, <1>9, <2>1, IdleIs, OpenGoes, SilentGoes
  <1> HIDE DEF open, expect, forth, then, unexpect, compare, any, K2, K3, K5, K6, K7, key
  <1>11. Code(body, any, K7, f)
    <2>1. body \in Seq(ProgramLine) /\ Len(body) = 7
      BY <1>1
    <2>2. note \in [1 .. Len(body) + 1 -> SUBSET Data]
      BY <1>8
    <2>3. \A m \in 1 .. Len(body) : Goes(body[m], note[m], note[m + 1], f)
      BY <1>4, <1>5, <1>6, <1>7
    <2>4. note[1] = any /\ note[Len(body) + 1] = K7
      OBVIOUS
    <2> HIDE DEF body, note
    <2>5. Code(body, note[1], note[Len(body) + 1], f)
      BY Zenon, <2>1, <2>2, <2>3, Straight
    <2> QED BY Zenon, <2>4, <2>5
  <1>12. Code(loop, any, K7, f)
    <2>1. 7 = Len(body) /\ 7 > 0 /\ 7 \in Nat
      OBVIOUS
    <2> HIDE DEF body
    <2> QED BY Zenon, <1>9, <1>11, <2>1, Loop
  <1>13. do_encryption(n, dma, irq, size) = (<<open>> \o loop) \o <<close_handle>>
    BY DEF do_encryption, open, expect, forth, then, unexpect, compare
  <1> HIDE DEF loop
  <1>14. Code(<<open>>, Idle, any, f) /\ Code(<<close_handle>>, K7, Idle, f)
    BY Zenon, <1>1, <1>8, <1>10, IdleIs, OneLine
  <1> QED BY Zenon, <1>12, <1>13, <1>14, CodeConcat DEF f

-----------------------------------------------------------------------------
\* A message of one chunk is encrypted, compared, decrypted and compared.
LEMMA RoundTrip ==
    ASSUME NEW ka \in Byte, NEW kb \in Byte, NEW size \in Nat, Short(size), NEW E,
           NEW e \in 0 .. 25, e = (ka + kb) % 26, E = {{e}}, 0 = Turn("DECRYPT", ka + kb, e),
           e = Turn("ENCRYPT", ka + kb, 0)
    PROVE  Code(<<encrypt(size, 0), isValid("text", "expected"), decrypt(size, 0),
                  isValid("text", "message")>>,
                Keyed(0, E, {ka + kb}), Keyed(0, E, {ka + kb}), FALSE)
  <1> DEFINE forth == encrypt(size, 0)
             then == decrypt(size, 0)
             compare == isValid("text", "expected")
             again_ == isValid("text", "message")
             K0 == Keyed(0, E, {ka + kb})
             K1 == Keyed(e, E, {ka + kb})
             code == <<forth, compare, then, again_>>
             f == FALSE
             note == <<K0, K1, K1, K0, K0>>
  <1>1. /\ forth \in ProgramLine /\ then \in ProgramLine /\ compare \in ProgramLine
        /\ again_ \in ProgramLine
    BY Zenon, ProgramLines
  <1>2. Goes(forth, K0, K1, f) /\ Goes(then, K1, K0, f)
    BY Zenon, EncryptGoes, DecryptGoes
  <1>3. Goes(compare, K1, K1, f) /\ Goes(again_, K0, K0, f)
    BY Zenon, ValidGoes
  <1>4. K0 \in SUBSET Data /\ K1 \in SUBSET Data
    <2>1. E \in SUBSET Any /\ ka + kb \in Nat /\ 0 \in 0 .. 25
      BY DEF Any, LETTERS, Byte
    <2> QED BY Zenon, <2>1, KeyedData
  <1> HIDE DEF forth, then, compare, again_, K0, K1, f
  <1>5. code \in Seq(ProgramLine) /\ Len(code) = 4
    BY <1>1
  <1>6. /\ note \in [1 .. Len(code) + 1 -> SUBSET Data]
        /\ note[1] = K0 /\ note[Len(code) + 1] = K0
    BY <1>4
  <1>7. \A m \in 1 .. Len(code) : Goes(code[m], note[m], note[m + 1], f)
    BY <1>2, <1>3
  <1> HIDE DEF code, note
  <1>8. Code(code, K0, K0, f)
    BY Zenon, <1>5, <1>6, <1>7, Straight
  <1> QED BY Zenon, <1>8 DEF code, forth, then, compare, again_, K0, f

\* Lines that go from what is known to what is known.
LEMMA IdleLines ==
    /\ Code(<<take>>, Idle, Idle, FALSE)
    /\ Code(<<passed>>, Idle, Idle, FALSE)
    /\ Code(<<close_handle>>, Idle, Idle, FALSE)
    /\ \A dma, irq \in Bit, ka, kb \in Byte :
           Code(<<create_device_handle(dma, irq, ka, kb)>>, Idle, Keyed(0, Any, {ka + kb}), FALSE)
  <1>1. take.do = "take" /\ passed.do = "passed" /\ close_handle.do = "close"
    BY Zenon DEF take, passed, close_handle
  <1>2. take \in ProgramLine /\ passed \in ProgramLine /\ close_handle \in ProgramLine
    BY Zenon, ProgramLines DEF Plain
  <1>3. Goes(passed, Idle, Idle, FALSE) /\ Goes(close_handle, Idle, Idle, FALSE)
    BY Zenon, <1>1, SilentGoes
  <1>4. Goes(take, Idle, Idle, FALSE)
    BY Zenon, IdleIs, TakeGoes
  <1>5. ASSUME NEW dma \in Bit, NEW irq \in Bit, NEW ka \in Byte, NEW kb \in Byte
        PROVE  Code(<<create_device_handle(dma, irq, ka, kb)>>, Idle, Keyed(0, Any, {ka + kb}), FALSE)
    <2>1. {ka + kb} \in SUBSET Nat /\ 0 \in 0 .. 25 /\ Any \in SUBSET Any
      BY DEF Byte
    <2>2. Keyed(0, Any, {ka + kb}) \in SUBSET Data
      BY Zenon, <2>1, KeyedData
    <2>3. create_device_handle(dma, irq, ka, kb) \in ProgramLine
      BY Zenon, ProgramLines
    <2> QED BY Zenon, <2>2, <2>3, IdleIs, OpenGoes, OneLine
  <1> QED BY Zenon, <1>2, <1>3, <1>4, <1>5, IdleIs, OneLine

-----------------------------------------------------------------------------
\* The end of a program's work with the message.
LEMMA Finish ==
    ASSUME NEW E, NEW k, NEW l, l \in {passed, close_handle}, E \in SUBSET Any, k \in Nat
    PROVE  Code(<<l>>, Keyed(0, E, {k}), Idle, FALSE)
  <1>1. l.do \in {"close", "passed"} /\ l \in ProgramLine
    <2>1. passed.do = "passed" /\ close_handle.do = "close"
      BY Zenon DEF passed, close_handle
    <2>2. passed \in ProgramLine /\ close_handle \in ProgramLine
      BY Zenon, ProgramLines DEF Plain
    <2> QED BY Zenon, <2>1, <2>2
  <1>2. 0 \in 0 .. 25 /\ {k} \in SUBSET Nat
    OBVIOUS
  <1>3. Keyed(0, E, {k}) \subseteq Idle
    BY Zenon, <1>2, KeyedWider, IdleIs
  <1>4. Goes(l, Keyed(0, E, {k}), Idle, FALSE)
    BY Zenon, <1>1, <1>3, SilentGoes
  <1> QED BY Zenon, <1>1, <1>2, <1>4, KeyedData, IdleIs, OneLine

\* create_encrpyted_buffer as code.
LEMMA Expecting ==
    ASSUME NEW ka \in Byte, NEW kb \in Byte, NEW E \in SUBSET Any, NEW K \in SUBSET Nat,
           NEW e \in 0 .. 25, e = (ka + kb) % 26
    PROVE  Code(<<create_encrpyted_buffer(ka, kb)>>, Keyed(0, E, K), Keyed(0, {{e}}, K), FALSE)
  <1>1. create_encrpyted_buffer(ka, kb) \in ProgramLine
    BY Zenon, ProgramLines
  <1>2. {{e}} \in SUBSET Any /\ 0 \in 0 .. 25
    BY DEF Any, LETTERS
  <1>3. Goes(create_encrpyted_buffer(ka, kb), Keyed(0, E, K), Keyed(0, {{e}}, K), FALSE)
    BY Zenon, ExpectGoes
  <1> QED BY Zenon, <1>1, <1>2, <1>3, KeyedData, OneLine

\* test1 of the four modes.
LEMMA HelloCode ==
    ASSUME NEW dma \in Bit, NEW irq \in Bit
    PROVE  Code(hello(dma, irq), Idle, Idle, FALSE)
  <1> DEFINE open == create_device_handle(dma, irq, 30, 17)
             expect == create_encrpyted_buffer(30, 17)
             trip == <<encrypt(13, 0), isValid("text", "expected"), decrypt(13, 0),
                       isValid("text", "message")>>
             K1 == Keyed(0, {{21}}, Nat)
             K2 == Keyed(0, {{21}}, {30 + 17})
             end == <<passed>> \o <<close_handle>>
  <1>1. Code(<<expect>>, Idle, K1, FALSE)
    <2>1. Any \in SUBSET Any /\ Nat \in SUBSET Nat
      BY Zenon
    <2> QED BY Zenon, <2>1, Expecting, IdleIs, Keys
  <1>2. Code(<<open>>, K1, K2, FALSE)
    <2>1. Nat \in SUBSET Nat
      BY Zenon
    <2>2. K1 \in SUBSET Data /\ K2 \in SUBSET Data
      BY Zenon, <2>1, Keys, KeyedData
    <2> QED BY Zenon, <2>2, Keys, ProgramLines, OpenGoes, OneLine
  <1>3. Code(trip, K2, K2, FALSE)
    <2>1. 13 \in Nat /\ Short(13)
      BY DEF Short
    <2> QED BY Zenon, <2>1, Keys, RoundTrip
  <1>4. Code(end, K2, Idle, FALSE)
    <2>1. 30 + 17 \in Nat
      OBVIOUS
    <2>2. Code(<<passed>>, K2, Idle, FALSE)
      BY Zenon, <2>1, Keys, Finish
    <2> HIDE DEF K2
    <2> QED BY Zenon, <2>2, IdleLines, CodeConcat
  <1> HIDE DEF K1, K2
  <1>5. Code(<<take>> \o (<<expect>> \o (<<open>> \o (trip \o end))), Idle, Idle, FALSE)
    <2> HIDE DEF trip, end, open, expect
    <2>1. Code(trip \o end, K2, Idle, FALSE)
      BY Zenon, <1>3, <1>4, CodeConcat
    <2>2. Code(<<open>> \o (trip \o end), K1, Idle, FALSE)
      BY Zenon, <1>2, <2>1, CodeConcat
    <2>3. Code(<<expect>> \o (<<open>> \o (trip \o end)), Idle, Idle, FALSE)
      BY Zenon, <1>1, <2>2, CodeConcat
    <2> QED BY Zenon, <2>3, IdleLines, CodeConcat
  <1>6. hello(dma, irq) = <<take>> \o (<<expect>> \o (<<open>> \o (trip \o end)))
    BY DEF hello
  <1> QED BY Zenon, <1>5, <1>6

\* A handle for one message.
LEMMA SessionCode ==
    ASSUME NEW dma \in Bit, NEW irq \in Bit, NEW ka \in Byte, NEW kb \in Byte,
           NEW e \in 0 .. 25, e = (ka + kb) % 26, 0 = Turn("DECRYPT", ka + kb, e),
           e = Turn("ENCRYPT", ka + kb, 0), NEW l, l \in {passed, close_handle}
    PROVE  Code(<<create_device_handle(dma, irq, ka, kb), create_encrpyted_buffer(ka, kb),
                  encrypt(13, 0), isValid("text", "expected"), decrypt(13, 0),
                  isValid("text", "message"), l>>, Idle, Idle, FALSE)
  <1> DEFINE open == create_device_handle(dma, irq, ka, kb)
             expect == create_encrpyted_buffer(ka, kb)
             trip == <<encrypt(13, 0), isValid("text", "expected"), decrypt(13, 0),
                       isValid("text", "message")>>
             K1 == Keyed(0, Any, {ka + kb})
             K2 == Keyed(0, {{e}}, {ka + kb})
  <1>0. ka + kb \in Nat /\ Any \in SUBSET Any /\ {{e}} \in SUBSET Any /\ 0 \in 0 .. 25
    BY DEF Byte, Any, LETTERS
  <1>1. Code(<<open, expect>>, Idle, K2, FALSE)
    <2>1. Goes(open, Idle, K1, FALSE) /\ Goes(expect, K1, K2, FALSE)
      BY Zenon, IdleIs, OpenGoes, ExpectGoes
    <2>2. open \in ProgramLine /\ expect \in ProgramLine
      BY Zenon, ProgramLines
    <2>3. K1 \in SUBSET Data /\ K2 \in SUBSET Data
      BY Zenon, <1>0, KeyedData
    <2> HIDE DEF open, expect, K1, K2
    <2> QED BY Zenon, <2>1, <2>2, <2>3, IdleIs, TwoLines
  <1>2. Code(trip, K2, K2, FALSE)
    <2>1. 13 \in Nat /\ Short(13)
      BY DEF Short
    <2> QED BY Zenon, <2>1, RoundTrip
  <1>3. Code(<<l>>, K2, Idle, FALSE)
    BY Zenon, <1>0, Finish
  <1> HIDE DEF K1, K2
  <1>4. Code(<<open, expect>> \o (trip \o <<l>>), Idle, Idle, FALSE)
    <2> HIDE DEF trip, open, expect
    <2>1. Code(trip \o <<l>>, K2, Idle, FALSE)
      BY Zenon, <1>2, <1>3, CodeConcat
    <2> QED BY Zenon, <1>1, <2>1, CodeConcat
  <1> DEFINE forth == encrypt(13, 0)
             then == decrypt(13, 0)
             first == isValid("text", "expected")
             second == isValid("text", "message")
  <1> HIDE DEF open, expect, forth, then, first, second
  <1>5. Code(<<open, expect>> \o (<<forth, first, then, second>> \o <<l>>), Idle, Idle, FALSE)
    BY Zenon, <1>4 DEF forth, then, first, second
  <1>6. <<open, expect, forth, first, then, second, l>>
            = <<open, expect>> \o (<<forth, first, then, second>> \o <<l>>)
    OBVIOUS
  <1> QED BY Zenon, <1>5, <1>6 DEF open, expect, forth, then, first, second

\* test2 of the four modes.
LEMMA TwoHandlesCode ==
    ASSUME NEW dma \in Bit, NEW irq \in Bit
    PROVE  Code(two_handles(dma, irq), Idle, Idle, FALSE)
  <1> DEFINE S(ka, kb, l) ==
                <<create_device_handle(dma, irq, ka, kb), create_encrpyted_buffer(ka, kb),
                  encrypt(13, 0), isValid("text", "expected"), decrypt(13, 0),
                  isValid("text", "message"), l>>
             open == create_device_handle(dma, irq, 30, 17)
             A == S(45, 60, close_handle)
             B == S(30, 17, passed)
  <1>1. Code(A, Idle, Idle, FALSE) /\ Code(B, Idle, Idle, FALSE)
    BY Zenon, Keys, SessionCode
  <1>2. Code(<<open>> \o <<close_handle>>, Idle, Idle, FALSE)
    <2>1. Any \in SUBSET Any /\ 30 + 17 \in Nat
      BY DEF Any
    <2>2. Code(<<open>>, Idle, Keyed(0, Any, {30 + 17}), FALSE)
      BY Zenon, Keys, IdleLines
    <2>3. Code(<<close_handle>>, Keyed(0, Any, {30 + 17}), Idle, FALSE)
      BY Zenon, <2>1, Finish
    <2> QED BY Zenon, <2>2, <2>3, CodeConcat
  <1>3. Code(<<take>> \o ((<<open>> \o <<close_handle>>) \o (A \o (B \o <<close_handle>>))),
             Idle, Idle, FALSE)
    <2> HIDE DEF open, A, B
    <2> DEFINE first == <<open>> \o <<close_handle>>
    <2>0. Code(first, Idle, Idle, FALSE)
      BY Zenon, <1>2
    <2> HIDE DEF first
    <2>1. Code(A \o (B \o <<close_handle>>), Idle, Idle, FALSE)
      BY Zenon, <1>1, IdleLines, CodeConcat
    <2>2. Code(first \o (A \o (B \o <<close_handle>>)), Idle, Idle, FALSE)
      BY Zenon, <2>0, <2>1, CodeConcat
    <2>3. Code(<<take>> \o (first \o (A \o (B \o <<close_handle>>))), Idle, Idle, FALSE)
      BY Zenon, <2>2, IdleLines, CodeConcat
    <2> QED BY Zenon, <2>3 DEF first
  <1>4. two_handles(dma, irq)
            = <<take>> \o ((<<open>> \o <<close_handle>>) \o (A \o (B \o <<close_handle>>)))
    BY DEF two_handles
  <1> QED BY Zenon, <1>3, <1>4

\* Pages of the file forth and back.
LEMMA BenchmarkCode ==
    ASSUME NEW dma \in Bit, NEW irq \in Bit, NEW size \in Nat, Short(size), NEW n \in Nat
    PROVE  Code(<<create_device_handle(dma, irq, 30, 17), take, encrypt(size, 0),
                  decrypt(size, 0), again(3, n), close_handle>>, Idle, Idle, FALSE)
  <1> DEFINE open == create_device_handle(dma, irq, 30, 17)
             forth == encrypt(size, 0)
             then == decrypt(size, 0)
             f == FALSE
             K0 == Keyed(0, Any, {30 + 17})
             K1 == Keyed(21, Any, {30 + 17})
             body == <<take, forth, then>>
             note == <<K0, K0, K1, K0>>
             loop == body \o <<again(3, n)>>
  <1>1. Any \in SUBSET Any /\ 30 + 17 \in Nat
    BY DEF Any
  <1>2. take \in ProgramLine /\ forth \in ProgramLine /\ then \in ProgramLine
    BY Zenon, ProgramLines DEF Plain
  <1>3. K0 \in SUBSET Data /\ K1 \in SUBSET Data
    BY Zenon, <1>1, Keys, KeyedData
  <1>4. Goes(take, K0, K0, f) /\ Goes(forth, K0, K1, f) /\ Goes(then, K1, K0, f)
    BY Zenon, Keys, TakeGoes, EncryptGoes, DecryptGoes
  <1>5. Code(<<open>>, Idle, K0, f) /\ Code(<<close_handle>>, K0, Idle, f)
    BY Zenon, <1>1, Keys, IdleLines, Finish
  <1> HIDE DEF open, forth, then, f, K0, K1
  <1>6. Code(body, K0, K0, f)
    <2>1. body \in Seq(ProgramLine) /\ Len(body) = 3
      BY <1>2
    <2>2. /\ note \in [1 .. Len(body) + 1 -> SUBSET Data]
          /\ note[1] = K0 /\ note[Len(body) + 1] = K0
      BY <1>3
    <2>3. \A m \in 1 .. Len(body) : Goes(body[m], note[m], note[m + 1], f)
      BY <1>4
    <2> HIDE DEF body, note
    <2> QED BY Zenon, <2>1, <2>2, <2>3, Straight
  <1>7. Code(loop, K0, K0, f)
    <2>1. 3 = Len(body) /\ 3 > 0 /\ 3 \in Nat
      OBVIOUS
    <2> HIDE DEF body
    <2> QED BY Zenon, <1>6, <2>1, Loop
  <1>8. <<open, take, forth, then, again(3, n), close_handle>>
            = <<open>> \o (loop \o <<close_handle>>)
    OBVIOUS
  <1> HIDE DEF loop
  <1>9. Code(loop \o <<close_handle>>, K0, Idle, f)
    BY Zenon, <1>5, <1>7, CodeConcat
  <1>10. Code(<<open>> \o (loop \o <<close_handle>>), Idle, Idle, f)
    BY Zenon, <1>5, <1>9, CodeConcat
  <1> QED BY Zenon, <1>8, <1>10 DEF open, forth, then, f

\* test_case_1.
LEMMA TestCaseCode ==
    Code(<<take, create_device_handle(SET, SET, 30, 17), encrypt(12, 0), decrypt(12, 0),
           close_handle>>, Idle, Idle, FALSE)
  <1> DEFINE open == create_device_handle(SET, SET, 30, 17)
             forth == encrypt(12, 0)
             then == decrypt(12, 0)
             f == FALSE
             K0 == Keyed(0, Any, {30 + 17})
             K1 == Keyed(21, Any, {30 + 17})
  <1>1. 12 \in Nat /\ Short(12) /\ Any \in SUBSET Any /\ 30 + 17 \in Nat /\ SET \in Bit
    BY DEF Short, Any, Bit
  <1>2. /\ open \in ProgramLine /\ take \in ProgramLine /\ forth \in ProgramLine
        /\ then \in ProgramLine
    BY Zenon, <1>1, Keys, ProgramLines DEF Plain
  <1>3. K0 \in SUBSET Data /\ K1 \in SUBSET Data /\ Idle \in SUBSET Data
    BY Zenon, <1>1, Keys, KeyedData, IdleIs
  <1>4. /\ Goes(take, Idle, Idle, f) /\ Goes(open, Idle, K0, f) /\ Goes(forth, K0, K1, f)
        /\ Goes(then, K1, K0, f)
    BY Zenon, <1>1, Keys, IdleIs, TakeGoes, OpenGoes, EncryptGoes, DecryptGoes
  <1>5. Code(<<close_handle>>, K0, Idle, f)
    BY Zenon, <1>1, Keys, Finish
  <1> HIDE DEF open, forth, then, f, K0, K1
  <1>6. Code(<<take, open>>, Idle, K0, f) /\ Code(<<forth, then>>, K0, K0, f)
    BY Zenon, <1>2, <1>3, <1>4, TwoLines
  <1>7. Code(<<forth, then>> \o <<close_handle>>, K0, Idle, f)
    BY Zenon, <1>5, <1>6, CodeConcat
  <1>8. Code(<<take, open>> \o (<<forth, then>> \o <<close_handle>>), Idle, Idle, f)
    BY Zenon, <1>6, <1>7, CodeConcat
  <1>9. <<take, open, forth, then, close_handle>>
            = <<take, open>> \o (<<forth, then>> \o <<close_handle>>)
    OBVIOUS
  <1> QED BY Zenon, <1>8, <1>9 DEF open, forth, then, f

-----------------------------------------------------------------------------
\* Code that only forks, waits, prints and leaves.
LEMMA QuietCode ==
    ASSUME NEW code \in Seq(ProgramLine), \A n \in 1 .. Len(code) : code[n].do \in Quiet
    PROVE  Code(code, Idle, Idle, FALSE)
  <1>1. \A d \in Idle : d.text = {0}
    BY Zenon DEF Idle, Knows
  <1>2. ASSUME NEW l, l.do \in Ends PROVE Goes(l, Idle, Idle, FALSE)
    <2>1. l.do \notin {"map", "open", "take", "strncpy", "expect", "unexpect",
                       "encrypt", "decrypt", "valid", "again"}
      BY <1>2 DEF Ends
    <2>2. LineRule(l, Idle, Idle)
      BY Zenon, <1>1, <2>1 DEF LineRule, IsCall, Working
    <2> QED BY Zenon, <2>1, <2>2, GoesOn
  <1>3. ASSUME NEW l, l.do \in Quiet PROVE Goes(l, Idle, Idle, FALSE)
    <2>1. l.do \in Ends \/ l.do \in {"close", "unmap", "passed", "fork", "kill", "wait"}
      BY Zenon, <1>3 DEF Quiet, Ends
    <2> QED BY Zenon, <1>2, <2>1, SilentGoes
  <1> DEFINE note == [n \in 1 .. Len(code) + 1 |-> Idle]
  <1>4. /\ note \in [1 .. Len(code) + 1 -> SUBSET Data]
        /\ \A n \in 1 .. Len(code) + 1 : note[n] = Idle
    BY Zenon, IdleIs
  <1>5. /\ 1 \in 1 .. Len(code) + 1 /\ Len(code) + 1 \in 1 .. Len(code) + 1
        /\ \A n \in 1 .. Len(code) : n \in 1 .. Len(code) + 1 /\ n + 1 \in 1 .. Len(code) + 1
    OBVIOUS
  <1> HIDE DEF note
  <1>6. \A n \in 1 .. Len(code) : Goes(code[n], note[n], note[n + 1], FALSE)
    <2> SUFFICES ASSUME NEW n \in 1 .. Len(code)
                 PROVE  Goes(code[n], note[n], note[n + 1], FALSE)
      BY Zenon
    <2>1. Goes(code[n], Idle, Idle, FALSE)
      BY Zenon, <1>3
    <2> QED BY Zenon, <1>4, <1>5, <2>1
  <1> QED BY Zenon, <1>4, <1>5, <1>6, Straight

\* Code that is not reached.
LEMMA UnreachedGoes == \A l, f : l.do \notin {"map", "again"} => Goes(l, {}, {}, f)
  BY Zenon DEF Goes, LineRule

\* Code that is never reached.
LEMMA UnreachedCode ==
    ASSUME NEW code \in Seq(ProgramLine),
           \A n \in 1 .. Len(code) : code[n].do \notin {"map", "again"}
    PROVE  Code(code, {}, {}, FALSE)
  <1> DEFINE note == [n \in 1 .. Len(code) + 1 |-> {}]
  <1>1. /\ note \in [1 .. Len(code) + 1 -> SUBSET Data]
        /\ \A n \in 1 .. Len(code) + 1 : note[n] = {}
    BY Zenon
  <1>2. /\ 1 \in 1 .. Len(code) + 1 /\ Len(code) + 1 \in 1 .. Len(code) + 1
        /\ \A n \in 1 .. Len(code) : n \in 1 .. Len(code) + 1 /\ n + 1 \in 1 .. Len(code) + 1
    OBVIOUS
  <1> HIDE DEF note
  <1>3. \A n \in 1 .. Len(code) : Goes(code[n], note[n], note[n + 1], FALSE)
    BY Zenon, <1>1, <1>2, UnreachedGoes
  <1> QED BY Zenon, <1>1, <1>2, <1>3, Straight

-----------------------------------------------------------------------------
\* Programs that use the card's memory.
LEMMA MapGoes ==
    ASSUME NEW size \in Nat, size <= 1024 * KB - 168, NEW P
    PROVE  \A f : Goes(map_card(size), P, P, f)
  <1> DEFINE l == map_card(size)
  <1>1. l.do = "map" /\ l.size <= 1024 * KB - 168
    BY DEF map_card
  <1>2. l.do \notin {"join", "exit", "open", "take", "strncpy", "expect", "unexpect",
                    "encrypt", "decrypt", "valid", "again"}
    BY <1>1
  <1> HIDE DEF l
  <1>3. \A f : Goes(l, P, P, f)
    BY Zenon, <1>1, <1>2 DEF Goes, LineRule, IsCall, Working, Ends
  <1> QED BY Zenon, <1>3 DEF l

\* strncpy to the card.
LEMMA StrncpyGoes == \A f : Goes(strncpy_card, Ready, Ready, f)
  <1>1. strncpy_card.do = "strncpy"
    BY Zenon DEF strncpy_card
  <1> QED BY Zenon, <1>1, StrncpyRule, GoesOn DEF Ready, Keyed

\* A line may lead to less than what is noted after it.
LEMMA WeakGoes ==
    ASSUME NEW l, NEW P, NEW Q, NEW R, NEW f, Goes(l, P, Q, f), Q \subseteq R, ~IsCall(l)
    PROVE  Goes(l, P, R, f)
  BY Zenon, WeakRule DEF Goes

\* The first ioctl of a call for a mapped message keeps the lock: a message of
\* one chunk is encrypted, of a longer one only the first chunk.
LEMMA MappedGoes ==
    ASSUME NEW size \in Nat, NEW E
    PROVE  \A f : Goes(encrypt(size, 1), Keyed(0, E, {30 + 17}) \cup Locked(E, SUBSET Shifts),
                       Locked(E, {{21}}), f)
  <1> DEFINE l == encrypt(size, 1)
             P == Keyed(0, E, {30 + 17}) \cup Locked(E, SUBSET Shifts)
             Q == Locked(E, {{21}})
  <1>1. l.do = "encrypt" /\ l.size = size /\ l.mapped = 1
    BY Zenon DEF encrypt
  <1> HIDE DEF l
  <1>2. IsCall(l) /\ l.do \notin {"again", "valid", "map"} /\ l.do \notin Silent
        /\ l.do \notin Working /\ l.do \notin Ends
    BY <1>1 DEF IsCall, Silent, Working, Ends
  <1>3. ASSUME NEW d \in P, ~d.stuck
        PROVE  Called(l, d) \in (IF l.mapped = 1 /\ Ioctls(l.do, l.size) # 1 THEN P ELSE Q)
    <2>1. d \in Keyed(0, E, {30 + 17})
      BY Zenon, <1>3 DEF Locked, Knows
    <2>2. d.text = {0} /\ d.expected \in E /\ d.key = 30 + 17 /\ d.card = {0}
      BY Zenon, <2>1 DEF Keyed, Knows
    <2>3. TurnedBy(l, d.key, d.card) = {21}
      <3>1. Command(l.do, l.size) = "ENCRYPT"
        BY Zenon, <1>1, Commands
      <3>2. TurnedBy(l, 30 + 17, {0}) = {Turn("ENCRYPT", 30 + 17, 0)}
        BY Zenon, <3>1, TurnedIs
      <3> QED BY Zenon, <2>2, <3>2, Keys
    <2>4. CardAfter(l, d) = {21} \cup IF l.size <= Chunk(l.do) THEN {} ELSE {0}
      BY Zenon, <2>2, <2>3 DEF CardAfter
    <2>5. Called(l, d) = D({0}, d.expected, 30 + 17, CardAfter(l, d), TRUE)
      <3>1. l.mapped # 0
        BY <1>1
      <3>2. Called(l, d) = D(d.text, d.expected, d.key, CardAfter(l, d), TRUE)
        BY Zenon, <3>1 DEF Called
      <3> QED BY Zenon, <2>2, <3>2
    <2>6. CASE Ioctls(l.do, l.size) = 1
      <3>1. l.size <= Chunk(l.do)
        BY <1>1, <2>6 DEF Ioctls, Chunk
      <3>2. CardAfter(l, d) = {21}
        BY Zenon, <2>4, <3>1
      <3>3. D({0}, d.expected, 30 + 17, {21}, TRUE) \in Q
        BY Zenon, <2>2 DEF D, Locked, Knows
      <3> QED BY Zenon, <2>5, <2>6, <3>2, <3>3
    <2>7. CASE Ioctls(l.do, l.size) # 1
      <3>1. CardAfter(l, d) \subseteq Shifts
        <4>1. 21 \in Shifts /\ 0 \in Shifts
          BY DEF Shifts, LETTERS
        <4> QED BY Zenon, <2>4, <4>1
      <3>2. D({0}, d.expected, 30 + 17, CardAfter(l, d), TRUE) \in Locked(E, SUBSET Shifts)
        BY Zenon, <2>2, <3>1 DEF D, Locked, Knows
      <3> QED BY Zenon, <1>1, <2>5, <2>7, <3>2
    <2> QED BY Zenon, <2>6, <2>7
  <1> HIDE DEF P, Q
  <1>4. LineRule(l, P, Q)
    BY Zenon, <1>2, <1>3 DEF LineRule
  <1>5. \A f : Goes(l, P, Q, f)
    BY Zenon, <1>2, <1>4 DEF Goes
  <1> QED BY Zenon, <1>5 DEF l, P, Q

\* The next call does not get the lock.
LEMMA LockedGoes ==
    ASSUME NEW l, IsCall(l), NEW E, NEW C
    PROVE  \A f : Goes(l, Locked(E, C), {}, f)
  <1>1. l.do \notin {"again", "valid", "map"} /\ l.do \notin Silent
        /\ l.do \notin Working /\ l.do \notin Ends
    BY DEF IsCall, Silent, Working, Ends
  <1>2. \A d \in Locked(E, C) : d.stuck
    BY Zenon DEF Locked, Knows
  <1> QED BY Zenon, <1>1, <1>2 DEF Goes, LineRule

-----------------------------------------------------------------------------
\* What is known around the calls for a mapped message is data.
LEMMA LockedData ==
    /\ Ready \in SUBSET Data /\ {} \in SUBSET Data
    /\ \A E \in SUBSET Any : /\ Locked(E, {{21}}) \in SUBSET Data
                             /\ Locked(E, SUBSET Shifts) \in SUBSET Data
                             /\ Keyed(0, E, {30 + 17}) \in SUBSET Data
  <1>1. /\ {{0}} \in SUBSET (SUBSET Shifts) /\ {{21}} \in SUBSET (SUBSET Shifts)
        /\ Any \in SUBSET Any
    BY DEF Shifts, LETTERS, Any
  <1>2. /\ \A E \in SUBSET Any : /\ Locked(E, {{21}}) \in SUBSET Data
                                 /\ Locked(E, SUBSET Shifts) \in SUBSET Data
    BY Zenon, <1>1, Keys DEF Locked, Knows, Data, Any
  <1>3. \A E \in SUBSET Any : Keyed(0, E, {30 + 17}) \in SUBSET Data
    BY Zenon, Keys, KeyedData
  <1> QED BY Zenon, <1>1, <1>2, <1>3 DEF Ready

\* The first lines of the mapped programs.
LEMMA MappedBegins ==
    ASSUME NEW size \in Nat
    PROVE  LET P == Keyed(0, {{21}}, {30 + 17}) \cup Locked({{21}}, SUBSET Shifts)
               S == Locked({{21}}, {{21}})
           IN  /\ P \in SUBSET Data /\ S \in SUBSET Data
               /\ \A f : /\ Goes(create_encrpyted_buffer(30, 17), Ready, P, f)
                         /\ Goes(encrypt(size, 1), P, S, f)
                         /\ Goes(isValid("card", "expected"), S, S, f)
                         /\ Goes(take, S, S, f)
  <1> DEFINE P == Keyed(0, {{21}}, {30 + 17}) \cup Locked({{21}}, SUBSET Shifts)
             S == Locked({{21}}, {{21}})
             expect == create_encrpyted_buffer(30, 17)
             compare == isValid("card", "expected")
  <1>1. P \in SUBSET Data /\ S \in SUBSET Data
    <2>1. \A a, b \in SUBSET Data : a \cup b \in SUBSET Data
      BY Zenon
    <2> QED BY Zenon, <2>1, Keys, LockedData
  <1>2. ASSUME NEW f PROVE Goes(expect, Ready, P, f)
    <2>1. Goes(expect, Ready, Keyed(0, {{21}}, {30 + 17}), f)
      BY Zenon, Keys, ExpectGoes DEF Ready
    <2>2. ~IsCall(expect)
      BY DEF IsCall, create_encrpyted_buffer
    <2>3. Keyed(0, {{21}}, {30 + 17}) \subseteq P
      BY Zenon
    <2> HIDE DEF P
    <2> QED BY Zenon, <2>1, <2>2, <2>3, WeakGoes
  <1>3. \A f : Goes(encrypt(size, 1), P, S, f)
    BY Zenon, MappedGoes
  <1>4. ASSUME NEW f PROVE Goes(compare, S, S, f)
    <2>1. \A d \in S : Compares(compare, d)
      <3>1. \A d \in S : d.card = {21} /\ d.expected = {21}
        BY Zenon DEF Locked, Knows
      <3>2. compare.what # "text" /\ compare.with = "expected"
        BY DEF isValid
      <3> HIDE DEF compare, S
      <3> QED BY Zenon, <3>1, <3>2 DEF Compares
    <2>2. LineRule(compare, S, S)
      BY Zenon, ValidRule
    <2>3. compare.do # "again"
      BY Zenon DEF isValid
    <2> QED BY Zenon, <2>1, <2>2, <2>3 DEF Goes
  <1>5. \A f : Goes(take, S, S, f)
    <2>1. take.do = "take"
      BY Zenon DEF take
    <2> QED BY Zenon, <2>1, TakeRule, GoesOn DEF Locked
  <1> QED BY Zenon, <1>1, <1>2, <1>3, <1>4, <1>5

\* The lines of the programs on the card.
LEMMA MappedLines ==
    /\ \A size \in Nat :
           /\ encrypt(size, 1) \in ProgramLine /\ decrypt(size, 1) \in ProgramLine
           /\ map_card(size) \in ProgramLine
    /\ \A irq \in Bit : create_device_handle(UNSET, irq, 30, 17) \in ProgramLine
    /\ isValid("card", "expected") \in ProgramLine /\ isValid("card", "message") \in ProgramLine
    /\ isValid("text", "expected") \in ProgramLine
    /\ create_encrpyted_buffer(30, 17) \in ProgramLine
    /\ strncpy_card \in ProgramLine /\ take \in ProgramLine /\ unmap_card \in ProgramLine
    /\ passed \in ProgramLine /\ close_handle \in ProgramLine
  <1>1. UNSET \in Bit
    BY DEF Bit
  <1> QED BY Zenon, <1>1, Keys, ProgramLines DEF Plain

\* A program that uses the card's memory does not come further than to its
\* second call.
LEMMA MappedRoundCode ==
    ASSUME NEW size \in Nat
    PROVE  Code(MappedRound(size), Ready, {}, FALSE)
  <1> DEFINE P == Keyed(0, {{21}}, {30 + 17}) \cup Locked({{21}}, SUBSET Shifts)
             S == Locked({{21}}, {{21}})
             f == FALSE
             expect == create_encrpyted_buffer(30, 17)
             forth == encrypt(size, 1)
             first == isValid("card", "expected")
             then == decrypt(size, 1)
             second == isValid("card", "message")
             code == <<strncpy_card, expect, forth, first, then, second>>
             note == <<Ready, Ready, P, S, S, {}, {}>>
  <1>1. P \in SUBSET Data /\ S \in SUBSET Data /\ Ready \in SUBSET Data /\ {} \in SUBSET Data
    BY Zenon, MappedBegins, LockedData
  <1>2. /\ Goes(strncpy_card, Ready, Ready, f) /\ Goes(expect, Ready, P, f)
        /\ Goes(forth, P, S, f) /\ Goes(first, S, S, f)
    BY Zenon, MappedBegins, StrncpyGoes
  <1>3. Goes(then, S, {}, f)
    <2>1. IsCall(then)
      BY DEF decrypt, IsCall
    <2> QED BY Zenon, <2>1, LockedGoes
  <1>4. Goes(second, {}, {}, f)
    <2>1. second.do \notin {"map", "again"}
      BY DEF isValid
    <2> QED BY Zenon, <2>1, UnreachedGoes
  <1>5. /\ strncpy_card \in ProgramLine /\ expect \in ProgramLine /\ forth \in ProgramLine
        /\ first \in ProgramLine /\ then \in ProgramLine /\ second \in ProgramLine
    BY Zenon, MappedLines
  <1> HIDE DEF P, S, f, expect, forth, first, then, second
  <1>6. code \in Seq(ProgramLine) /\ Len(code) = 6
    BY <1>5
  <1>7. /\ note \in [1 .. Len(code) + 1 -> SUBSET Data]
        /\ note[1] = Ready /\ note[Len(code) + 1] = {}
    BY <1>1
  <1>8. \A m \in 1 .. Len(code) : Goes(code[m], note[m], note[m + 1], f)
    BY <1>2, <1>3, <1>4
  <1> HIDE DEF code, note
  <1>9. Code(code, Ready, {}, f)
    BY Zenon, <1>6, <1>7, <1>8, Straight
  <1> QED BY Zenon, <1>9 DEF code, f, expect, forth, first, then, second, MappedRound

\* The middle of mapped_and_not: its second ioctl never comes.
LEMMA MappedAndNotCode ==
    ASSUME NEW size \in Nat
    PROVE  Code(<<strncpy_card, create_encrpyted_buffer(30, 17), encrypt(size, 1), take,
                  encrypt(size, 1)>>, Ready, {}, FALSE)
  <1> DEFINE P == Keyed(0, {{21}}, {30 + 17}) \cup Locked({{21}}, SUBSET Shifts)
             S == Locked({{21}}, {{21}})
             f == FALSE
             expect == create_encrpyted_buffer(30, 17)
             forth == encrypt(size, 1)
             code == <<strncpy_card, expect, forth, take, forth>>
             note == <<Ready, Ready, P, S, S, {}>>
  <1>1. P \in SUBSET Data /\ S \in SUBSET Data /\ Ready \in SUBSET Data /\ {} \in SUBSET Data
    BY Zenon, MappedBegins, LockedData
  <1>2. /\ Goes(strncpy_card, Ready, Ready, f) /\ Goes(expect, Ready, P, f)
        /\ Goes(forth, P, S, f) /\ Goes(take, S, S, f)
    BY Zenon, MappedBegins, StrncpyGoes
  <1>3. Goes(forth, S, {}, f)
    <2>1. IsCall(forth)
      BY DEF encrypt, IsCall
    <2> QED BY Zenon, <2>1, LockedGoes
  <1>4. /\ strncpy_card \in ProgramLine /\ expect \in ProgramLine /\ forth \in ProgramLine
        /\ take \in ProgramLine
    BY Zenon, MappedLines
  <1> HIDE DEF P, S, f, expect, forth
  <1>5. code \in Seq(ProgramLine) /\ Len(code) = 5
    BY <1>4
  <1>6. /\ note \in [1 .. Len(code) + 1 -> SUBSET Data]
        /\ note[1] = Ready /\ note[Len(code) + 1] = {}
    BY <1>1
  <1>7. \A m \in 1 .. Len(code) : Goes(code[m], note[m], note[m + 1], f)
    BY <1>2, <1>3
  <1> HIDE DEF code, note
  <1>8. Code(code, Ready, {}, f)
    BY Zenon, <1>5, <1>6, <1>7, Straight
  <1> QED BY Zenon, <1>8 DEF code, f, expect, forth

\* The loop of mapped_benchmark: its second ioctl never comes.
LEMMA MappedLoopCode ==
    ASSUME NEW size \in Nat, NEW n \in Nat
    PROVE  Code(<<strncpy_card, encrypt(size, 1), decrypt(size, 1)>> \o <<again(3, n)>>,
                Ready, {}, FALSE)
  <1> DEFINE P == Ready \cup Locked(Any, SUBSET Shifts)
             S == Locked(Any, {{21}})
             f == FALSE
             forth == encrypt(size, 1)
             then == decrypt(size, 1)
             code == <<strncpy_card, forth, then>>
             note == <<Ready, P, S, {}>>
  <1>1. P \in SUBSET Data /\ S \in SUBSET Data /\ Ready \in SUBSET Data /\ {} \in SUBSET Data
    <2>1. Any \in SUBSET Any /\ \A a, b \in SUBSET Data : a \cup b \in SUBSET Data
      BY Zenon
    <2> QED BY Zenon, <2>1, LockedData
  <1>2. Goes(strncpy_card, Ready, P, f)
    <2>1. ~IsCall(strncpy_card)
      BY DEF strncpy_card, IsCall
    <2>2. Ready \subseteq P
      BY Zenon
    <2> HIDE DEF P
    <2> QED BY Zenon, <2>1, <2>2, StrncpyGoes, WeakGoes
  <1>3. Goes(forth, P, S, f)
    BY Zenon, MappedGoes DEF Ready
  <1>4. Goes(then, S, {}, f)
    <2>1. IsCall(then)
      BY DEF decrypt, IsCall
    <2> QED BY Zenon, <2>1, LockedGoes
  <1>5. strncpy_card \in ProgramLine /\ forth \in ProgramLine /\ then \in ProgramLine
    BY Zenon, MappedLines, ProgramLines
  <1> HIDE DEF P, S, f, forth, then
  <1>6. code \in Seq(ProgramLine) /\ Len(code) = 3 /\ 3 \in Nat /\ 3 > 0
    BY <1>5
  <1>7. /\ note \in [1 .. Len(code) + 1 -> SUBSET Data]
        /\ note[1] = Ready /\ note[Len(code) + 1] = {}
    BY <1>1
  <1>8. \A m \in 1 .. Len(code) : Goes(code[m], note[m], note[m + 1], f)
    BY <1>2, <1>3, <1>4
  <1> HIDE DEF code, note
  <1>9. Code(code, Ready, {}, f)
    BY Zenon, <1>6, <1>7, <1>8, Straight
  <1>10. {} \subseteq Ready
    BY Zenon
  <1>11. Code(code \o <<again(3, n)>>, Ready, {}, f)
    BY Zenon, <1>6, <1>9, <1>10, Loop
  <1> QED BY Zenon, <1>11 DEF code, f, forth, then

\* The programs that use the card's memory.
LEMMA MappedHead ==
    ASSUME NEW irq \in Bit, NEW size \in Nat, size <= 1024 * KB - 168
    PROVE  /\ Code(<<create_device_handle(UNSET, irq, 30, 17), map_card(size)>>, Idle, Ready, FALSE)
           /\ Code(<<map_card(size), map_card(size)>>, Ready, Ready, FALSE)
           /\ Code(<<unmap_card, map_card(size)>>, Ready, Ready, FALSE)
  <1> DEFINE open == create_device_handle(UNSET, irq, 30, 17)
             map == map_card(size)
             f == FALSE
  <1>1. Goes(open, Idle, Ready, f) /\ Goes(map, Ready, Ready, f) /\ Goes(unmap_card, Ready, Ready, f)
    <2>1. unmap_card.do = "unmap"
      BY Zenon DEF unmap_card
    <2>2. Goes(open, Idle, Ready, f)
      BY Zenon, IdleIs, OpenGoes DEF Ready
    <2>3. Goes(unmap_card, Ready, Ready, f)
      BY Zenon, <2>1, SilentGoes
    <2> QED BY Zenon, <2>2, <2>3, MapGoes
  <1>2. open \in ProgramLine /\ map \in ProgramLine /\ unmap_card \in ProgramLine
    BY Zenon, MappedLines
  <1> HIDE DEF open, map, f
  <1>3. /\ Code(<<open, map>>, Idle, Ready, f) /\ Code(<<map, map>>, Ready, Ready, f)
        /\ Code(<<unmap_card, map>>, Ready, Ready, f)
    BY Zenon, <1>1, <1>2, LockedData, IdleIs, TwoLines
  <1> QED BY Zenon, <1>3 DEF open, map, f

\* The ends of these programs.
LEMMA MappedTails ==
    /\ Code(<<unmap_card, passed, close_handle>>, {}, {}, FALSE)
    /\ Code(<<unmap_card, unmap_card, unmap_card, passed, close_handle>>, {}, {}, FALSE)
    /\ Code(<<isValid("text", "expected"), isValid("card", "expected"), unmap_card, passed,
              close_handle>>, {}, {}, FALSE)
    /\ Code(<<close_handle>>, {}, {}, FALSE)
  <1> DEFINE v1 == isValid("text", "expected")
             v2 == isValid("card", "expected")
             Reached == {"map", "again"}
  <1>1. /\ unmap_card.do \notin Reached /\ passed.do \notin Reached /\ close_handle.do \notin Reached
        /\ v1.do \notin Reached /\ v2.do \notin Reached
    BY DEF unmap_card, passed, close_handle, isValid
  <1>2. /\ unmap_card \in ProgramLine /\ passed \in ProgramLine /\ close_handle \in ProgramLine
        /\ v1 \in ProgramLine /\ v2 \in ProgramLine
    BY Zenon, MappedLines
  <1> HIDE DEF v1, v2, Reached
  <1>3. Code(<<unmap_card, passed, close_handle>>, {}, {}, FALSE)
    <2> DEFINE c == <<unmap_card, passed, close_handle>>
    <2>1. c \in Seq(ProgramLine) /\ \A n \in 1 .. Len(c) : c[n].do \notin Reached
      BY <1>1, <1>2
    <2> HIDE DEF c
    <2>2. Code(c, {}, {}, FALSE)
      BY Zenon, <2>1, UnreachedCode DEF Reached
    <2> QED BY Zenon, <2>2 DEF c
  <1>4. Code(<<unmap_card, unmap_card, unmap_card, passed, close_handle>>, {}, {}, FALSE)
    <2> DEFINE c == <<unmap_card, unmap_card, unmap_card, passed, close_handle>>
    <2>1. c \in Seq(ProgramLine) /\ \A n \in 1 .. Len(c) : c[n].do \notin Reached
      BY <1>1, <1>2
    <2> HIDE DEF c
    <2>2. Code(c, {}, {}, FALSE)
      BY Zenon, <2>1, UnreachedCode DEF Reached
    <2> QED BY Zenon, <2>2 DEF c
  <1>5. Code(<<v1, v2, unmap_card, passed, close_handle>>, {}, {}, FALSE)
    <2> DEFINE c == <<v1, v2, unmap_card, passed, close_handle>>
    <2>1. c \in Seq(ProgramLine) /\ \A n \in 1 .. Len(c) : c[n].do \notin Reached
      BY <1>1, <1>2
    <2> HIDE DEF c
    <2>2. Code(c, {}, {}, FALSE)
      BY Zenon, <2>1, UnreachedCode DEF Reached
    <2> QED BY Zenon, <2>2 DEF c
  <1>6. Code(<<close_handle>>, {}, {}, FALSE)
    <2> DEFINE c == <<close_handle>>
    <2>1. c \in Seq(ProgramLine) /\ \A n \in 1 .. Len(c) : c[n].do \notin Reached
      BY <1>1, <1>2
    <2> HIDE DEF c
    <2>2. Code(c, {}, {}, FALSE)
      BY Zenon, <2>1, UnreachedCode DEF Reached
    <2> QED BY Zenon, <2>2 DEF c
  <1> QED BY Zenon, <1>3, <1>4, <1>5, <1>6 DEF v1, v2

\* The four programs on the card lead nowhere.
LEMMA MappedCodes ==
    ASSUME NEW irq \in Bit, NEW size \in Nat, size <= 1024 * KB - 168, NEW n \in Nat
    PROVE  LET open == create_device_handle(UNSET, irq, 30, 17)
               map == map_card(size)
           IN  /\ Code(<<open, map>> \o MappedRound(size) \o <<unmap_card, passed, close_handle>>,
                       Idle, {}, FALSE)
               /\ Code(<<open, map, map, map, unmap_card, map>> \o MappedRound(size)
                         \o <<unmap_card, unmap_card, unmap_card, passed, close_handle>>,
                       Idle, {}, FALSE)
               /\ Code(<<open, map, strncpy_card, create_encrpyted_buffer(30, 17), encrypt(size, 1),
                         take, encrypt(size, 1), isValid("text", "expected"),
                         isValid("card", "expected"), unmap_card, passed, close_handle>>,
                       Idle, {}, FALSE)
               /\ Code(<<open, map, strncpy_card, encrypt(size, 1), decrypt(size, 1), again(3, n),
                         close_handle>>, Idle, {}, FALSE)
  <1> DEFINE open == create_device_handle(UNSET, irq, 30, 17)
             map == map_card(size)
             expect == create_encrpyted_buffer(30, 17)
             forth == encrypt(size, 1)
             then == decrypt(size, 1)
             v1 == isValid("text", "expected")
             v2 == isValid("card", "expected")
             loop == again(3, n)
             tail == <<unmap_card, passed, close_handle>>
             tails == <<unmap_card, unmap_card, unmap_card, passed, close_handle>>
             compared == <<v1, v2, unmap_card, passed, close_handle>>
             mixed == <<strncpy_card, expect, forth, take, forth>>
             body == <<strncpy_card, forth, then>> \o <<loop>>
  <1>1. /\ Code(<<open, map>>, Idle, Ready, FALSE) /\ Code(<<map, map>>, Ready, Ready, FALSE)
        /\ Code(<<unmap_card, map>>, Ready, Ready, FALSE)
    BY Zenon, MappedHead
  <1>2. Code(MappedRound(size), Ready, {}, FALSE)
    BY Zenon, MappedRoundCode
  <1>3. /\ Code(tail, {}, {}, FALSE) /\ Code(tails, {}, {}, FALSE) /\ Code(compared, {}, {}, FALSE)
        /\ Code(<<close_handle>>, {}, {}, FALSE)
    BY Zenon, MappedTails
  <1>4. Code(mixed, Ready, {}, FALSE) /\ Code(body, Ready, {}, FALSE)
    BY Zenon, MappedAndNotCode, MappedLoopCode
  <1> HIDE DEF open, map, expect, forth, then, v1, v2, loop
  <1>5. <<open, map, map, map, unmap_card, map>> = <<open, map>> \o (<<map, map>> \o <<unmap_card, map>>)
    OBVIOUS
  <1>6. <<open, map, strncpy_card, expect, forth, take, forth, v1, v2, unmap_card, passed,
          close_handle>> = <<open, map>> \o (mixed \o compared)
    OBVIOUS
  <1>7. <<open, map, strncpy_card, forth, then, loop, close_handle>>
            = <<open, map>> \o (body \o <<close_handle>>)
    OBVIOUS
  <1> HIDE DEF tail, tails, compared, mixed, body
  <1>8. Code((<<open, map>> \o MappedRound(size)) \o tail, Idle, {}, FALSE)
    <2>1. Code(<<open, map>> \o MappedRound(size), Idle, {}, FALSE)
      BY Zenon, <1>1, <1>2, CodeConcat
    <2> QED BY Zenon, <1>3, <2>1, CodeConcat
  <1>9. Code((<<open, map, map, map, unmap_card, map>> \o MappedRound(size)) \o tails, Idle, {}, FALSE)
    <2> DEFINE head == <<open, map, map, map, unmap_card, map>>
    <2>1. Code(<<map, map>> \o <<unmap_card, map>>, Ready, Ready, FALSE)
      BY Zenon, <1>1, CodeConcat
    <2>2. Code(<<open, map>> \o (<<map, map>> \o <<unmap_card, map>>), Idle, Ready, FALSE)
      BY Zenon, <1>1, <2>1, CodeConcat
    <2>3. Code(head, Idle, Ready, FALSE)
      BY Zenon, <1>5, <2>2
    <2> HIDE DEF head
    <2>4. Code(head \o MappedRound(size), Idle, {}, FALSE)
      BY Zenon, <1>2, <2>3, CodeConcat
    <2>5. Code((head \o MappedRound(size)) \o tails, Idle, {}, FALSE)
      BY Zenon, <1>3, <2>4, CodeConcat
    <2> QED BY Zenon, <2>5 DEF head
  <1>10. Code(<<open, map>> \o (mixed \o compared), Idle, {}, FALSE)
    <2>1. Code(mixed \o compared, Ready, {}, FALSE)
      BY Zenon, <1>3, <1>4, CodeConcat
    <2> QED BY Zenon, <1>1, <2>1, CodeConcat
  <1>11. Code(<<open, map>> \o (body \o <<close_handle>>), Idle, {}, FALSE)
    <2>1. Code(body \o <<close_handle>>, Ready, {}, FALSE)
      BY Zenon, <1>3, <1>4, CodeConcat
    <2> QED BY Zenon, <1>1, <2>1, CodeConcat
  <1>12. /\ Code(<<open, map, strncpy_card, expect, forth, take, forth, v1, v2, unmap_card, passed,
                   close_handle>>, Idle, {}, FALSE)
         /\ Code(<<open, map, strncpy_card, forth, then, loop, close_handle>>, Idle, {}, FALSE)
    BY Zenon, <1>6, <1>7, <1>10, <1>11
  <1> QED BY Zenon, <1>8, <1>9, <1>12 DEF open, map, expect, forth, then, v1, v2, loop, tail, tails

-----------------------------------------------------------------------------
\* Work has a proof outline.
LEMMA WorkSound == \A code, kids : Work(code, kids) => SoundCode(code)
  <1> SUFFICES ASSUME NEW code, NEW kids, Work(code, kids) PROVE SoundCode(code)
    BY Zenon
  <1>1. /\ code \in Seq(ProgramLine) /\ ~OnCard(code)
        /\ Leads(code, Idle, Idle, TooLong(code))
    BY Zenon DEF Work, Code
  <1>2. \E note : Outline(code, note)
    BY Zenon, <1>1 DEF Leads, Outline
  <1> QED BY Zenon, <1>1, <1>2 DEF SoundCode

\* Work after work is work.
LEMMA WorkConcat ==
    ASSUME NEW a, NEW b, NEW kids, Work(a, kids), Work(b, kids)
    PROVE  Work(a \o b, kids)
  <1> DEFINE c == a \o b
             Off(l) == ~(l.do = "strncpy" \/ (IsCall(l) /\ l.mapped = 1))
             Child(l) == l.do \in {"fork", "kill"} => l.child \in kids
             Far(l) == l.do = "decrypt" /\ ~Short(l.size)
  <1>1. a \in Seq(ProgramLine) /\ b \in Seq(ProgramLine)
    BY Zenon DEF Work, Code
  <1>2. /\ \A n \in 1 .. Len(a) : Off(a[n]) /\ Child(a[n])
        /\ \A n \in 1 .. Len(b) : Off(b[n]) /\ Child(b[n])
    BY Zenon DEF Work, OnCard
  <1>3. \A n \in 1 .. Len(c) :
            \/ n \in 1 .. Len(a) /\ c[n] = a[n]
            \/ \E m \in 1 .. Len(b) : c[n] = b[m]
    <2> SUFFICES ASSUME NEW n \in 1 .. Len(c), n \notin 1 .. Len(a)
                 PROVE  \E m \in 1 .. Len(b) : c[n] = b[m]
      BY <1>1
    <2>1. n - Len(a) \in 1 .. Len(b) /\ c[n] = b[n - Len(a)]
      BY <1>1
    <2> QED BY Zenon, <2>1
  <1>4. /\ \A n \in 1 .. Len(a) : n \in 1 .. Len(c) /\ c[n] = a[n]
        /\ \A n \in 1 .. Len(b) : Len(a) + n \in 1 .. Len(c) /\ c[Len(a) + n] = b[n]
    BY <1>1
  <1> HIDE DEF c, Off, Child
  <1>5. \A n \in 1 .. Len(c) : Off(c[n]) /\ Child(c[n])
    BY Zenon, <1>2, <1>3
  <1>6. ~OnCard(c)
    BY Zenon, <1>5 DEF OnCard, Off
  <1>7. (TooLong(a) => TooLong(c)) /\ (TooLong(b) => TooLong(c))
    BY Zenon, <1>4, <1>6 DEF TooLong
  <1>8. Code(c, Idle, Idle, TooLong(c))
    <2>1. Code(a, Idle, Idle, TooLong(c)) /\ Code(b, Idle, Idle, TooLong(c))
      BY <1>7, CodeMayFail DEF Work
    <2> QED BY Zenon, <2>1, CodeConcat DEF c
  <1> QED BY Zenon, <1>5, <1>6, <1>8 DEF Work, Child, c

\* Code without calls, or with the calls of a comparison, works.
LEMMA QuietWork ==
    ASSUME NEW code \in Seq(ProgramLine), NEW kids,
           \A n \in 1 .. Len(code) :
               /\ code[n].do \in Quiet
               /\ code[n].do \in {"fork", "kill"} => code[n].child \in kids
    PROVE  Work(code, kids)
  <1>1. Code(code, Idle, Idle, FALSE)
    BY Zenon, QuietCode
  <1>2. \A x \in Quiet : x \notin {"strncpy", "encrypt", "decrypt"}
    BY DEF Quiet
  <1>3. ~OnCard(code)
    BY Zenon, <1>2 DEF OnCard, IsCall
  <1>4. Code(code, Idle, Idle, TooLong(code))
    BY Zenon, <1>1, CodeMayFail
  <1> QED BY Zenon, <1>3, <1>4 DEF Work

\* do_encryption is work.
LEMMA EncryptionWork ==
    ASSUME NEW n \in Nat, NEW dma \in Bit, NEW irq \in Bit, NEW size \in Nat, NEW kids
    PROVE  Work(do_encryption(n, dma, irq, size), kids)
  <1> DEFINE c == do_encryption(n, dma, irq, size)
  <1>1. Code(c, Idle, Idle, ~Short(size))
    BY Zenon, EncryptionLeads
  <1>2. \A m \in 1 .. Len(c) :
            /\ c[m].do \notin {"strncpy", "fork", "kill"}
            /\ c[m].do \in {"encrypt", "decrypt"} => c[m].mapped = 0
    BY DEF do_encryption, create_device_handle, take, create_encrpyted_buffer, encrypt, decrypt,
           isValid, turn_back, again, close_handle
  <1>3. 6 \in 1 .. Len(c) /\ c[6].do = "decrypt" /\ c[6].size = size
    BY DEF do_encryption, decrypt
  <1> HIDE DEF c
  <1>4. ~OnCard(c)
    BY <1>2 DEF OnCard, IsCall
  <1>5. ~Short(size) => TooLong(c)
    BY Zenon, <1>3, <1>4 DEF TooLong
  <1>6. Code(c, Idle, Idle, TooLong(c))
    BY Zenon, <1>1, <1>5, CodeMayFail
  <1>7. Work(c, kids)
    BY Zenon, <1>2, <1>4, <1>6 DEF Work
  <1> QED BY Zenon, <1>7 DEF c

\* The programs of one process that stay out of the card's memory.
LEMMA SingleWork ==
    ASSUME NEW kids
    PROVE  /\ \A dma, irq \in Bit : Work(hello(dma, irq), kids) /\ Work(two_handles(dma, irq), kids)
           /\ \A dma, irq \in Bit, size, n \in Nat : Short(size) =>
                 Work(<<create_device_handle(dma, irq, 30, 17), take, encrypt(size, 0),
                        decrypt(size, 0), again(3, n), close_handle>>, kids)
           /\ Work(<<take, create_device_handle(SET, SET, 30, 17), encrypt(12, 0), decrypt(12, 0),
                     close_handle>>, kids)
  <1> DEFINE Lonely(c) ==
        \A m \in 1 .. Len(c) :
            /\ c[m].do \notin {"strncpy", "fork", "kill"}
            /\ c[m].do \in {"encrypt", "decrypt"} => c[m].mapped = 0
  <1>1. ASSUME NEW c, Lonely(c), Code(c, Idle, Idle, FALSE) PROVE Work(c, kids)
    <2>1. ~OnCard(c)
      BY <1>1 DEF OnCard, IsCall
    <2>2. Code(c, Idle, Idle, TooLong(c))
      BY Zenon, <1>1, CodeMayFail
    <2> QED BY Zenon, <1>1, <2>1, <2>2 DEF Work
  <1>2. \A dma, irq \in Bit : Lonely(hello(dma, irq))
    BY DEF hello, create_device_handle, take, create_encrpyted_buffer, encrypt, decrypt,
           isValid, close_handle, passed
  <1>3. \A dma, irq \in Bit : Lonely(two_handles(dma, irq))
    BY DEF two_handles, create_device_handle, take, create_encrpyted_buffer, encrypt, decrypt,
           isValid, close_handle, passed
  <1>4. \A dma, irq \in Bit, size, n \in Nat :
            Lonely(<<create_device_handle(dma, irq, 30, 17), take, encrypt(size, 0),
                     decrypt(size, 0), again(3, n), close_handle>>)
    BY DEF create_device_handle, take, encrypt, decrypt, again, close_handle
  <1>5. Lonely(<<take, create_device_handle(SET, SET, 30, 17), encrypt(12, 0), decrypt(12, 0),
                 close_handle>>)
    BY DEF create_device_handle, take, encrypt, decrypt, close_handle
  <1> HIDE DEF Lonely
  <1>6. \A dma, irq \in Bit : Work(hello(dma, irq), kids) /\ Work(two_handles(dma, irq), kids)
    BY Zenon, <1>1, <1>2, <1>3, HelloCode, TwoHandlesCode
  <1>7. \A dma, irq \in Bit, size, n \in Nat : Short(size) =>
            Work(<<create_device_handle(dma, irq, 30, 17), take, encrypt(size, 0),
                   decrypt(size, 0), again(3, n), close_handle>>, kids)
    BY Zenon, <1>1, <1>4, BenchmarkCode
  <1> QED BY Zenon, <1>1, <1>5, <1>6, <1>7, TestCaseCode

-----------------------------------------------------------------------------
\* A run of several processes that stay out of the card's memory.
LEMMA CrowdRun ==
    ASSUME NEW r, 1 \in DOMAIN r, \A t \in DOMAIN r : Work(r[t].code, DOMAIN r \ {1})
    PROVE  SoundRun(r)
  <1>1. \A t \in DOMAIN r : SoundCode(r[t].code)
    BY Zenon, WorkSound
  <1>2. \A t \in DOMAIN r : ~OnCard(r[t].code)
    BY Zenon DEF Work
  <1>3. \A t \in DOMAIN r : \A n \in 1 .. Len(r[t].code) :
            r[t].code[n].do \in {"fork", "kill"} => r[t].code[n].child \in DOMAIN r \ {1}
    BY Zenon DEF Work
  <1> QED BY Zenon, <1>1, <1>2, <1>3 DEF SoundRun

\* The run of a program of one process.
LEMMA AloneIs ==
    \A code : \A r \in Alone(code) : DOMAIN r = {1} /\ r[1].code = code
  BY DEF Alone

\* A program of one process that works is fine.
LEMMA AloneRun == \A code : Work(code, {}) => Fine(Alone(code))
  <1> SUFFICES ASSUME NEW code, Work(code, {}), NEW r \in Alone(code) PROVE SoundRun(r)
    BY Zenon DEF Fine
  <1>1. DOMAIN r = {1} /\ r[1].code = code
    BY Zenon, AloneIs
  <1>2. DOMAIN r \ {1} = {}
    BY Zenon, <1>1
  <1> QED BY Zenon, <1>1, <1>2, CrowdRun

\* So is one on the card that leads nowhere.
LEMMA MappedRun ==
    ASSUME NEW code, Code(code, Idle, {}, FALSE), OnCard(code),
           \A n \in 1 .. Len(code) : code[n].do \notin {"exit", "join", "fork", "kill"}
    PROVE  Fine(Alone(code))
  <1> SUFFICES ASSUME NEW r \in Alone(code) PROVE SoundRun(r)
    BY Zenon DEF Fine
  <1>1. DOMAIN r = {1} /\ r[1].code = code
    BY Zenon, AloneIs
  <1>2. Code(code, Idle, {}, TooLong(code))
    BY Zenon, CodeMayFail
  <1>3. code \in Seq(ProgramLine) /\ Leads(code, Idle, {}, TooLong(code))
    BY Zenon, <1>2 DEF Code
  <1>4. \E note : Outline(code, note)
    BY Zenon, <1>3 DEF Leads, Outline
  <1>5. SoundCode(code)
    BY Zenon, <1>3, <1>4 DEF SoundCode, Ends
  <1> QED BY Zenon, <1>1, <1>5 DEF SoundRun

\* The programs on the card are fine.
LEMMA MappedFine ==
    ASSUME NEW irq \in Bit, NEW size \in Nat, size <= 1024 * KB - 168
    PROVE  /\ Fine(mapped(irq, size)) /\ Fine(mapped_thrice(irq, size))
           /\ Fine(mapped_and_not(irq, size))
  <1> DEFINE open == create_device_handle(UNSET, irq, 30, 17)
             map == map_card(size)
             one == <<open, map>> \o MappedRound(size) \o <<unmap_card, passed, close_handle>>
             thrice == <<open, map, map, map, unmap_card, map>> \o MappedRound(size)
                         \o <<unmap_card, unmap_card, unmap_card, passed, close_handle>>
             mix == <<open, map, strncpy_card, create_encrpyted_buffer(30, 17), encrypt(size, 1),
                      take, encrypt(size, 1), isValid("text", "expected"),
                      isValid("card", "expected"), unmap_card, passed, close_handle>>
             Stay(c) == /\ OnCard(c)
                        /\ \A n \in 1 .. Len(c) : c[n].do \notin {"exit", "join", "fork", "kill"}
  <1>1. Code(one, Idle, {}, FALSE) /\ Code(thrice, Idle, {}, FALSE) /\ Code(mix, Idle, {}, FALSE)
    <2>1. 0 \in Nat
      OBVIOUS
    <2> QED BY Zenon, <2>1, MappedCodes
  <1>2. Stay(one)
    <2>1. 3 \in 1 .. Len(one) /\ one[3].do = "strncpy"
      BY DEF MappedRound, strncpy_card
    <2>2. \A n \in 1 .. Len(one) : one[n].do \notin {"exit", "join", "fork", "kill"}
      BY DEF MappedRound, strncpy_card, create_device_handle, map_card, create_encrpyted_buffer,
             encrypt, decrypt, isValid, unmap_card, passed, close_handle
    <2> HIDE DEF one
    <2> QED BY Zenon, <2>1, <2>2 DEF OnCard
  <1>3. Stay(thrice)
    <2>1. 7 \in 1 .. Len(thrice) /\ thrice[7].do = "strncpy"
      BY DEF MappedRound, strncpy_card
    <2>2. \A n \in 1 .. Len(thrice) : thrice[n].do \notin {"exit", "join", "fork", "kill"}
      BY DEF MappedRound, strncpy_card, create_device_handle, map_card, create_encrpyted_buffer,
             encrypt, decrypt, isValid, unmap_card, passed, close_handle
    <2> HIDE DEF thrice
    <2> QED BY Zenon, <2>1, <2>2 DEF OnCard
  <1>4. Stay(mix)
    <2>1. 3 \in 1 .. Len(mix) /\ mix[3].do = "strncpy"
      BY DEF strncpy_card
    <2>2. \A n \in 1 .. Len(mix) : mix[n].do \notin {"exit", "join", "fork", "kill"}
      BY DEF strncpy_card, create_device_handle, map_card, create_encrpyted_buffer,
             encrypt, take, isValid, unmap_card, passed, close_handle
    <2> HIDE DEF mix
    <2> QED BY Zenon, <2>1, <2>2 DEF OnCard
  <1>5. ASSUME NEW c, Stay(c), Code(c, Idle, {}, FALSE) PROVE Fine(Alone(c))
    BY Zenon, <1>5, MappedRun
  <1> HIDE DEF Stay, one, thrice, mix
  <1>6. Fine(Alone(one)) /\ Fine(Alone(thrice)) /\ Fine(Alone(mix))
    BY Zenon, <1>1, <1>2, <1>3, <1>4, <1>5
  <1> QED BY Zenon, <1>6 DEF one, thrice, mix, mapped, mapped_thrice, mapped_and_not

\* So are the benchmarks on the card.
LEMMA MappedBenchmarkFine ==
    ASSUME NEW irq \in Bit, NEW size \in Nat, size <= 1024 * KB - 168, NEW n \in Nat
    PROVE  Fine(Alone(<<create_device_handle(UNSET, irq, 30, 17), map_card(size),
                        strncpy_card, encrypt(size, 1), decrypt(size, 1), again(3, n),
                        close_handle>>))
  <1> DEFINE c == <<create_device_handle(UNSET, irq, 30, 17), map_card(size),
                    strncpy_card, encrypt(size, 1), decrypt(size, 1), again(3, n), close_handle>>
  <1>1. Code(c, Idle, {}, FALSE)
    BY Zenon, MappedCodes
  <1>2. 3 \in 1 .. Len(c) /\ c[3].do = "strncpy"
    BY DEF strncpy_card
  <1>3. \A m \in 1 .. Len(c) : c[m].do \notin {"exit", "join", "fork", "kill"}
    BY DEF strncpy_card, create_device_handle, map_card, encrypt, decrypt, again, close_handle
  <1> HIDE DEF c
  <1>4. OnCard(c)
    BY Zenon, <1>2 DEF OnCard
  <1>5. Fine(Alone(c))
    BY Zenon, <1>1, <1>3, <1>4, MappedRun
  <1> QED BY Zenon, <1>5 DEF c

-----------------------------------------------------------------------------
\* Lines around the work of a process.
LEMMA QuietLines ==
    /\ \A j \in Nat : /\ fork(j) \in ProgramLine /\ fork(j).do = "fork" /\ fork(j).child = j
                      /\ kill(j) \in ProgramLine /\ kill(j).do = "kill" /\ kill(j).child = j
    /\ \A js \in SUBSET Nat : wait(js) \in ProgramLine /\ wait(js).do = "wait"
    /\ passed \in ProgramLine /\ passed.do = "passed"
    /\ join_unset \in ProgramLine /\ join_unset.do = "join"
    /\ exit \in ProgramLine /\ exit.do = "exit"
    /\ SET \in Bit /\ UNSET \in Bit
  <1>1. SET \in Bit /\ UNSET \in Bit
    BY DEF Bit
  <1> QED BY Zenon, <1>1, ProgramLines DEF Plain, fork, kill, wait, passed, join_unset, exit

\* The ends of the programs with several processes.
LEMMA Endings ==
    ASSUME NEW kids, NEW js \in SUBSET Nat
    PROVE  /\ Work(<<passed>>, kids)
           /\ Work(<<wait(js), passed>>, kids)
           /\ Work(<<wait(js), passed, exit>>, kids)
           /\ Work(<<wait(js), join_unset, passed, exit>>, kids)
  <1> DEFINE w == wait(js)
             Q(c) == /\ c \in Seq(ProgramLine)
                     /\ \A n \in 1 .. Len(c) : /\ c[n].do \in Quiet
                                               /\ c[n].do \notin {"fork", "kill"}
  <1>0. w \in ProgramLine /\ w.do = "wait"
    BY Zenon, QuietLines
  <1> HIDE DEF w
  <1>1. Q(<<passed>>) /\ Q(<<w, passed>>)
    BY <1>0, QuietLines DEF Quiet
  <1>2. Q(<<w, passed, exit>>)
    BY <1>0, QuietLines DEF Quiet
  <1>3. Q(<<w, join_unset, passed, exit>>)
    BY <1>0, QuietLines DEF Quiet
  <1>4. ASSUME NEW c, Q(c) PROVE Work(c, kids)
    BY Zenon, <1>4, QuietWork
  <1> HIDE DEF Q
  <1> QED BY Zenon, <1>1, <1>2, <1>3, <1>4 DEF w

\* Forks is work.
LEMMA ForksWork ==
    ASSUME NEW k \in Nat, NEW js \in [1 .. k -> Nat], NEW kids, \A n \in 1 .. k : js[n] \in kids
    PROVE  Work(Forks(js), kids)
  <1> DEFINE c == Forks(js)
  <1>1. c = [n \in 1 .. k |-> fork(js[n])]
    BY Zenon DEF Forks
  <1>2. /\ c \in [1 .. k -> ProgramLine]
        /\ \A n \in 1 .. k : fork(js[n]).do = "fork" /\ fork(js[n]).child = js[n]
    <2>1. \A n \in 1 .. k : js[n] \in Nat
      BY Zenon
    <2>2. \A n \in 1 .. k : /\ fork(js[n]) \in ProgramLine
                            /\ fork(js[n]).do = "fork" /\ fork(js[n]).child = js[n]
      BY Zenon, <2>1, QuietLines
    <2> QED BY Zenon, <1>1, <2>2
  <1>3. c \in Seq(ProgramLine) /\ Len(c) = k
    BY <1>2
  <1>4. \A n \in 1 .. k : c[n].do \in Quiet /\ c[n].child \in kids
    <2>1. \A n \in 1 .. k : c[n] = fork(js[n])
      BY Zenon, <1>1
    <2>2. "fork" \in Quiet
      BY DEF Quiet
    <2> HIDE DEF c
    <2> QED BY Zenon, <1>2, <2>1, <2>2
  <1> HIDE DEF c
  <1>5. Work(c, kids)
    BY Zenon, <1>3, <1>4, QuietWork
  <1> QED BY Zenon, <1>5 DEF c

\* Runs of three, four and five processes, and of one with MaxForks more.
LEMMA ThreeRun ==
    ASSUME NEW p, NEW q, NEW r, Work(p.code, {2, 3}), Work(q.code, {2, 3}), Work(r.code, {2, 3})
    PROVE  Fine({<<p, q, r>>})
  <1> DEFINE s == <<p, q, r>>
  <1>1. DOMAIN s \ {1} = {2, 3} /\ 1 \in DOMAIN s
    OBVIOUS
  <1>2. \A t \in DOMAIN s : Work(s[t].code, {2, 3})
    OBVIOUS
  <1> HIDE DEF s
  <1>3. SoundRun(s)
    BY Zenon, <1>1, <1>2, CrowdRun
  <1> QED BY Zenon, <1>3 DEF s, Fine

\* Four processes,
LEMMA FourRun ==
    ASSUME NEW p, NEW q, NEW r, NEW u, Work(p.code, {2, 3, 4}), Work(q.code, {2, 3, 4}),
           Work(r.code, {2, 3, 4}), Work(u.code, {2, 3, 4})
    PROVE  Fine({<<p, q, r, u>>})
  <1> DEFINE s == <<p, q, r, u>>
  <1>1. DOMAIN s \ {1} = {2, 3, 4} /\ 1 \in DOMAIN s
    OBVIOUS
  <1>2. \A t \in DOMAIN s : Work(s[t].code, {2, 3, 4})
    OBVIOUS
  <1> HIDE DEF s
  <1>3. SoundRun(s)
    BY Zenon, <1>1, <1>2, CrowdRun
  <1> QED BY Zenon, <1>3 DEF s, Fine

\* five,
LEMMA FiveRun ==
    ASSUME NEW p, NEW q, NEW r, NEW u, NEW v, Work(p.code, 2 .. 5), Work(q.code, 2 .. 5),
           Work(r.code, 2 .. 5), Work(u.code, 2 .. 5), Work(v.code, 2 .. 5)
    PROVE  Fine({<<p, q, r, u, v>>})
  <1> DEFINE s == <<p, q, r, u, v>>
  <1>1. DOMAIN s \ {1} = 2 .. 5 /\ 1 \in DOMAIN s
    OBVIOUS
  <1>2. \A t \in DOMAIN s : Work(s[t].code, 2 .. 5)
    OBVIOUS
  <1> HIDE DEF s
  <1>3. SoundRun(s)
    BY Zenon, <1>1, <1>2, CrowdRun
  <1> QED BY Zenon, <1>3 DEF s, Fine

\* and a first one with MaxForks children.
LEMMA FamilyRun ==
    ASSUME NEW p, NEW S, NEW s \in [1 .. MaxForks -> S], Work(p.code, Kids),
           \A n \in 1 .. MaxForks : Work(s[n].code, Kids)
    PROVE  SoundRun(<<p>> \o s)
  <1> DEFINE r == <<p>> \o s
  <1>0. MaxForks \in Nat
    BY ProgramsAssumption
  <1>1. s \in Seq(S) /\ Len(s) = MaxForks
    BY <1>0
  <1>2. DOMAIN r = 1 .. MaxForks + 1 /\ r[1] = p /\ \A n \in 1 .. MaxForks : r[1 + n] = s[n]
    BY <1>0, <1>1
  <1> HIDE DEF r
  <1>3. DOMAIN r \ {1} = Kids /\ 1 \in DOMAIN r
    BY <1>0, <1>2 DEF Kids
  <1>4. \A t \in DOMAIN r : Work(r[t].code, Kids)
    <2> SUFFICES ASSUME NEW t \in DOMAIN r, t # 1 PROVE Work(r[t].code, Kids)
      BY Zenon, <1>2
    <2>1. t - 1 \in 1 .. MaxForks /\ 1 + (t - 1) = t
      BY <1>0, <1>2
    <2>2. r[t] = s[t - 1]
      BY Zenon, <1>2, <2>1
    <2> QED BY Zenon, <2>1, <2>2
  <1>5. SoundRun(r)
    BY Zenon, <1>3, <1>4, CrowdRun
  <1> QED BY Zenon, <1>5 DEF r

-----------------------------------------------------------------------------
\* test3, test4 and test5 of the four modes are fine.
LEMMA ChunksFine ==
    ASSUME NEW n \in Nat, NEW dma \in Bit, NEW irq \in Bit, NEW size \in Nat
    PROVE  Fine(chunks(n, dma, irq, size))
  <1>1. {} \in SUBSET Nat
    BY Zenon
  <1>2. Work(do_encryption(n, dma, irq, size) \o <<passed>>, {})
    BY Zenon, <1>1, EncryptionWork, Endings, WorkConcat
  <1> QED BY Zenon, <1>2, AloneRun DEF chunks

\* The sizes that programs use.
LEMMA SizesAreNat ==
    /\ KB \in Nat /\ 1020 * KB \in Nat /\ 55 * KB \in Nat /\ 32 * KB \in Nat /\ 340 * KB \in Nat
    /\ FileSize \in Nat /\ Pages \in Nat /\ Short(4096)
    /\ 1020 * KB <= 1024 * KB - 168 /\ 340 * KB <= 1024 * KB - 168
    /\ 13 <= 1024 * KB - 168 /\ 4096 <= 1024 * KB - 168
  BY DEF KB, FileSize, Pages, Short

\* The directories of single-process programs are fine,
LEMMA SinglesFine ==
    /\ \A n \in DOMAIN Suite.DMA_IRQ : Fine(Suite.DMA_IRQ[n])
    /\ \A n \in DOMAIN Suite.DMA : Fine(Suite.DMA[n])
    /\ \A n \in DOMAIN Suite.MMIO_IRQ : Fine(Suite.MMIO_IRQ[n])
    /\ \A n \in DOMAIN Suite.MMIO : Fine(Suite.MMIO[n])
  <1>1. ASSUME NEW dma \in Bit, NEW irq \in Bit
        PROVE  Fine(Alone(hello(dma, irq))) /\ Fine(Alone(two_handles(dma, irq)))
    BY Zenon, SingleWork, AloneRun
  <1>2. /\ Fine(DMA_IRQ_test1) /\ Fine(DMA_IRQ_test2) /\ Fine(DMA_test1) /\ Fine(DMA_test2)
        /\ Fine(MMIO_IRQ_test1) /\ Fine(MMIO_IRQ_test2) /\ Fine(MMIO_test1) /\ Fine(MMIO_test2)
    BY Zenon, <1>1, QuietLines DEF DMA_IRQ_test1, DMA_IRQ_test2, DMA_test1, DMA_test2,
       MMIO_IRQ_test1, MMIO_IRQ_test2, MMIO_test1, MMIO_test2
  <1>3. /\ Fine(DMA_IRQ_test3) /\ Fine(DMA_IRQ_test4) /\ Fine(DMA_IRQ_test5)
        /\ Fine(DMA_test3) /\ Fine(DMA_test4) /\ Fine(DMA_test5)
    BY ChunksFine, QuietLines, SizesAreNat DEF DMA_IRQ_test3, DMA_IRQ_test4, DMA_IRQ_test5,
       DMA_test3, DMA_test4, DMA_test5
  <1>4. /\ Fine(MMIO_IRQ_test3) /\ Fine(MMIO_IRQ_test4) /\ Fine(MMIO_IRQ_test5)
        /\ Fine(MMIO_test3) /\ Fine(MMIO_test4) /\ Fine(MMIO_test5)
    BY ChunksFine, QuietLines, SizesAreNat DEF MMIO_IRQ_test3, MMIO_IRQ_test4, MMIO_IRQ_test5,
       MMIO_test3, MMIO_test4, MMIO_test5
  <1>5. /\ \A n \in DOMAIN Suite.DMA_IRQ : Fine(Suite.DMA_IRQ[n])
        /\ \A n \in DOMAIN Suite.DMA : Fine(Suite.DMA[n])
    BY <1>2, <1>3 DEF Suite
  <1>6. /\ \A n \in DOMAIN Suite.MMIO_IRQ : Fine(Suite.MMIO_IRQ[n])
        /\ \A n \in DOMAIN Suite.MMIO : Fine(Suite.MMIO[n])
    BY <1>2, <1>4 DEF Suite
  <1> QED BY Zenon, <1>5, <1>6

\* and the ones on the card, and the benchmarks.
LEMMA MapsFine ==
    /\ \A n \in DOMAIN Suite.MMAP_IRQ : Fine(Suite.MMAP_IRQ[n])
    /\ \A n \in DOMAIN Suite.MMAP : Fine(Suite.MMAP[n])
    /\ \A n \in DOMAIN Suite.benchmark : Fine(Suite.benchmark[n])
  <1>1. /\ Fine(MMAP_IRQ_test1) /\ Fine(MMAP_IRQ_test2) /\ Fine(MMAP_IRQ_test3) /\ Fine(MMAP_IRQ_test4)
        /\ Fine(MMAP_test1) /\ Fine(MMAP_test2) /\ Fine(MMAP_test3) /\ Fine(MMAP_test4)
    BY MappedFine, QuietLines, SizesAreNat DEF MMAP_IRQ_test1, MMAP_IRQ_test2, MMAP_IRQ_test3,
       MMAP_IRQ_test4, MMAP_test1, MMAP_test2, MMAP_test3, MMAP_test4
  <1>2. /\ Fine(benchmark_mmap) /\ Fine(benchmark_mmap_interrupt)
    BY MappedBenchmarkFine, QuietLines, SizesAreNat
       DEF benchmark_mmap, benchmark_mmap_interrupt, mapped_benchmark
  <1>3. ASSUME NEW dma \in Bit, NEW irq \in Bit PROVE Fine(benchmark(dma, irq))
    <2>1. ASSUME NEW size \in Nat, Short(size), NEW n \in Nat
          PROVE  Fine(Alone(<<create_device_handle(dma, irq, 30, 17), take, encrypt(size, 0),
                              decrypt(size, 0), again(3, n), close_handle>>))
      BY Zenon, <2>1, SingleWork, AloneRun
    <2> QED BY <2>1, SizesAreNat DEF benchmark
  <1>4. /\ Fine(benchmark_dma) /\ Fine(benchmark_dma_interrupt) /\ Fine(benchmark_mmio)
        /\ Fine(benchmark_mmio_interrupt)
    BY Zenon, <1>3, QuietLines DEF benchmark_dma, benchmark_dma_interrupt, benchmark_mmio,
       benchmark_mmio_interrupt
  <1>5. Fine(test_case_1)
    BY Zenon, SingleWork, AloneRun DEF test_case_1
  <1>6. /\ \A n \in DOMAIN Suite.MMAP_IRQ : Fine(Suite.MMAP_IRQ[n])
        /\ \A n \in DOMAIN Suite.MMAP : Fine(Suite.MMAP[n])
    BY <1>1 DEF Suite
  <1>7. \A n \in DOMAIN Suite.benchmark : Fine(Suite.benchmark[n])
    BY <1>2, <1>4, <1>5 DEF Suite
  <1> QED BY Zenon, <1>6, <1>7

-----------------------------------------------------------------------------
\* What main does around its own work.
LEMMA MainWork ==
    /\ Work(<<fork(2), fork(3)>>, {2, 3})
    /\ Work(Forks(<<2, 3, 4>>), {2, 3, 4})
    /\ Work(<<fork(2), fork(3), wait({2, 3}), passed, exit>>, {2, 3})
    /\ Work(<<fork(2), fork(3), wait({2, 3}), passed>>, {2, 3})
    /\ Work(<<fork(2), fork(3), fork(4), fork(5), wait(2 .. 5), passed>>, 2 .. 5)
    /\ Work(Forks(KidList), Kids)
  <1> DEFINE Q(c, kids) ==
                /\ c \in Seq(ProgramLine)
                /\ \A n \in 1 .. Len(c) : /\ c[n].do \in Quiet
                                          /\ c[n].do \in {"fork", "kill"} => c[n].child \in kids
             w == wait({2, 3})
             v == wait(2 .. 5)
  <1>0. w \in ProgramLine /\ w.do = "wait" /\ v \in ProgramLine /\ v.do = "wait"
    <2>1. {2, 3} \in SUBSET Nat /\ 2 .. 5 \in SUBSET Nat
      OBVIOUS
    <2> QED BY Zenon, <2>1, QuietLines
  <1> HIDE DEF w, v
  <1>1. Q(<<fork(2), fork(3)>>, {2, 3})
    BY QuietLines DEF Quiet
  <1>2. Q(<<fork(2), fork(3), w, passed, exit>>, {2, 3})
    BY <1>0, QuietLines DEF Quiet
  <1>3. Q(<<fork(2), fork(3), w, passed>>, {2, 3})
    BY <1>0, QuietLines DEF Quiet
  <1>4. Q(<<fork(2), fork(3), fork(4), fork(5), v, passed>>, 2 .. 5)
    BY <1>0, QuietLines DEF Quiet
  <1>5. ASSUME NEW c, NEW kids, Q(c, kids) PROVE Work(c, kids)
    BY Zenon, <1>5, QuietWork
  <1> HIDE DEF Q
  <1>6. Work(Forks(<<2, 3, 4>>), {2, 3, 4})
    <2> DEFINE js == <<2, 3, 4>>
    <2>1. js \in [1 .. 3 -> Nat] /\ 3 \in Nat /\ \A n \in 1 .. 3 : js[n] \in {2, 3, 4}
      OBVIOUS
    <2> HIDE DEF js
    <2>2. Work(Forks(js), {2, 3, 4})
      BY Zenon, <2>1, ForksWork
    <2> QED BY Zenon, <2>2 DEF js
  <1>7. Work(Forks(KidList), Kids)
    <2>0. MaxForks \in Nat
      BY ProgramsAssumption
    <2>1. KidList \in [1 .. MaxForks -> Nat] /\ \A n \in 1 .. MaxForks : KidList[n] \in Kids
      BY <2>0 DEF KidList, Numbers, Kids
    <2> QED BY Zenon, <2>0, <2>1, ForksWork
  <1> QED BY Zenon, <1>1, <1>2, <1>3, <1>4, <1>5, <1>6, <1>7 DEF w, v

\* ForkAndKill is work.
LEMMA ForkAndKillWork == Work(ForkAndKill, Kids)
  <1> DEFINE k == 2 * MaxForks
             Line_(n) == IF n % 2 = 1 THEN fork((n + 1) \div 2 + 1) ELSE kill(n \div 2 + 1)
             c == [n \in 1 .. k |-> Line_(n)]
  <1>0. MaxForks \in Nat /\ k \in Nat
    BY ProgramsAssumption
  <1>1. ASSUME NEW n \in 1 .. k
        PROVE  Line_(n) \in ProgramLine /\ Line_(n).do \in Quiet /\ Line_(n).child \in Kids
    <2>1. CASE n % 2 = 1
      <3>1. (n + 1) \div 2 + 1 \in Nat /\ (n + 1) \div 2 + 1 \in Kids
        BY <1>0, <2>1 DEF Kids
      <3>2. Line_(n) = fork((n + 1) \div 2 + 1)
        BY Zenon, <2>1
      <3> QED BY Zenon, <3>1, <3>2, QuietLines DEF Quiet
    <2>2. CASE n % 2 # 1
      <3>1. n \div 2 + 1 \in Nat /\ n \div 2 + 1 \in Kids
        BY <1>0, <2>2 DEF Kids
      <3>2. Line_(n) = kill(n \div 2 + 1)
        BY Zenon, <2>2
      <3> QED BY Zenon, <3>1, <3>2, QuietLines DEF Quiet
    <2> QED BY Zenon, <2>1, <2>2
  <1> HIDE DEF Line_, k
  <1>2. c \in [1 .. k -> ProgramLine] /\ \A n \in 1 .. k : c[n] = Line_(n)
    BY Zenon, <1>1
  <1> HIDE DEF c
  <1>3. c \in Seq(ProgramLine) /\ Len(c) = k
    BY <1>0, <1>2
  <1>4. Work(c, Kids)
    BY Zenon, <1>1, <1>2, <1>3, QuietWork
  <1> QED BY Zenon, <1>4 DEF c, k, Line_, ForkAndKill

\* What children and threads do.
LEMMA ChildWork ==
    ASSUME NEW i \in 0 .. 3, NEW kids
    PROVE  /\ Work(ForkedWork(i), kids) /\ Work(do_large_encryption(i), kids)
           /\ Work(worker(i), kids)
           /\ Work(do_encryption(ChunkCount(i), SET, SET, ChunkSize(i)), kids)
  <1>1. Work(ForkedWork(i), kids)
    <2>1. /\ Work(do_encryption(500, UNSET, UNSET, 1), kids)
          /\ Work(do_encryption(20, UNSET, SET, 1555), kids)
      BY EncryptionWork, QuietLines
    <2>2. /\ Work(do_encryption(10, SET, UNSET, 1020 * KB), kids)
          /\ Work(do_encryption(15, SET, SET, 4096), kids)
      BY EncryptionWork, QuietLines, SizesAreNat
    <2> QED BY <2>1, <2>2 DEF ForkedWork
  <1>2. Work(do_large_encryption(i), kids)
    <2> DEFINE dma == IF i % 4 \in {2, 3} THEN SET ELSE UNSET
               irq == IF i % 4 \in {1, 3} THEN SET ELSE UNSET
    <2>1. dma \in Bit /\ irq \in Bit /\ 1 \in Nat /\ FileSize \in Nat
      BY QuietLines, SizesAreNat
    <2> HIDE DEF dma, irq
    <2>2. Work(do_encryption(1, dma, irq, FileSize), kids)
      BY Zenon, <2>1, EncryptionWork
    <2> QED BY Zenon, <2>2 DEF dma, irq, do_large_encryption
  <1>3. ChunkCount(i) \in Nat /\ ChunkSize(i) \in Nat
    <2>1. i % 4 = 0 \/ i % 4 = 1 \/ i % 4 = 2 \/ i % 4 = 3
      OBVIOUS
    <2> QED BY <2>1, SizesAreNat DEF ChunkCount, ChunkSize
  <1>4. Work(worker(i), kids)
    <2> DEFINE v == (i + ChunkCount(i) + ChunkSize(i)) % 4
               dma == IF v = 2 THEN UNSET ELSE SET
               irq == IF v = 1 THEN UNSET ELSE SET
    <2>1. dma \in Bit /\ irq \in Bit
      BY QuietLines
    <2> HIDE DEF dma, irq
    <2>2. Work(do_encryption(ChunkCount(i), dma, irq, ChunkSize(i)), kids)
      BY Zenon, <1>3, <2>1, EncryptionWork
    <2> QED BY Zenon, <2>2 DEF dma, irq, worker
  <1> QED BY Zenon, <1>1, <1>2, <1>3, <1>4, EncryptionWork, QuietLines

\* The code of a process and of a thread.
LEMMA ProcessIs ==
    \A n, code : Process(n, code).code = code /\ WorkerThread(code).code = code
  BY Zenon DEF Process, WorkerThread

\* The programs of a few processes are fine,
LEMMA FewFine ==
    /\ Fine(MP_test1) /\ Fine(MP_test2) /\ Fine(MP_test3)
    /\ Fine(MP_test6) /\ Fine(MP_test9) /\ Fine(MP_test10)
  <1>0. {2, 3} \in SUBSET Nat /\ {2, 3, 4} \in SUBSET Nat /\ 2 .. 5 \in SUBSET Nat
    OBVIOUS
  <1>1. ASSUME NEW a, NEW b, Work(a, {2, 3}), Work(b, {2, 3})
        PROVE  Fine({<<Process(1, <<fork(2), fork(3)>> \o b \o <<wait({2, 3}), passed>>),
                       Process(2, a), Process(3, b)>>})
    <2> DEFINE end == <<wait({2, 3}), passed>>
               begin == <<fork(2), fork(3)>>
               main == (begin \o b) \o end
               p == Process(1, main)
               q == Process(2, a)
               r == Process(3, b)
    <2>1. Work(begin, {2, 3}) /\ Work(end, {2, 3})
      BY Zenon, <1>0, MainWork, Endings
    <2> HIDE DEF begin, end
    <2>2. Work(begin \o b, {2, 3})
      BY Zenon, <1>1, <2>1, WorkConcat
    <2>3. Work(main, {2, 3})
      BY Zenon, <2>1, <2>2, WorkConcat
    <2>4. p.code = main /\ q.code = a /\ r.code = b
      BY Zenon, ProcessIs
    <2> HIDE DEF main, p, q, r
    <2>5. Work(p.code, {2, 3}) /\ Work(q.code, {2, 3}) /\ Work(r.code, {2, 3})
      BY Zenon, <1>1, <2>3, <2>4
    <2>6. Fine({<<p, q, r>>})
      BY Zenon, <2>5, ThreeRun
    <2> QED BY Zenon, <2>6 DEF p, q, r, main, begin, end
  <1>2. Fine(MP_test1)
    <2>1. Work(do_encryption(100, SET, SET, 1), {2, 3}) /\ Work(do_encryption(50, SET, SET, 1), {2, 3})
      BY EncryptionWork, QuietLines
    <2> QED BY Zenon, <1>1, <2>1 DEF MP_test1
  <1>3. Fine(MP_test2)
    <2> DEFINE a == do_encryption(100, UNSET, UNSET, 1555)
               b == do_encryption(50, UNSET, UNSET, 1555)
    <2>1. Work(a, {2, 3}) /\ Work(b, {2, 3})
      BY EncryptionWork, QuietLines
    <2>2. MP_test2 = {<<Process(1, <<fork(2), fork(3)>> \o b \o <<wait({2, 3}), passed>>),
                        Process(2, a), Process(3, b)>>}
      BY DEF MP_test2
    <2> HIDE DEF a, b
    <2> QED BY Zenon, <1>1, <2>1, <2>2
  <1>4. Fine(MP_test3)
    <2> DEFINE a == do_encryption(100, SET, SET, 1020)
               b == do_encryption(50, UNSET, SET, 1020)
               c == do_encryption(50, SET, UNSET, 1020)
               d == do_encryption(50, UNSET, UNSET, 1020)
               end == <<wait({2, 3, 4}), passed>>
               begin == Forks(<<2, 3, 4>>)
               main == (begin \o d) \o end
               p == Process(1, main)
               q == Process(2, a)
               r == Process(3, b)
               u == Process(4, c)
    <2>1. Work(a, {2, 3, 4}) /\ Work(b, {2, 3, 4}) /\ Work(c, {2, 3, 4}) /\ Work(d, {2, 3, 4})
      BY EncryptionWork, QuietLines
    <2>2. MP_test3 = {<<p, q, r, u>>}
      BY DEF MP_test3
    <2>3. Work(begin, {2, 3, 4}) /\ Work(end, {2, 3, 4})
      BY Zenon, <1>0, MainWork, Endings
    <2> HIDE DEF a, b, c, d, begin, end
    <2>4. Work(begin \o d, {2, 3, 4})
      BY Zenon, <2>1, <2>3, WorkConcat
    <2>5. Work(main, {2, 3, 4})
      BY Zenon, <2>3, <2>4, WorkConcat
    <2>6. p.code = main /\ q.code = a /\ r.code = b /\ u.code = c
      BY Zenon, ProcessIs
    <2> HIDE DEF main, p, q, r, u
    <2>7. /\ Work(p.code, {2, 3, 4}) /\ Work(q.code, {2, 3, 4})
          /\ Work(r.code, {2, 3, 4}) /\ Work(u.code, {2, 3, 4})
      BY Zenon, <2>1, <2>5, <2>6
    <2> QED BY Zenon, <2>2, <2>7, FourRun
  <1>5. Fine(MP_test6)
    <2> DEFINE a == do_encryption(100, UNSET, UNSET, 1)
               main == <<fork(2), fork(3), wait({2, 3}), passed, exit>>
               p == WorkerThread(main)
               q == WorkerThread(a)
    <2>1. Work(a, {2, 3}) /\ Work(main, {2, 3})
      BY EncryptionWork, QuietLines, MainWork
    <2>2. MP_test6 = {<<p, q, q>>}
      BY DEF MP_test6
    <2>3. p.code = main /\ q.code = a
      BY Zenon, ProcessIs
    <2> HIDE DEF main, a, p, q
    <2>4. Work(p.code, {2, 3}) /\ Work(q.code, {2, 3})
      BY Zenon, <2>1, <2>3
    <2> QED BY Zenon, <2>2, <2>4, ThreeRun
  <1>6. Fine(MP_test9)
    <2> DEFINE a == do_encryption(50, SET, SET, 1)
               b == do_encryption(100, SET, SET, 1)
               c == b \o <<passed>>
               main == <<fork(2), fork(3), fork(4), fork(5), wait(2 .. 5), passed>>
               p == Process(1, main)
               q == Process(2, a)
               r == WorkerThread(b)
               u == Process(4, c)
    <2>1. Work(a, 2 .. 5) /\ Work(b, 2 .. 5)
      BY EncryptionWork, QuietLines
    <2>2. Work(main, 2 .. 5)
      BY Zenon, MainWork
    <2>3. MP_test9 = {<<p, q, r, u, r>>}
      BY DEF MP_test9
    <2> HIDE DEF a, b
    <2>4. Work(c, 2 .. 5)
      <3>1. Work(<<passed>>, 2 .. 5)
        BY Zenon, <1>0, Endings
      <3> QED BY Zenon, <2>1, <3>1, WorkConcat
    <2>5. p.code = main /\ q.code = a /\ r.code = b /\ u.code = c
      BY Zenon, ProcessIs
    <2> HIDE DEF main, c, p, q, r, u
    <2>6. /\ Work(p.code, 2 .. 5) /\ Work(q.code, 2 .. 5)
          /\ Work(r.code, 2 .. 5) /\ Work(u.code, 2 .. 5)
      BY Zenon, <2>1, <2>2, <2>4, <2>5
    <2> QED BY Zenon, <2>3, <2>6, FiveRun
  <1>7. Fine(MP_test10)
    <2> DEFINE main == <<fork(2), fork(3), wait({2, 3}), passed>>
    <2>1. Work(main, {2, 3})
      BY Zenon, MainWork
    <2>2. MP_test10 = {<<Process(1, main), Process(2, ForkedWork(i)), WorkerThread(worker(j))>> :
                         i \in 0 .. 3, j \in 0 .. 3}
      BY DEF MP_test10
    <2> HIDE DEF main
    <2>3. ASSUME NEW i \in 0 .. 3, NEW j \in 0 .. 3
          PROVE  SoundRun(<<Process(1, main), Process(2, ForkedWork(i)), WorkerThread(worker(j))>>)
      <3> DEFINE p == Process(1, main)
                 q == Process(2, ForkedWork(i))
                 r == WorkerThread(worker(j))
      <3>1. p.code = main /\ q.code = ForkedWork(i) /\ r.code = worker(j)
        BY Zenon, ProcessIs
      <3>2. Work(ForkedWork(i), {2, 3}) /\ Work(worker(j), {2, 3})
        BY Zenon, ChildWork
      <3> HIDE DEF p, q, r
      <3>3. Work(p.code, {2, 3}) /\ Work(q.code, {2, 3}) /\ Work(r.code, {2, 3})
        BY Zenon, <2>1, <3>1, <3>2
      <3>4. SoundRun(<<p, q, r>>)
        BY Zenon, <3>3, ThreeRun DEF Fine
      <3> QED BY Zenon, <3>4 DEF p, q, r
    <2> QED BY <2>2, <2>3 DEF Fine
  <1> QED BY Zenon, <1>2, <1>3, <1>4, <1>5, <1>6, <1>7

\* and the ones of fifty.
LEMMA ManyFine == Fine(MP_test4) /\ Fine(MP_test5) /\ Fine(MP_test7) /\ Fine(MP_test8)
  <1>0. /\ Kids \in SUBSET Nat /\ {MaxForks + 1} \in SUBSET Nat /\ MaxForks \in Nat
    BY ProgramsAssumption DEF Kids
  <1> DEFINE Picks == [1 .. MaxForks -> 0 .. 3]
  <1>1. ASSUME NEW p, Work(p.code, Kids), NEW s, DOMAIN s = 1 .. MaxForks,
               s = [n \in DOMAIN s |-> s[n]], \A n \in 1 .. MaxForks : Work(s[n].code, Kids)
        PROVE  SoundRun(<<p>> \o s)
    <2> DEFINE S == {s[n] : n \in 1 .. MaxForks}
    <2>1. s \in [1 .. MaxForks -> S]
      BY Zenon, <1>1
    <2> HIDE DEF S
    <2> QED BY Zenon, <1>1, <2>1, FamilyRun
  <1>2. Fine(MP_test4)
    <2> DEFINE main == Forks(KidList) \o <<wait(Kids), passed>>
    <2>1. Work(main, Kids)
      <3>1. Work(<<wait(Kids), passed>>, Kids)
        BY Zenon, <1>0, Endings
      <3> QED BY Zenon, <3>1, MainWork, WorkConcat
    <2> HIDE DEF main
    <2>2. ASSUME NEW i \in Picks
          PROVE  SoundRun(<<Process(1, main)>> \o
                          [n \in 1 .. MaxForks |-> Process(n + 1, ForkedWork(i[n]))])
      <3> DEFINE s == [n \in 1 .. MaxForks |-> Process(n + 1, ForkedWork(i[n]))]
                 p == Process(1, main)
      <3>1. \A n \in 1 .. MaxForks : Work(s[n].code, Kids)
        <4>1. \A n \in 1 .. MaxForks : s[n].code = ForkedWork(i[n])
          BY Zenon, ProcessIs
        <4>2. \A n \in 1 .. MaxForks : Work(ForkedWork(i[n]), Kids)
          BY Zenon, ChildWork
        <4> HIDE DEF s
        <4> QED BY Zenon, <4>1, <4>2
      <3>2. DOMAIN s = 1 .. MaxForks /\ s = [n \in DOMAIN s |-> s[n]]
        BY Zenon
      <3>3. Work(p.code, Kids)
        BY Zenon, <2>1, ProcessIs
      <3> HIDE DEF s, p
      <3>4. SoundRun(<<p>> \o s)
        BY Zenon, <1>1, <3>1, <3>2, <3>3
      <3> QED BY Zenon, <3>4 DEF s, p
    <2> QED BY Zenon, <2>2 DEF Fine, MP_test4, main
  <1>3. Fine(MP_test5)
    <2> DEFINE alone == do_encryption(200, SET, SET, 1055)
               main == (ForkAndKill \o alone) \o <<passed>>
    <2>1. Work(main, Kids)
      <3>1. Work(alone, Kids)
        BY EncryptionWork, QuietLines
      <3>2. Work(<<passed>>, Kids)
        BY Zenon, <1>0, Endings
      <3> HIDE DEF alone
      <3>3. Work(ForkAndKill \o alone, Kids)
        BY Zenon, <3>1, ForkAndKillWork, WorkConcat
      <3> QED BY Zenon, <3>2, <3>3, WorkConcat
    <2>2. MP_test5 = {<<Process(1, main)>> \o
                        [n \in 1 .. MaxForks |-> Process(n + 1, do_large_encryption(i[n]))] :
                      i \in Picks}
      BY DEF MP_test5
    <2> HIDE DEF main
    <2>3. ASSUME NEW i \in Picks
          PROVE  SoundRun(<<Process(1, main)>> \o
                          [n \in 1 .. MaxForks |-> Process(n + 1, do_large_encryption(i[n]))])
      <3> DEFINE s == [n \in 1 .. MaxForks |-> Process(n + 1, do_large_encryption(i[n]))]
                 p == Process(1, main)
      <3>1. \A n \in 1 .. MaxForks : Work(s[n].code, Kids)
        <4>1. \A n \in 1 .. MaxForks : s[n].code = do_large_encryption(i[n])
          BY Zenon, ProcessIs
        <4>2. \A n \in 1 .. MaxForks : Work(do_large_encryption(i[n]), Kids)
          BY Zenon, ChildWork
        <4> HIDE DEF s
        <4> QED BY Zenon, <4>1, <4>2
      <3>2. DOMAIN s = 1 .. MaxForks /\ s = [n \in DOMAIN s |-> s[n]]
        BY Zenon
      <3>3. Work(p.code, Kids)
        BY Zenon, <2>1, ProcessIs
      <3> HIDE DEF s, p
      <3>4. SoundRun(<<p>> \o s)
        BY Zenon, <1>1, <3>1, <3>2, <3>3
      <3> QED BY Zenon, <3>4 DEF s, p
    <2> QED BY Zenon, <2>2, <2>3 DEF Fine
  <1>4. Fine(MP_test7)
    <2> DEFINE main == Forks(KidList) \o <<wait({MaxForks + 1}), join_unset, passed, exit>>
    <2>1. Work(main, Kids)
      <3>1. Work(<<wait({MaxForks + 1}), join_unset, passed, exit>>, Kids)
        BY Zenon, <1>0, Endings
      <3> QED BY Zenon, <3>1, MainWork, WorkConcat
    <2> HIDE DEF main
    <2>2. ASSUME NEW i \in Picks
          PROVE  SoundRun(<<WorkerThread(main)>> \o
                          [n \in 1 .. MaxForks |->
                              WorkerThread(do_encryption(ChunkCount(i[n]), SET, SET,
                                                         ChunkSize(i[n])))])
      <3> DEFINE s == [n \in 1 .. MaxForks |->
                          WorkerThread(do_encryption(ChunkCount(i[n]), SET, SET, ChunkSize(i[n])))]
                 p == WorkerThread(main)
      <3>1. \A n \in 1 .. MaxForks : Work(s[n].code, Kids)
        BY Zenon, ChildWork, ProcessIs
      <3>2. DOMAIN s = 1 .. MaxForks /\ s = [n \in DOMAIN s |-> s[n]]
        BY Zenon
      <3>3. Work(p.code, Kids)
        BY Zenon, <2>1, ProcessIs
      <3> HIDE DEF s, p
      <3>4. SoundRun(<<p>> \o s)
        BY Zenon, <1>1, <3>1, <3>2, <3>3
      <3> QED BY Zenon, <3>4 DEF s, p
    <2> QED BY Zenon, <2>2 DEF Fine, MP_test7, main
  <1>5. Fine(MP_test8)
    <2> DEFINE main == Forks(KidList) \o <<wait(Kids), passed, exit>>
    <2>1. Work(main, Kids)
      <3>1. Work(<<wait(Kids), passed, exit>>, Kids)
        BY Zenon, <1>0, Endings
      <3> QED BY Zenon, <3>1, MainWork, WorkConcat
    <2> HIDE DEF main
    <2>2. ASSUME NEW i \in Picks
          PROVE  SoundRun(<<WorkerThread(main)>> \o
                          [n \in 1 .. MaxForks |-> WorkerThread(worker(i[n]))])
      <3> DEFINE s == [n \in 1 .. MaxForks |-> WorkerThread(worker(i[n]))]
                 p == WorkerThread(main)
      <3>1. \A n \in 1 .. MaxForks : Work(s[n].code, Kids)
        BY Zenon, ChildWork, ProcessIs
      <3>2. DOMAIN s = 1 .. MaxForks /\ s = [n \in DOMAIN s |-> s[n]]
        BY Zenon
      <3>3. Work(p.code, Kids)
        BY Zenon, <2>1, ProcessIs
      <3> HIDE DEF s, p
      <3>4. SoundRun(<<p>> \o s)
        BY Zenon, <1>1, <3>1, <3>2, <3>3
      <3> QED BY Zenon, <3>4 DEF s, p
    <2> QED BY Zenon, <2>2 DEF Fine, MP_test8, main
  <1> QED BY Zenon, <1>2, <1>3, <1>4, <1>5

\* Every program of the suite has its outline.
LEMMA SuiteIsSound ==
    \A d \in DOMAIN Suite : \A n \in DOMAIN Suite[d] : Fine(Suite[d][n])
  <1>1. DOMAIN Suite = {"DMA_IRQ", "DMA", "MMIO_IRQ", "MMIO", "MMAP_IRQ", "MMAP", "MP", "benchmark"}
    BY DEF Suite
  <1>2. \A n \in DOMAIN Suite.MP : Fine(Suite.MP[n])
    BY FewFine, ManyFine DEF Suite
  <1> QED BY <1>1, <1>2, SinglesFine, MapsFine
=============================================================================
