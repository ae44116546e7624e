---------------------------- MODULE MCCryptoCard ----------------------------
(* Small instances of CryptoCard for TLC. *)
EXTENDS CryptoCardService, TLC

CONSTANTS t1, t2, t3, h1, h2, h3

HandleEach == t1 :> h1 @@ t2 :> h2 @@ t3 :> h3
Private == [t \in Thread |-> HandleEach[t]]

Shared == [t \in Thread |-> h1]

\* The key bytes must differ from what the heap holds, their sum from its
\* inverse modulo Letters.
OneSetsKey == [t \in Thread |-> IF t = t1 THEN {<<2, 2>>} ELSE {}]
NoKeys == [t \in Thread |-> {}]

SetInt == {<<0, 0>>, <<0, 1>>}
SetDma == {<<1, 0>>, <<1, 1>>}
\* t1 switches interrupts on and off, the others switch both ways to DMA.
MmioBesideDma == [t \in Thread |-> IF t = t1 THEN SetInt ELSE SetInt \cup SetDma]
\* Interrupts, and for the others DMA, are switched on and stay on.
ModesOnlyOn == [t \in Thread |-> IF t = t1 THEN {<<0, 1>>} ELSE {<<0, 1>>, <<1, 1>>}]

PlainOps == [t \in Thread |-> {"ENCRYPT", "DECRYPT"} \X {0}]
EncryptBesideDecrypt == [t \in Thread |->
    IF t = t1 THEN {<<"ENCRYPT", 0>>} ELSE {<<"DECRYPT", 0>>}]
\* t1 uses the card through a mapping as well.
MappedBesidePlain == [t \in Thread |->
    IF t = t1 THEN {<<"ENCRYPT", 0>>, <<"ENCRYPT", 1>>} ELSE {<<"DECRYPT", 0>>}]
\* t1 only through a mapping.
MappedOnlyBesidePlain == [t \in Thread |->
    IF t = t1 THEN {<<"ENCRYPT", 1>>} ELSE {<<"DECRYPT", 0>>}]
=============================================================================
