----------------------------- MODULE MCCrypter -----------------------------
(***************************************************************************)
(* The two halves of the library for TLC: chunks and mappings.  They share *)
(* no state, so one of them moves while the other rests.                   *)
(***************************************************************************)
EXTENDS Crypter, CardMapping, TLC

CONSTANTS t1, t2

VARIABLE half     \* the half that moves

LibInit ==
    /\ Init /\ MapInit
    /\ \/ half = "chunks" /\ usual = 0
       \/ half = "mappings" /\ key = 1

LibNext ==
    /\ \/ half = "chunks" /\ Next /\ UNCHANGED mapvars
       \/ half = "mappings" /\ MapNext /\ UNCHANGED vars
    /\ UNCHANGED half

LibSpec == LibInit /\ [][LibNext]_<<vars, mapvars, half>>

\* t1 encrypts messages of every length up to two chunks and a bit, and
\* decrypts the ones that fit in one ioctl; t2 works with a mapped message.
EncryptAnyDecryptShort ==
    (t1 :> {"encrypt"} \X (1 .. MaxLength) \X {0}
            \cup {"decrypt"} \X (1 .. DecChunk) \X {0})
    @@ (t2 :> {<<"encrypt", 1, 0>>, <<"encrypt", MaxLength, 1>>})

DecryptAny == t1 :> {"decrypt"} \X (1 .. MaxLength) \X {0}
=============================================================================
