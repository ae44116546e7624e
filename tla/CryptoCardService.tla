------------------------- MODULE CryptoCardService --------------------------
(***************************************************************************)
(* The driver implements CipherService where threads do not share files    *)
(* and nothing interrupts, faults or maps.  A call takes effect when       *)
(* copy_to_user stores the result; SET_KEY takes effect at its first       *)
(* store, since no operation on the file can run before the second.        *)
(***************************************************************************)
EXTENDS CryptoCard

SettingKey(h) == {t \in Thread : HandleOf[t] = h /\ pc[t] = "set_key_b"}

Setter(h) == CHOOSE t \in SettingKey(h) : TRUE

SecondByte(h) ==
    IF SettingKey(h) = {} THEN config[h].b ELSE call[Setter(h)].b

KeyPair(h) == <<config[h].a, SecondByte(h)>>

serviceKeys == [h \in Handle |-> KeyPair(h)]

servicePending ==
    [t \in Thread |->
        IF pc[t] \in {"user", "set_key_b"} THEN "none" ELSE call[t].cmd]

Service == INSTANCE CipherService
    WITH text <- ubuf, keys <- serviceKeys, pending <- servicePending

(* Concurrent ENCRYPT, DECRYPT, SET_KEY and SET_CONFIG calls in any mix of *)
(* modes look as if each took effect at one instant, with the key of the   *)
(* caller's own file, and every operation is eventually served.            *)
ImplementsService == Service!FairService

(* The same without the promise that operations are served.                *)
ImplementsServiceSafely == Service!ServiceSpec
=============================================================================
