--------------------------- MODULE CipherService ----------------------------
(***************************************************************************)
(* What the crypto card driver promises to programs whose threads each use *)
(* an open file of their own: SET_KEY sets the key pair of the file, and   *)
(* ENCRYPT and DECRYPT replace the caller's text by its cipher under that  *)
(* pair, as if in one step, whatever the other threads do.                 *)
(***************************************************************************)
EXTENDS Cipher

CONSTANTS
    Handle,     \* open files
    HandleOf,   \* the file each thread uses
    KeyCalls    \* per thread, the <<a, b>> it may pass to SET_KEY

VARIABLES
    text,     \* the buffer of each thread
    keys,     \* the key pair <<a, b>> of each open file
    pending   \* the operation each thread waits for, or "none"

serviceVars == <<text, keys, pending>>

ServiceInit ==
    /\ text = [t \in Thread |-> Plain(t)]
    /\ keys \in [Handle -> Byte \X Byte]
    /\ pending = [t \in Thread |-> "none"]

SetKey(t) ==
    /\ pending[t] = "none"
    /\ \E k \in KeyCalls[t] : keys' = [keys EXCEPT ![HandleOf[t]] = k]
    /\ UNCHANGED <<text, pending>>

Invoke(t) ==
    /\ pending[t] = "none"
    /\ \E cmd \in {"ENCRYPT", "DECRYPT"} :
        pending' = [pending EXCEPT ![t] = cmd]
    /\ UNCHANGED <<text, keys>>

Serve(t) ==
    LET k == keys[HandleOf[t]] IN
    /\ pending[t] # "none"
    /\ text' = [text EXCEPT ![t] = Wanted(pending[t], k[1], k[2], text[t])]
    /\ pending' = [pending EXCEPT ![t] = "none"]
    /\ UNCHANGED keys

ServiceNext == \E t \in Thread : SetKey(t) \/ Invoke(t) \/ Serve(t)

ServiceSpec == ServiceInit /\ [][ServiceNext]_serviceVars

FairService == ServiceSpec /\ \A t \in Thread : WF_serviceVars(Serve(t))
=============================================================================
