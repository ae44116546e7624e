------------------------------ MODULE Crypter ------------------------------
(***************************************************************************)
(* The user-space library src/crypter.c: encrypt and decrypt, which cut a  *)
(* message into chunks and issue one ioctl per chunk, beside set_key,      *)
(* close_handle and create_handle on the same file descriptor.             *)
(*                                                                         *)
(* One step is one ioctl.  What an ioctl does is the contract of the       *)
(* driver, read off cryptocard_ioctl for calls that no signal interrupts:  *)
(* an unmapped chunk is replaced by its cipher, a mapped one is computed   *)
(* in the card's memory and leaves cc_spinlock held, a failing             *)
(* copy_to_user returns EFAULT and leaves it held too.                     *)
(*                                                                         *)
(* A byte is the number of places it has been shifted, so that plain text  *)
(* is all zeroes.                                                          *)
(***************************************************************************)
EXTENDS Integers

CONSTANTS
    Thread,      \* threads of one program, sharing a descriptor
    Letters,     \* size of the alphabet
    EncChunk,    \* the 32000 of encrypt
    DecChunk,    \* the 32768 of decrypt
    MaxLength,   \* bytes of a thread's buffer
    Requests,    \* per thread, the <<op, length, isMapped>> it may ask for
    KeySums,     \* the values of a + b that set_key may install
    MaxCalls,    \* bound: how often a thread calls encrypt or decrypt
    MayClose,    \* may a thread close and reopen the descriptor?
    CopyFaults   \* may copy_to_user meet a bad address?

ERROR == -1
EFAULT == 14

Position == 0 .. MaxLength - 1
Cell == 0 .. Letters - 1
Ops == {"encrypt", "decrypt"}

ASSUME CrypterAssumption ==
    /\ Letters \in Nat \ {0}
    /\ EncChunk \in Nat \ {0}
    /\ DecChunk \in Nat \ {0}
    /\ MaxLength \in Nat
    /\ Requests \in [Thread -> SUBSET (Ops \X (1 .. MaxLength) \X {0, 1})]
    /\ KeySums \subseteq Nat
    /\ MaxCalls \in Nat
    /\ MayClose \in BOOLEAN
    /\ CopyFaults \in BOOLEAN

VARIABLES
    pc,        \* "user", in the loop, or at the ioctl after the loop
    op,        \* the function called
    length,    \* ... and its arguments
    isMapped,
    i,         \* the loop counter
    new,       \* the offset of the next chunk
    ret,       \* what the last finished call returned
    buf,       \* the caller's buffer
    mem,       \* the card's data memory
    key,       \* a + b of the open file
    calls,     \* the calls made so far
    opened,    \* the descriptor refers to an open file
    stuck,     \* cc_spinlock was never released
    orig,      \* history: the buffer when the call began
    used,      \* history: the keys the chunks of the call met
    faulted    \* history: a chunk of the call met EFAULT

vars == <<pc, op, length, isMapped, i, new, ret, calls, buf, mem, key, opened,
          stuck, orig, used, faulted>>

frame == <<op, length, isMapped>>
history == <<orig, used, faulted>>

TypeOK ==
    /\ pc \in [Thread -> {"user", "single", "loop", "residual"}]
    /\ op \in [Thread -> Ops]
    /\ length \in [Thread -> 0 .. MaxLength]
    /\ isMapped \in [Thread -> {0, 1}]
    /\ i \in [Thread -> Nat]
    /\ new \in [Thread -> Nat]
    /\ ret \in [Thread -> {0, ERROR, EFAULT}]
    /\ calls \in [Thread -> 0 .. MaxCalls]
    /\ buf \in [Thread -> [Position -> Cell]]
    /\ mem \in [Position -> Cell]
    /\ key \in Nat
    /\ opened \in BOOLEAN
    /\ stuck \in BOOLEAN
    /\ orig \in [Thread -> [Position -> Cell]]
    /\ used \in [Thread -> SUBSET Nat]
    /\ faulted \in [Thread -> BOOLEAN]

Init ==
    /\ pc = [t \in Thread |-> "user"]
    /\ op = [t \in Thread |-> "encrypt"]
    /\ length = [t \in Thread |-> 0]
    /\ isMapped = [t \in Thread |-> 0]
    /\ i = [t \in Thread |-> 0]
    /\ new = [t \in Thread |-> 0]
    /\ ret = [t \in Thread |-> 0]
    /\ calls = [t \in Thread |-> 0]
    /\ buf = [t \in Thread |-> [p \in Position |-> 0]]
    /\ mem = [p \in Position |-> 0]
    /\ key \in KeySums
    /\ opened = TRUE
    /\ stuck = FALSE
    /\ orig = [t \in Thread |-> [p \in Position |-> 0]]
    /\ used = [t \in Thread |-> {}]
    /\ faulted = [t \in Thread |-> FALSE]

-----------------------------------------------------------------------------
ChunkOf(f) == IF f = "encrypt" THEN EncChunk ELSE DecChunk
Chunk(t) == ChunkOf(op[t])
Count(t) == length[t] \div Chunk(t)
Residual(t) == length[t] % Chunk(t)

\* The command of each ioctl: the loop of decrypt asks for ENCRYPT as well.
Command(t) ==
    IF op[t] = "decrypt" /\ pc[t] = "single" THEN "DECRYPT" ELSE "ENCRYPT"

\* One byte after the card has seen it, under a + b = k.
Turn(cmd, k, x) ==
    IF cmd = "ENCRYPT" THEN (x + k) % Letters ELSE (x - k) % Letters

\* The bytes from..to-1 of a buffer are turned, the others stay.
TurnRange(cmd, k, from, to, s) ==
    [p \in Position |->
        IF from <= p /\ p < to THEN Turn(cmd, k, s[p]) ELSE s[p]]

\* The length of the chunk that t's next ioctl names.
Piece(t) ==
    CASE pc[t] = "single" -> length[t]
      [] pc[t] = "loop" -> Chunk(t)
      [] OTHER -> Residual(t)

(* set_key: one SET_KEY ioctl.  It takes no lock.                          *)
SetKey(t) ==
    /\ pc[t] = "user"
    /\ opened
    /\ key' \in KeySums
    /\ UNCHANGED <<pc, frame, i, new, ret, calls, buf, mem, opened, stuck,
                   history>>

(* close_handle, and create_handle, which gets the same descriptor back    *)
(* with a configuration whose key bytes are whatever the heap held.        *)
CloseHandle(t) ==
    /\ MayClose
    /\ pc[t] = "user"
    /\ opened
    /\ opened' = FALSE
    /\ UNCHANGED <<pc, frame, i, new, ret, calls, buf, mem, key, stuck,
                   history>>

CreateHandle(t) ==
    /\ pc[t] = "user"
    /\ ~opened
    /\ opened' = TRUE
    /\ key' \in KeySums
    /\ UNCHANGED <<pc, frame, i, new, ret, calls, buf, mem, stuck, history>>

(* encrypt or decrypt is called: one ioctl if the message fits in a chunk, *)
(* otherwise the loop.                                                     *)
Call(t) ==
    /\ pc[t] = "user"
    /\ calls[t] < MaxCalls
    /\ calls' = [calls EXCEPT ![t] = calls[t] + 1]
    /\ \E r \in Requests[t] :
        /\ op' = [op EXCEPT ![t] = r[1]]
        /\ length' = [length EXCEPT ![t] = r[2]]
        /\ isMapped' = [isMapped EXCEPT ![t] = r[3]]
        /\ pc' = [pc EXCEPT ![t] =
                IF r[2] <= ChunkOf(r[1]) THEN "single" ELSE "loop"]
    /\ i' = [i EXCEPT ![t] = 0]
    /\ new' = [new EXCEPT ![t] = 0]
    /\ orig' = [orig EXCEPT ![t] = buf[t]]
    /\ used' = [used EXCEPT ![t] = {}]
    /\ faulted' = [faulted EXCEPT ![t] = FALSE]
    /\ UNCHANGED <<ret, buf, mem, key, opened, stuck>>

Leave(t, err) ==
    /\ pc' = [pc EXCEPT ![t] = "user"]
    /\ ret' = [ret EXCEPT ![t] = err]

\* Mutation of Advance: new stays where it is.
AdvanceInPlace(t, err) ==
    /\ i' = [i EXCEPT ![t] = i[t] + 1]
    /\ UNCHANGED new
    /\ \/ /\ i[t] + 1 < Count(t)
          /\ UNCHANGED <<pc, ret>>
       \/ /\ i[t] + 1 >= Count(t)
          /\ Leave(t, err)

\* Mutation of Advance: the bytes behind the last whole chunk are forgotten.
AdvanceNoResidual(t, err) ==
    /\ i' = [i EXCEPT ![t] = i[t] + 1]
    /\ new' = [new EXCEPT ![t] = new[t] + Chunk(t)]
    /\ \/ /\ i[t] + 1 < Count(t)
          /\ UNCHANGED <<pc, ret>>
       \/ /\ i[t] + 1 >= Count(t)
          /\ Leave(t, err)

\* After an ioctl of the loop: new moves on, and the loop goes round again,
\* or the remaining bytes are next, or the message is complete.
Advance(t, err) ==
    /\ i' = [i EXCEPT ![t] = i[t] + 1]
    /\ new' = [new EXCEPT ![t] = new[t] + Chunk(t)]
    /\ \/ /\ i[t] + 1 < Count(t)
          /\ UNCHANGED <<pc, ret>>
       \/ /\ i[t] + 1 >= Count(t)
          /\ Residual(t) # 0
          /\ pc' = [pc EXCEPT ![t] = "residual"]
          /\ UNCHANGED ret
       \/ /\ i[t] + 1 >= Count(t)
          /\ Residual(t) = 0
          /\ Leave(t, err)

\* A result other than -1 is not looked at before the function returns it.
GoOn(t, err) ==
    IF pc[t] = "loop" THEN Advance(t, err)
                      ELSE Leave(t, err) /\ UNCHANGED <<i, new>>

(* The ioctl of an unmapped chunk succeeds.                                *)
IoctlDone(t) ==
    /\ pc[t] # "user"
    /\ isMapped[t] = 0
    /\ opened
    /\ ~stuck
    /\ buf' = [buf EXCEPT ![t] =
            TurnRange(Command(t), key, new[t], new[t] + Piece(t), buf[t])]
    /\ used' = [used EXCEPT ![t] = used[t] \cup {key}]
    /\ GoOn(t, 0)
    /\ UNCHANGED <<frame, calls, mem, key, opened, stuck, orig, faulted>>

(* The ioctl of a mapped chunk: whatever address the library passes, the   *)
(* card works from the start of its data memory.  The lock stays held.     *)
IoctlMapped(t) ==
    /\ pc[t] # "user"
    /\ isMapped[t] = 1
    /\ opened
    /\ ~stuck
    /\ mem' = TurnRange(Command(t), key, 0, Piece(t), mem)
    /\ stuck' = TRUE
    /\ used' = [used EXCEPT ![t] = used[t] \cup {key}]
    /\ GoOn(t, 0)
    /\ UNCHANGED <<frame, calls, buf, key, opened, orig, faulted>>

(* copy_to_user fails: ioctl returns EFAULT, a positive number.            *)
IoctlFault(t) ==
    /\ CopyFaults
    /\ pc[t] # "user"
    /\ isMapped[t] = 0
    /\ opened
    /\ ~stuck
    /\ stuck' = TRUE
    /\ faulted' = [faulted EXCEPT ![t] = TRUE]
    /\ GoOn(t, EFAULT)
    /\ UNCHANGED <<frame, calls, buf, mem, key, opened, orig, used>>

(* The descriptor is closed: ioctl returns -1 and the function ERROR.      *)
IoctlError(t) ==
    /\ pc[t] # "user"
    /\ ~opened
    /\ Leave(t, ERROR)
    /\ UNCHANGED <<frame, i, new, calls, buf, mem, key, opened, stuck,
                   history>>

Next ==
    \E t \in Thread :
        \/ SetKey(t)
        \/ CloseHandle(t)
        \/ CreateHandle(t)
        \/ Call(t)
        \/ IoctlDone(t)
        \/ IoctlMapped(t)
        \/ IoctlFault(t)
        \/ IoctlError(t)

Spec == Init /\ [][Next]_vars

-----------------------------------------------------------------------------
\* The byte x of t's message under key k, as the card was asked to turn it.
Turned(t, k, x) ==
    Turn(IF op[t] = "decrypt" /\ length[t] <= DecChunk
         THEN "DECRYPT" ELSE "ENCRYPT", k, x)

\* A call of t on its own buffer, none of whose chunks met EFAULT.
Plainly(t) == isMapped[t] = 0 /\ ~faulted[t]

\* The first n bytes of t's buffer were each turned once, by a key that the
\* file had during the call; the others were not touched.
TurnedUpTo(t, n) ==
    \A p \in Position :
        IF p < n THEN \E k \in used[t] : buf[t][p] = Turned(t, k, orig[t][p])
                 ELSE buf[t][p] = orig[t][p]

InStep(t) ==
    Plainly(t) /\ (pc[t] # "user" \/ ret[t] = ERROR) => TurnedUpTo(t, new[t])

Complete(t) ==
    Plainly(t) /\ pc[t] = "user" /\ ret[t] = 0 => TurnedUpTo(t, length[t])

(* Between two ioctls, and after a call that failed because the descriptor *)
(* was closed under it, the bytes before new have been through the card    *)
(* exactly once and those from new on not at all: no chunk is skipped,     *)
(* repeated or overlapped, whatever the lengths of message and chunk.      *)
ChunksInStep == \A t \in Thread : InStep(t)

(* A call that returns 0 has put every byte of the message, and no byte    *)
(* behind it, through the card exactly once.                               *)
SuccessIsComplete == \A t \in Thread : Complete(t)

\* The position in the function fits the length of the message.
InPlace(t) ==
    /\ pc[t] = "single" => new[t] = 0 /\ length[t] <= Chunk(t)
    /\ pc[t] = "loop" => /\ length[t] > Chunk(t)
                         /\ i[t] < Count(t)
                         /\ new[t] = i[t] * Chunk(t)
    /\ pc[t] = "residual" => /\ length[t] > Chunk(t)
                             /\ new[t] = Count(t) * Chunk(t)

ThreadInv(t) == InPlace(t) /\ InStep(t) /\ Complete(t)

(* The inductive invariant behind the two.                                 *)
ChunkInv == TypeOK /\ \A t \in Thread : ThreadInv(t)

(* encrypt and decrypt do what they are called: after a decrypt that       *)
(* returned 0 under one key each byte is the original one shifted back.    *)
DoesAsNamed ==
    \A t \in Thread :
        Plainly(t) /\ pc[t] = "user" /\ ret[t] = 0 =>
            \A p \in 0 .. length[t] - 1 : \E k \in used[t] :
                buf[t][p] = Turn(IF op[t] = "encrypt" THEN "ENCRYPT"
                                 ELSE "DECRYPT", k, orig[t][p])
=============================================================================
