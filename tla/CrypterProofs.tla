--------------------------- MODULE CrypterProofs ---------------------------
(***************************************************************************)
(* The library.  Chunking is exact: proofs of ChunksInStep and             *)
(* SuccessIsComplete for every chunk size, message length and alphabet.    *)
(*                                                                         *)
(* map_card and unmap_card, for any number of threads, any sizes, page and *)
(* header.  What is to be proved, that an unmap_card takes away pages of   *)
(* its own mapping only, is not inductive: that another mapping keeps its  *)
(* pages rests on no two mappings in use starting at the same page         *)
(* (Distinct), and that one size never exceeds a mapping on map_size being *)
(* that size wherever it came from (OneSize).  What is leaked is counted   *)
(* from these: in a program of one size each unmap_card leaves behind the  *)
(* same pages, those that the header adds to the mapping (LeakInv).        *)
(***************************************************************************)
EXTENDS Crypter, CardMapping, FiniteSetTheorems, TLAPS

(* Cutting n bytes into pieces of c bytes loses none.                      *)
LEMMA Division ==
    ASSUME NEW n \in Nat, NEW c \in Nat \ {0}
    PROVE  /\ n \div c \in Nat
           /\ n % c \in Nat
           /\ n = (n \div c) * c + (n % c)
           /\ n > c => n \div c > 0
<1>1. n \div c \in Nat /\ n % c \in Nat /\ n % c < c
  BY SMT
<1>2. n = (n \div c) * c + (n % c)
  BY SMT
<1>3. n > c => n \div c > 0
  BY <1>1, <1>2, SMT
<1> QED
  BY Zenon, <1>1, <1>2, <1>3

(* One more piece.                                                         *)
LEMMA NextPiece ==
    ASSUME NEW n \in Nat, NEW c \in Nat
    PROVE  (n + 1) * c = n * c + c
BY SMT

(* The card maps letters to letters.                                       *)
LEMMA TurnType ==
    ASSUME NEW cmd, NEW k \in Nat, NEW x \in Cell
    PROVE  Turn(cmd, k, x) \in Cell
BY CrypterAssumption, SMT DEF Turn, Cell

(* Turning a part of a buffer leaves a buffer.                             *)
LEMMA TurnRangeType ==
    ASSUME NEW cmd, NEW k \in Nat, NEW from, NEW to,
           NEW s \in [Position -> Cell]
    PROVE  TurnRange(cmd, k, from, to, s) \in [Position -> Cell]
BY Zenon, TurnType DEF TurnRange

(* The chunk sizes are positive, and a long message has a whole chunk.     *)
LEMMA ChunkSize ==
    ASSUME NEW f, NEW n \in Nat
    PROVE  /\ ChunkOf(f) \in Nat \ {0}
           /\ n \div ChunkOf(f) \in Nat
           /\ n > ChunkOf(f) => n \div ChunkOf(f) > 0
<1>1. ChunkOf(f) \in Nat \ {0}
  BY Zenon, CrypterAssumption DEF ChunkOf
<1> QED
  BY Zenon, <1>1, Division

(* The chunk size of either function is positive, and the numbers of whole *)
(* chunks and of remaining bytes add up to the length.                     *)
LEMMA Cut ==
    ASSUME TypeOK, NEW t \in Thread
    PROVE  /\ Chunk(t) \in Nat \ {0}
           /\ Count(t) \in Nat
           /\ Residual(t) \in Nat
           /\ length[t] \in Nat
           /\ length[t] = Count(t) * Chunk(t) + Residual(t)
           /\ length[t] > Chunk(t) => Count(t) > 0
<1>1. Chunk(t) \in Nat \ {0}
  BY Zenon, CrypterAssumption DEF Chunk, ChunkOf
<1>2. length[t] \in Nat
  BY CrypterAssumption DEF TypeOK
<1> QED
  BY <1>1, <1>2, Division, Zenon DEF Count, Residual

(* Initially no byte has been touched.                                     *)
LEMMA InitChunk == Init => ChunkInv
<1> SUFFICES ASSUME Init PROVE ChunkInv
  BY Zenon
<1>1. TypeOK
  <2>1. /\ 0 \in Cell /\ 0 \in Nat /\ 0 \in 0 .. MaxLength /\ 0 \in 0 .. MaxCalls
        /\ key \in Nat
    BY CrypterAssumption DEF Init, Cell
  <2> QED
    BY <2>1, Zenon DEF Init, TypeOK, Ops
<1>2. ASSUME NEW t \in Thread PROVE ThreadInv(t)
  <2>1. pc[t] = "user" /\ ret[t] = 0 /\ length[t] = 0 /\ buf[t] = orig[t]
    BY Zenon DEF Init
  <2>2. TurnedUpTo(t, length[t])
    BY <2>1, CrypterAssumption DEF TurnedUpTo, Position
  <2> QED
    BY <2>1, <2>2 DEF ThreadInv, InPlace, InStep, Complete, ERROR
<1> QED
  BY Zenon, <1>1, <1>2 DEF ChunkInv

(* A step of t that leaves t's place and its history alone, or belongs to  *)
(* another thread, keeps what the invariant says of a thread.              *)
LEMMA Framed ==
    ASSUME ChunkInv, NEW t \in Thread,
           pc'[t] = pc[t], op'[t] = op[t], length'[t] = length[t],
           isMapped'[t] = isMapped[t], i'[t] = i[t], new'[t] = new[t],
           ret'[t] = ret[t], buf'[t] = buf[t], orig'[t] = orig[t],
           used'[t] = used[t], faulted'[t] = faulted[t]
    PROVE  ThreadInv(t)'
BY DEF ChunkInv, ThreadInv, InPlace, InStep, Complete, Chunk, Count, Plainly,
       TurnedUpTo, Turned

(* set_key, close_handle and create_handle disturb no call under way.      *)
LEMMA HandleStep ==
    ASSUME ChunkInv, NEW u \in Thread,
           SetKey(u) \/ CloseHandle(u) \/ CreateHandle(u)
    PROVE  ChunkInv'
<1>1. TypeOK'
  <2>1. key' \in Nat /\ opened' \in BOOLEAN
    BY CrypterAssumption, Zenon
    DEF ChunkInv, TypeOK, SetKey, CloseHandle, CreateHandle
  <2> QED
    BY Zenon, <2>1 DEF ChunkInv, TypeOK, SetKey, CloseHandle, CreateHandle, frame,
                history
<1>2. ASSUME NEW t \in Thread PROVE ThreadInv(t)'
  BY Zenon, <1>2, Framed DEF SetKey, CloseHandle, CreateHandle, frame, history
<1> QED
  BY Zenon, <1>1, <1>2 DEF ChunkInv

(* A new call starts in the right place, with an untouched message.        *)
LEMMA CallStep ==
    ASSUME ChunkInv, NEW u \in Thread, Call(u)
    PROVE  ChunkInv'
<1>1. PICK r \in Requests[u] :
        /\ op' = [op EXCEPT ![u] = r[1]]
        /\ length' = [length EXCEPT ![u] = r[2]]
        /\ isMapped' = [isMapped EXCEPT ![u] = r[3]]
        /\ pc' = [pc EXCEPT ![u] =
                IF r[2] <= ChunkOf(r[1]) THEN "single" ELSE "loop"]
  BY Zenon DEF Call
<1>2. r[1] \in Ops /\ r[2] \in 0 .. MaxLength /\ r[3] \in {0, 1}
  BY CrypterAssumption
<1>3. TypeOK'
  <2>1. calls' \in [Thread -> 0 .. MaxCalls]
    BY CrypterAssumption DEF ChunkInv, TypeOK, Call
  <2>2. faulted' \in [Thread -> BOOLEAN]
    BY Zenon DEF ChunkInv, TypeOK, Call
  <2>3. /\ pc' \in [Thread -> {"user", "single", "loop", "residual"}]
        /\ op' \in [Thread -> Ops]
        /\ length' \in [Thread -> 0 .. MaxLength]
        /\ isMapped' \in [Thread -> {0, 1}]
    BY Zenon, <1>1, <1>2 DEF ChunkInv, TypeOK
  <2>4. /\ i' \in [Thread -> Nat] /\ new' \in [Thread -> Nat]
        /\ orig' \in [Thread -> [Position -> Cell]]
        /\ used' \in [Thread -> SUBSET Nat]
    BY Zenon DEF ChunkInv, TypeOK, Call
  <2> QED
    BY Zenon, <2>1, <2>2, <2>3, <2>4 DEF ChunkInv, TypeOK, Call
<1>4. ASSUME NEW t \in Thread, t # u PROVE ThreadInv(t)'
  BY <1>1, <1>4, Framed, Zenon DEF Call, ChunkInv, TypeOK
<1>5. ThreadInv(u)'
  <2>1. /\ op'[u] = r[1] /\ length'[u] = r[2] /\ i'[u] = 0 /\ new'[u] = 0
        /\ buf'[u] = orig'[u]
        /\ pc'[u] = IF r[2] <= ChunkOf(r[1]) THEN "single" ELSE "loop"
    BY <1>1 DEF Call, ChunkInv, TypeOK
  <2>2. InPlace(u)'
    <3>1. /\ Chunk(u)' = ChunkOf(r[1])
          /\ Count(u)' = r[2] \div ChunkOf(r[1])
      BY Zenon, <2>1 DEF Chunk, Count
    <3>2. r[2] \in Nat
      BY <1>2, CrypterAssumption
    <3>3. r[2] > ChunkOf(r[1]) => Count(u)' > 0
      BY Zenon, <3>1, <3>2, ChunkSize
    <3>4. 0 * Chunk(u)' = 0
      BY <3>1, <3>2, ChunkSize
    <3>5. r[2] > ChunkOf(r[1]) \/ r[2] <= ChunkOf(r[1])
      BY <3>2, ChunkSize
    <3> QED
      BY Zenon, <2>1, <3>1, <3>3, <3>4, <3>5 DEF InPlace
  <2>3. TurnedUpTo(u, new[u])'
    BY <2>1, CrypterAssumption DEF TurnedUpTo, Position
  <2>4. pc'[u] # "user"
    BY Zenon, <2>1
  <2> QED
    BY Zenon, <2>2, <2>3, <2>4 DEF ThreadInv, InStep, Complete
<1> QED
  BY Zenon, <1>3, <1>4, <1>5 DEF ChunkInv

(* An ioctl that returns -1 ends the call where it stands.                 *)
LEMMA ErrorStep ==
    ASSUME ChunkInv, NEW u \in Thread, IoctlError(u)
    PROVE  ChunkInv'
<1>1. TypeOK'
  BY Zenon DEF ChunkInv, TypeOK, IoctlError, Leave, frame, history
<1>2. ASSUME NEW t \in Thread, t # u PROVE ThreadInv(t)'
  BY Zenon, <1>2, Framed DEF IoctlError, Leave, frame, history, ChunkInv, TypeOK
<1>3. ThreadInv(u)'
  <2>1. pc'[u] = "user" /\ ret'[u] = ERROR /\ pc[u] # "user"
    BY Zenon DEF IoctlError, Leave, ChunkInv, TypeOK
  <2>2. InStep(u)'
    BY Zenon DEF ChunkInv, ThreadInv, InStep, IoctlError, Plainly, TurnedUpTo,
       Turned, frame, history
  <2> QED
    BY <2>1, <2>2 DEF ThreadInv, InPlace, Complete, ERROR
<1> QED
  BY Zenon, <1>1, <1>2, <1>3 DEF ChunkInv

(* Where a call stands after an ioctl whose result is not -1.              *)
LEMMA GoOnPlace ==
    ASSUME ChunkInv, NEW u \in Thread, pc[u] # "user", NEW err \in {0, EFAULT},
           GoOn(u, err), UNCHANGED frame
    PROVE  /\ pc' \in [Thread -> {"user", "single", "loop", "residual"}]
           /\ ret' \in [Thread -> {0, ERROR, EFAULT}]
           /\ i' \in [Thread -> Nat] /\ new' \in [Thread -> Nat]
           /\ \A t \in Thread \ {u} : /\ pc'[t] = pc[t] /\ ret'[t] = ret[t]
                                      /\ i'[t] = i[t] /\ new'[t] = new[t]
           /\ InPlace(u)'
           /\ pc'[u] # "user" => new'[u] = new[u] + Piece(u)
           /\ pc'[u] = "user" => /\ ret'[u] = err
                                 /\ new[u] + Piece(u) = length[u]
<1> DEFINE c == Chunk(u)
<1>1. /\ c \in Nat \ {0} /\ Count(u) \in Nat /\ Residual(u) \in Nat
      /\ length[u] \in Nat
      /\ length[u] = Count(u) * c + Residual(u)
      /\ Chunk(u)' = c /\ Count(u)' = Count(u) /\ length'[u] = length[u]
  BY Zenon, Cut DEF ChunkInv, Chunk, Count, frame
<1>2. /\ pc[u] \in {"single", "loop", "residual"}
      /\ i[u] \in Nat /\ new[u] \in Nat
      /\ InPlace(u)
  BY Zenon DEF ChunkInv, TypeOK, ThreadInv
<1>3. CASE pc[u] = "loop"
  <2>1. Advance(u, err)
    BY Zenon, <1>3 DEF GoOn
  <2>2. new[u] = i[u] * c /\ i[u] < Count(u) /\ length[u] > c
    BY Zenon, <1>2, <1>3 DEF InPlace
  <2>3. new'[u] = new[u] + c /\ i'[u] = i[u] + 1 /\ Piece(u) = c
    BY Zenon, <2>1, <1>3 DEF Advance, Piece, ChunkInv, TypeOK
  <2>4. new'[u] = i'[u] * c
    BY <1>1, <1>2, <2>2, <2>3, NextPiece
  <2>5. /\ pc' \in [Thread -> {"user", "single", "loop", "residual"}]
        /\ ret' \in [Thread -> {0, ERROR, EFAULT}]
        /\ i' \in [Thread -> Nat] /\ new' \in [Thread -> Nat]
        /\ \A t \in Thread \ {u} : /\ pc'[t] = pc[t] /\ ret'[t] = ret[t]
                                   /\ i'[t] = i[t] /\ new'[t] = new[t]
    <3>1. c \in Nat
      BY Zenon, <1>1
    <3>2. i' \in [Thread -> Nat] /\ new' \in [Thread -> Nat]
      BY <2>1, <3>1 DEF Advance, ChunkInv, TypeOK
    <3>3. /\ pc' \in [Thread -> {"user", "single", "loop", "residual"}]
          /\ ret' \in [Thread -> {0, ERROR, EFAULT}]
      <4> err \in {0, ERROR, EFAULT}
        BY Zenon
      <4> QED
        BY <2>1, Zenon DEF Advance, Leave, ChunkInv, TypeOK
    <3>4. \A t \in Thread \ {u} : /\ pc'[t] = pc[t] /\ ret'[t] = ret[t]
                                  /\ i'[t] = i[t] /\ new'[t] = new[t]
      BY Zenon, <2>1 DEF Advance, Leave, ChunkInv, TypeOK
    <3> QED
      BY Zenon, <3>2, <3>3, <3>4
  <2>6. CASE i[u] + 1 < Count(u)
    <3>1. pc' = pc
      BY <1>1, <1>2, <2>1, <2>6 DEF Advance
    <3> HIDE DEF c
    <3> QED
      BY Zenon, <1>1, <1>3, <2>2, <2>3, <2>4, <2>5, <2>6, <3>1 DEF InPlace
  <2>7. CASE ~(i[u] + 1 < Count(u))
    <3>1. i'[u] = Count(u)
      BY <1>1, <1>2, <2>2, <2>3, <2>7
    <3>2. new'[u] = Count(u) * c
      BY Zenon, <2>4, <3>1
    <3>3. CASE Residual(u) # 0
      <4>1. pc'[u] = "residual"
        BY Zenon, <2>1, <2>7, <3>3 DEF Advance, ChunkInv, TypeOK
      <4> HIDE DEF c
      <4> QED
        BY Zenon, <1>1, <2>2, <2>3, <2>5, <3>2, <4>1 DEF InPlace
    <3>4. CASE Residual(u) = 0
      <4>1. pc'[u] = "user" /\ ret'[u] = err
        BY Zenon, <2>1, <2>7, <3>4 DEF Advance, Leave, ChunkInv, TypeOK
      <4>2. new'[u] = length[u]
        <5> HIDE DEF c
        <5> QED
          BY <1>1, <3>2, <3>4
      <4> QED
        BY Zenon, <2>3, <2>5, <4>1, <4>2 DEF InPlace
    <3> QED
      BY Zenon, <3>3, <3>4
  <2> QED
    BY Zenon, <2>6, <2>7
<1>4. CASE pc[u] # "loop"
  <2>1. Leave(u, err) /\ UNCHANGED <<i, new>>
    BY Zenon, <1>4 DEF GoOn
  <2>2. pc'[u] = "user" /\ ret'[u] = err
    BY Zenon, <2>1 DEF Leave, ChunkInv, TypeOK
  <2>3. new[u] + Piece(u) = length[u]
    <3> HIDE DEF c
    <3>1. CASE pc[u] = "single"
      BY <1>1, <1>2, <3>1 DEF InPlace, Piece
    <3>2. CASE pc[u] = "residual"
      <4>1. Piece(u) = Residual(u)
        BY Zenon, <3>2 DEF Piece
      <4>2. new[u] = Count(u) * c
        BY Zenon, <1>2, <3>2 DEF InPlace, c
      <4> QED
        BY Zenon, <1>1, <4>1, <4>2
    <3> QED
      BY Zenon, <1>2, <1>4, <3>1, <3>2
  <2> QED
    BY Zenon, <2>1, <2>2, <2>3 DEF Leave, InPlace, ChunkInv, TypeOK
<1> QED
  BY Zenon, <1>3, <1>4

(* The ioctl of an unmapped chunk turns exactly the bytes of the chunk.    *)
LEMMA ChunkTurned ==
    ASSUME ChunkInv, NEW u \in Thread, IoctlDone(u), Plainly(u)
    PROVE  \A p \in Position :
               IF p < new[u] + Piece(u)
               THEN \E k \in used'[u] : buf'[u][p] = Turned(u, k, orig[u][p])
               ELSE buf'[u][p] = orig[u][p]
<1>1. /\ TurnedUpTo(u, new[u])
      /\ InPlace(u)
      /\ pc[u] \in {"single", "loop", "residual"}
      /\ op[u] \in Ops
      /\ new[u] \in Nat
  BY Zenon DEF ChunkInv, TypeOK, ThreadInv, InStep, IoctlDone
<1>2. /\ Chunk(u) \in Nat /\ Residual(u) \in Nat /\ length[u] \in Nat
  BY Zenon, Cut DEF ChunkInv
<1>3. Piece(u) \in Nat
  BY Zenon, <1>1, <1>2 DEF Piece
<1>4. ASSUME NEW x PROVE Turn(Command(u), key, x) = Turned(u, key, x)
  <2>1. op[u] = "decrypt" => (pc[u] = "single" <=> length[u] <= DecChunk)
    BY <1>1, <1>2 DEF InPlace, Chunk, ChunkOf
  <2> QED
    BY Zenon, <2>1 DEF Command, Turned
<1>5. /\ used'[u] = used[u] \cup {key}
      /\ \A p \in Position :
            buf'[u][p] = IF new[u] <= p /\ p < new[u] + Piece(u)
                         THEN Turn(Command(u), key, buf[u][p]) ELSE buf[u][p]
  BY Zenon DEF IoctlDone, TurnRange, ChunkInv, TypeOK
<1> SUFFICES ASSUME NEW p \in Position
             PROVE  IF p < new[u] + Piece(u)
                    THEN \E k \in used'[u] :
                            buf'[u][p] = Turned(u, k, orig[u][p])
                    ELSE buf'[u][p] = orig[u][p]
  BY Zenon
<1>6. p \in Int
  BY CrypterAssumption DEF Position
<1>7. CASE p < new[u]
  <2>1. PICK k \in used[u] : buf[u][p] = Turned(u, k, orig[u][p])
    BY Zenon, <1>1, <1>7 DEF TurnedUpTo
  <2>2. buf'[u][p] = buf[u][p] /\ p < new[u] + Piece(u)
    BY <1>1, <1>3, <1>5, <1>6, <1>7
  <2> QED
    BY Zenon, <1>5, <2>1, <2>2
<1>8. CASE new[u] <= p /\ p < new[u] + Piece(u)
  <2>1. buf[u][p] = orig[u][p]
    BY <1>1, <1>6, <1>8 DEF TurnedUpTo
  <2>2. buf'[u][p] = Turned(u, key, orig[u][p])
    BY Zenon, <1>4, <1>5, <1>8, <2>1
  <2> QED
    BY Zenon, <1>5, <1>8, <2>2
<1>9. CASE ~(p < new[u]) /\ ~(p < new[u] + Piece(u))
  BY Zenon, <1>1, <1>5, <1>9 DEF TurnedUpTo
<1> QED
  BY <1>1, <1>3, <1>6, <1>7, <1>8, <1>9

(* A successful ioctl preserves the invariant.                             *)
LEMMA DoneStep ==
    ASSUME ChunkInv, NEW u \in Thread, IoctlDone(u)
    PROVE  ChunkInv'
<1>1. GoOn(u, 0) /\ pc[u] # "user" /\ UNCHANGED frame
  BY Zenon DEF IoctlDone
<1>2. TypeOK'
  <2>1. buf' \in [Thread -> [Position -> Cell]]
    BY TurnRangeType, Zenon DEF ChunkInv, TypeOK, IoctlDone
  <2>2. used' \in [Thread -> SUBSET Nat]
    BY Zenon DEF ChunkInv, TypeOK, IoctlDone
  <2> QED
    BY Zenon, <1>1, <2>1, <2>2, GoOnPlace DEF ChunkInv, TypeOK, IoctlDone, frame
<1>3. ASSUME NEW t \in Thread, t # u PROVE ThreadInv(t)'
  <2>1. pc'[t] = pc[t] /\ ret'[t] = ret[t] /\ i'[t] = i[t] /\ new'[t] = new[t]
    BY Zenon, <1>1, <1>3, GoOnPlace
  <2>2. /\ op'[t] = op[t] /\ length'[t] = length[t]
        /\ isMapped'[t] = isMapped[t] /\ buf'[t] = buf[t]
        /\ orig'[t] = orig[t] /\ used'[t] = used[t]
        /\ faulted'[t] = faulted[t]
    BY Zenon, <1>3 DEF IoctlDone, frame, ChunkInv, TypeOK
  <2> QED
    BY <2>1, <2>2, Framed, Zenon
<1>4. ThreadInv(u)'
  <2>1. /\ InPlace(u)'
        /\ pc'[u] # "user" => new'[u] = new[u] + Piece(u)
        /\ pc'[u] = "user" => ret'[u] = 0 /\ new[u] + Piece(u) = length[u]
    BY Zenon, <1>1, GoOnPlace
  <2>2. /\ Plainly(u)' <=> Plainly(u)
        /\ length' = length /\ op' = op /\ orig' = orig
    BY Zenon DEF IoctlDone, Plainly, frame
  <2>3. ASSUME Plainly(u), NEW n, n = new[u] + Piece(u)
        PROVE  \A p \in Position :
                 IF p < n
                 THEN \E k \in used'[u] : buf'[u][p] = Turned(u, k, orig[u][p])
                 ELSE buf'[u][p] = orig[u][p]
    BY Zenon, <2>3, ChunkTurned
  <2>4. InStep(u)'
    <3> SUFFICES ASSUME Plainly(u), pc'[u] # "user" PROVE TurnedUpTo(u, new[u])'
      BY <2>1, <2>2 DEF InStep, ERROR
    <3> QED
      BY Zenon, <2>1, <2>2, <2>3 DEF TurnedUpTo, Turned
  <2>5. Complete(u)'
    <3> SUFFICES ASSUME Plainly(u), pc'[u] = "user"
                 PROVE  TurnedUpTo(u, length[u])'
      BY Zenon, <2>2 DEF Complete
    <3> QED
      BY Zenon, <2>1, <2>2, <2>3 DEF TurnedUpTo, Turned
  <2> QED
    BY Zenon, <2>1, <2>4, <2>5 DEF ThreadInv
<1> QED
  BY Zenon, <1>2, <1>3, <1>4 DEF ChunkInv

(* Mapped and faulting calls touch no buffer, and claim nothing of it.     *)
LEMMA OtherIoctlStep ==
    ASSUME ChunkInv, NEW u \in Thread, IoctlMapped(u) \/ IoctlFault(u)
    PROVE  ChunkInv'
<1>1. PICK err \in {0, EFAULT} : GoOn(u, err)
  BY Zenon DEF IoctlMapped, IoctlFault
<1>2. pc[u] # "user" /\ UNCHANGED frame
  BY Zenon DEF IoctlMapped, IoctlFault
<1>3. TypeOK'
  <2> key \in Nat /\ mem \in [Position -> Cell]
    BY Zenon DEF ChunkInv, TypeOK
  <2>1. mem' \in [Position -> Cell]
    <3>1. CASE IoctlMapped(u)
      BY Zenon, <3>1, TurnRangeType DEF IoctlMapped
    <3>2. CASE IoctlFault(u)
      BY Zenon, <3>2 DEF IoctlFault
    <3> QED
      BY Zenon, <3>1, <3>2
  <2>2. used' \in [Thread -> SUBSET Nat]
    <3>1. CASE IoctlMapped(u)
      BY Zenon, <3>1 DEF IoctlMapped, ChunkInv, TypeOK
    <3>2. CASE IoctlFault(u)
      BY Zenon, <3>2 DEF IoctlFault, ChunkInv, TypeOK
    <3> QED
      BY Zenon, <3>1, <3>2
  <2>3. faulted' \in [Thread -> BOOLEAN] /\ stuck' \in BOOLEAN
    BY Zenon DEF ChunkInv, TypeOK, IoctlMapped, IoctlFault
  <2> QED
    BY Zenon, <1>1, <1>2, <2>1, <2>2, <2>3, GoOnPlace
    DEF ChunkInv, TypeOK, IoctlMapped, IoctlFault, frame
<1>4. ASSUME NEW t \in Thread, t # u PROVE ThreadInv(t)'
  <2>1. pc'[t] = pc[t] /\ ret'[t] = ret[t] /\ i'[t] = i[t] /\ new'[t] = new[t]
    BY Zenon, <1>1, <1>2, <1>4, GoOnPlace
  <2>2. /\ op'[t] = op[t] /\ length'[t] = length[t]
        /\ isMapped'[t] = isMapped[t] /\ buf'[t] = buf[t]
        /\ orig'[t] = orig[t] /\ used'[t] = used[t]
        /\ faulted'[t] = faulted[t]
    BY Zenon, <1>4 DEF IoctlMapped, IoctlFault, frame, ChunkInv, TypeOK
  <2> QED
    BY Zenon, <2>1, <2>2, Framed
<1>5. ThreadInv(u)'
  <2>1. InPlace(u)'
    BY Zenon, <1>1, <1>2, GoOnPlace
  <2>2. ~Plainly(u)'
    BY DEF IoctlMapped, IoctlFault, Plainly, frame, ChunkInv, TypeOK
  <2> QED
    BY Zenon, <2>1, <2>2 DEF ThreadInv, InStep, Complete
<1> QED
  BY Zenon, <1>3, <1>4, <1>5 DEF ChunkInv

(* Everything the library has sent to the card stays accounted for, for    *)
(* every chunk size, message length and interleaving of the threads.       *)
THEOREM ChunkInvariance == Spec => []ChunkInv
<1>1. ASSUME ChunkInv, [Next]_vars PROVE ChunkInv'
  <2>1. CASE UNCHANGED vars
    <3>1. TypeOK'
      BY Zenon, <1>1, <2>1 DEF ChunkInv, TypeOK, vars
    <3>2. ASSUME NEW t \in Thread PROVE ThreadInv(t)'
      BY <1>1, <2>1, Framed, Zenon DEF vars
    <3> QED
      BY Zenon, <3>1, <3>2 DEF ChunkInv
  <2>2. CASE Next
    BY Zenon, <1>1, <2>2, HandleStep, CallStep, DoneStep, OtherIoctlStep, ErrorStep
    DEF Next
  <2> QED
    BY Zenon, <1>1, <2>1, <2>2
<1> QED
  BY <1>1, InitChunk, PTL DEF Spec

(* No chunk is skipped, repeated or overlapped by encrypt and decrypt.     *)
THEOREM ChunksStayInStep == Spec => []ChunksInStep
<1>1. ChunkInv => ChunksInStep
  BY Zenon DEF ChunkInv, ThreadInv, ChunksInStep
<1> QED
  BY <1>1, ChunkInvariance, PTL

(* encrypt and decrypt return 0 only after the whole message went through  *)
(* the card once.                                                          *)
THEOREM SuccessCoversMessage == Spec => []SuccessIsComplete
<1>1. ChunkInv => SuccessIsComplete
  BY Zenon DEF ChunkInv, ThreadInv, SuccessIsComplete
<1> QED
  BY <1>1, ChunkInvariance, PTL

-----------------------------------------------------------------------------
(* map_card and unmap_card.                                                *)

\* Fewer bytes take no more pages.
LEMMA PagesOfMonotone ==
    ASSUME NEW m \in Nat, NEW n \in Nat, m <= n
    PROVE  PagesOf(m) \in Int /\ PagesOf(n) \in Int /\ PagesOf(m) <= PagesOf(n)
  <1> DEFINE x == m + Page - 1
             y == n + Page - 1
             p == x \div Page
             q == y \div Page
  <1>1. Page \in Nat /\ Page > 0 /\ x \in Nat /\ y \in Nat /\ x <= y
    BY MappingAssumption
  <1>2. p \in Int /\ q \in Int /\ Page * p <= x /\ y < Page * q + Page
    BY <1>1
  <1>3. p <= q
    <2> SUFFICES ASSUME p >= q + 1 PROVE FALSE
      BY <1>2
    <2>1. Page * p >= Page * (q + 1)
      BY <1>1, <1>2
    <2>2. Page * (q + 1) = Page * q + Page
      BY <1>1, <1>2
    <2> QED BY <1>1, <1>2, <2>1, <2>2
  <1> QED BY Zenon, <1>2, <1>3 DEF PagesOf

\* Some bytes take at least one page.
LEMMA PagesOfPositive ==
    ASSUME NEW n \in Nat, n >= 1
    PROVE  PagesOf(n) >= 1 /\ PagesOf(n) \in Int
  <1>1. PagesOf(1) = 1
    BY MappingAssumption DEF PagesOf
  <1> QED BY Zenon, <1>1, PagesOfMonotone

-----------------------------------------------------------------------------
\* A program that uses one size: every mapping in use and map_size have it.
OneSize ==
    usual # 0 =>
        /\ ~exceeded
        /\ map_size \in {0, usual}
        /\ \A t \in Mapper : mpc[t] = "mapped" => size[t] = usual
        /\ \A t \in Mapper : \A m \in held[t] : m.size = usual

\* No two mappings in use start at the same page.
Distinct ==
    ~exceeded =>
        \A t, u \in Mapper : \A m \in held[t], n \in held[u] :
            m.at = n.at => t = u /\ m = n

MapInv ==
    /\ MapTypeOK
    /\ OneSize
    /\ Distinct
    /\ HeldIsMapped
    /\ ~exceeded => ~strayed

\* Sizes and the header are numbers of bytes, and pages are numbered from 0.
LEMMA Numbers ==
    /\ \A s \in Sizes \cup {0} : s \in Nat
    /\ \A p \in Place : p \in Int /\ p # NONE
    /\ Header \in Nat
  BY MappingAssumption DEF Place, NONE

\* What munmap takes away is within the mapping, if the length is.
LEMMA GoneWithin ==
    ASSUME MapTypeOK, NEW t \in Mapper, NEW m \in held[t], map_size <= m.size
    PROVE  Gone(m.at) \subseteq PagesAt(m.at, m.size + Header)
  <1>0. m.at \in Place /\ m.size \in Sizes /\ map_size \in Sizes \cup {0}
    <2>1. m \in [at : Place, size : Sizes]
      BY Zenon DEF MapTypeOK
    <2> QED BY Zenon, <2>1 DEF MapTypeOK
  <1>1. m.at \in Int /\ m.size \in Nat /\ map_size \in Nat /\ Header \in Nat
    BY Zenon, <1>0, Numbers
  <1>2. PagesOf(map_size) \in Int /\ PagesOf(m.size + Header) \in Int
        /\ PagesOf(map_size) <= PagesOf(m.size + Header)
    BY <1>1, PagesOfMonotone
  <1> QED BY <1>1, <1>2 DEF Gone, PagesAt

\* Every mapping has a first page.
LEMMA FirstPage ==
    ASSUME NEW s \in Nat, NEW at \in Int
    PROVE  at \in PagesAt(at, s + Header)
  <1>1. s + Header \in Nat /\ s + Header >= 1
    BY MappingAssumption
  <1> QED BY <1>1, PagesOfPositive DEF PagesAt

\* At the start nothing is mapped.
LEMMA MapInitHolds == MapInit => MapInv
  <1> SUFFICES ASSUME MapInit PROVE MapInv
    BY Zenon
  <1>1. MapTypeOK
    <2>1. maps \in [Mapper -> 0 .. MaxMaps] /\ unmaps \in Nat
      BY MappingAssumption DEF MapInit
    <2>2. held \in [Mapper -> SUBSET [at : Place, size : Sizes]]
      BY Zenon DEF MapInit
    <2>3. space \in [Place -> Place \cup {NONE}]
      BY Zenon DEF MapInit
    <2>4. /\ mpc \in [Mapper -> {"user", "mapped"}]
          /\ size \in [Mapper -> Sizes \cup {0}]
          /\ map_size \in Sizes \cup {0} /\ usual \in Sizes \cup {0}
      BY Zenon DEF MapInit
    <2>5. exceeded \in BOOLEAN /\ strayed \in BOOLEAN
      BY Zenon DEF MapInit
    <2> QED BY Zenon, <2>1, <2>2, <2>3, <2>4, <2>5 DEF MapTypeOK
  <1>2. OneSize /\ Distinct /\ HeldIsMapped /\ (~exceeded => ~strayed)
    BY Zenon DEF MapInit, OneSize, Distinct, HeldIsMapped
  <1> QED BY Zenon, <1>1, <1>2 DEF MapInv

\* map_card that fails, and the store to map_size: no page moves.
LEMMA QuietSteps ==
    ASSUME MapInv, NEW t \in Mapper, MapCardFails(t) \/ SetMapSize(t)
    PROVE  MapInv'
  <1>1. MapTypeOK'
    <2>1. maps' \in [Mapper -> 0 .. MaxMaps]
      BY MappingAssumption DEF MapInv, MapTypeOK, MapCardFails, SetMapSize
    <2>2. mpc' \in [Mapper -> {"user", "mapped"}] /\ map_size' \in Sizes \cup {0}
      BY Zenon DEF MapInv, MapTypeOK, MapCardFails, SetMapSize
    <2>3. UNCHANGED <<size, held, space, usual, unmaps, exceeded, strayed>>
      BY Zenon DEF MapCardFails, SetMapSize, past
    <2> QED BY Zenon, <2>1, <2>2, <2>3 DEF MapInv, MapTypeOK
  <1>2. OneSize'
    BY Zenon DEF MapInv, MapTypeOK, OneSize, MapCardFails, SetMapSize, past
  <1>3. UNCHANGED <<held, space, exceeded, strayed>>
    BY Zenon DEF MapCardFails, SetMapSize, past
  <1>4. Distinct' /\ HeldIsMapped' /\ (~exceeded' => ~strayed')
    BY <1>3 DEF MapInv, Distinct, HeldIsMapped
  <1> QED BY Zenon, <1>1, <1>2, <1>4 DEF MapInv

\* map_card: the new mapping lies in free pages.
LEMMA MapStep ==
    ASSUME MapInv, NEW t \in Mapper, MapCard(t)
    PROVE  MapInv'
  <1>0. PICK s \in Sizes : \E at \in Room(s + Header) :
            /\ usual \in {0, s}
            /\ space' = [p \in Place |->
                    IF p \in PagesAt(at, s + Header) THEN at ELSE space[p]]
            /\ held' = [held EXCEPT ![t] = @ \cup {[at |-> at, size |-> s]}]
            /\ size' = [size EXCEPT ![t] = s]
    BY Zenon DEF MapCard
  <1>1. PICK at \in Room(s + Header) :
            /\ usual \in {0, s}
            /\ space' = [p \in Place |->
                    IF p \in PagesAt(at, s + Header) THEN at ELSE space[p]]
            /\ held' = [held EXCEPT ![t] = @ \cup {[at |-> at, size |-> s]}]
            /\ size' = [size EXCEPT ![t] = s]
    BY Zenon, <1>0
  <1>2. /\ mpc' = [mpc EXCEPT ![t] = "mapped"]
        /\ maps[t] < MaxMaps
        /\ maps' = [maps EXCEPT ![t] = @ + 1]
        /\ UNCHANGED <<map_size, usual, unmaps, exceeded, strayed>>
    BY Zenon DEF MapCard, past
  <1>3. s \in Nat /\ at \in Int /\ at \in Place
    BY <1>1, MappingAssumption DEF Room, Place
  <1> DEFINE added == [at |-> at, size |-> s]
             own == PagesAt(at, s + Header)
  <1>4. own \subseteq Place /\ \A p \in own : space[p] = NONE
    BY Zenon, <1>1 DEF Room
  <1>5. added \in [at : Place, size : Sizes]
    BY Zenon, <1>1, <1>3
  <1>6. MapTypeOK'
    <2>1. held' \in [Mapper -> SUBSET [at : Place, size : Sizes]]
      BY Zenon, <1>1, <1>5 DEF MapInv, MapTypeOK
    <2>2. space' \in [Place -> Place \cup {NONE}]
      BY Zenon, <1>1, <1>3 DEF MapInv, MapTypeOK
    <2>3. maps' \in [Mapper -> 0 .. MaxMaps]
      BY <1>2, MappingAssumption DEF MapInv, MapTypeOK
    <2>4. size' \in [Mapper -> Sizes \cup {0}] /\ mpc' \in [Mapper -> {"user", "mapped"}]
      BY Zenon, <1>1, <1>2 DEF MapInv, MapTypeOK
    <2> QED BY Zenon, <1>2, <2>1, <2>2, <2>3, <2>4 DEF MapInv, MapTypeOK
  <1>7. \A u \in Mapper : \A m \in held'[u] : m \in held[u] \/ (u = t /\ m = added)
    BY Zenon, <1>1 DEF MapInv, MapTypeOK
  <1>8. OneSize'
    BY <1>1, <1>2, <1>7 DEF MapInv, MapTypeOK, OneSize
  <1>9. ASSUME ~exceeded, NEW u \in Mapper, NEW m \in held[u]
        PROVE  /\ m.at # at
               /\ \A p \in PagesAt(m.at, m.size + Header) :
                    p \in Place /\ space[p] = m.at /\ p \notin own
    <2>1. m.at \in Place /\ m.at \in Int /\ m.at # NONE /\ m.size \in Nat
      <3>0. m \in [at : Place, size : Sizes]
        BY Zenon DEF MapInv, MapTypeOK
      <3>1. m.at \in Place /\ m.size \in Sizes
        BY Zenon, <3>0
      <3> QED BY Zenon, <3>1, Numbers
    <2>2. \A p \in PagesAt(m.at, m.size + Header) : p \in Place /\ space[p] = m.at
      BY Zenon, <1>9 DEF MapInv, HeldIsMapped
    <2>3. space[m.at] = m.at
      BY Zenon, <2>1, <2>2, FirstPage
    <2>4. space[at] = NONE
      BY Zenon, <1>3, <1>4, FirstPage
    <2> QED BY Zenon, <1>4, <2>1, <2>2, <2>3, <2>4
  <1>10. Distinct'
    BY <1>2, <1>7, <1>9 DEF MapInv, Distinct
  <1>11. HeldIsMapped'
    <2> SUFFICES ASSUME ~exceeded, NEW u \in Mapper, NEW m \in held'[u],
                        NEW p \in PagesAt(m.at, m.size + Header)
                 PROVE  p \in Place /\ space'[p] = m.at
      BY Zenon, <1>2 DEF HeldIsMapped, PagesAt, PagesOf
    <2>1. CASE m \in held[u]
      BY Zenon, <1>1, <1>9, <2>1
    <2>2. CASE m = added
      BY Zenon, <1>1, <1>4, <2>2
    <2> QED BY Zenon, <1>7, <2>1, <2>2
  <1> QED BY Zenon, <1>2, <1>6, <1>8, <1>10, <1>11 DEF MapInv

\* unmap_card: only pages of its own mapping go.
LEMMA UnmapStep ==
    ASSUME MapInv, NEW t \in Mapper, UnmapCard(t)
    PROVE  MapInv'
  <1>1. PICK m \in held[t] :
            /\ exceeded' = (exceeded \/ map_size > m.size)
            /\ held' = [held EXCEPT ![t] = @ \ {m}]
            /\ space' = [p \in Place |-> IF p \in Gone(m.at) THEN NONE ELSE space[p]]
            /\ strayed' = (strayed \/
                    \E p \in Place \cap Gone(m.at) : space[p] \notin {NONE, m.at})
    BY Zenon DEF UnmapCard
  <1>2. unmaps' = unmaps + 1 /\ UNCHANGED <<mpc, size, map_size, maps, usual>>
    BY Zenon DEF UnmapCard
  <1>3. m.size \in Nat /\ map_size \in Nat
    <2>0. m \in [at : Place, size : Sizes] /\ map_size \in Sizes \cup {0}
      BY Zenon DEF MapInv, MapTypeOK
    <2>1. m.size \in Sizes /\ map_size \in Sizes \cup {0}
      BY Zenon, <2>0
    <2> QED BY Zenon, <2>1, Numbers
  <1>4. \A u \in Mapper : \A n \in held'[u] : n \in held[u] /\ (u = t => n # m)
    BY Zenon, <1>1 DEF MapInv, MapTypeOK
  <1>5. MapTypeOK'
    <2>1. held' \in [Mapper -> SUBSET [at : Place, size : Sizes]]
      BY Zenon, <1>1 DEF MapInv, MapTypeOK
    <2>2. space' \in [Place -> Place \cup {NONE}]
      BY Zenon, <1>1 DEF MapInv, MapTypeOK
    <2>3. exceeded' \in BOOLEAN /\ strayed' \in BOOLEAN
      BY Zenon, <1>1
    <2> QED BY <1>2, <2>1, <2>2, <2>3 DEF MapInv, MapTypeOK
  <1>6. OneSize'
    <2> SUFFICES ASSUME usual # 0 PROVE OneSize'
      BY Zenon, <1>2 DEF OneSize
    <2>1. map_size \in {0, usual} /\ m.size = usual /\ ~exceeded
      BY Zenon DEF MapInv, OneSize
    <2>2. ~(map_size > m.size)
      BY <1>3, <2>1
    <2>3. ~exceeded'
      BY Zenon, <1>1, <2>1, <2>2
    <2> QED BY Zenon, <1>2, <1>4, <2>3 DEF MapInv, OneSize
  <1>7. CASE exceeded'
    BY Zenon, <1>5, <1>6, <1>7 DEF MapInv, Distinct, HeldIsMapped
  <1>8. CASE ~exceeded'
    <2>1. ~exceeded /\ ~strayed /\ map_size <= m.size
      <3>1. ~exceeded /\ ~(map_size > m.size)
        BY <1>1, <1>8, Zenon
      <3> QED BY <1>3, <3>1 DEF MapInv
    <2>2. \A p \in Gone(m.at) : p \in Place /\ space[p] = m.at
      BY Zenon, <2>1, GoneWithin DEF MapInv, HeldIsMapped
    <2>3. ~strayed'
      BY Zenon, <1>1, <2>1, <2>2
    <2>4. Distinct'
      BY <1>4, <2>1 DEF MapInv, Distinct
    <2>5. HeldIsMapped'
      <3> SUFFICES ASSUME NEW u \in Mapper, NEW n \in held'[u],
                          NEW p \in PagesAt(n.at, n.size + Header)
                   PROVE  p \in Place /\ space'[p] = n.at
        BY Zenon DEF HeldIsMapped, PagesAt, PagesOf
      <3>1. n \in held[u] /\ p \in Place /\ space[p] = n.at
        BY Zenon, <1>4, <2>1 DEF MapInv, HeldIsMapped
      <3>2. n.at # m.at
        BY <1>4, <2>1, <3>1 DEF MapInv, Distinct
      <3>3. p \notin Gone(m.at)
        BY Zenon, <2>2, <3>1, <3>2
      <3> QED BY Zenon, <1>1, <3>1, <3>3
    <2> QED BY Zenon, <1>5, <1>6, <2>3, <2>4, <2>5 DEF MapInv
  <1> QED BY Zenon, <1>7, <1>8

-----------------------------------------------------------------------------
\* The inductive invariant of map_card and unmap_card.
THEOREM MapInvariance == MapSpec => []MapInv
  <1>1. MapInv /\ UNCHANGED mapvars => MapInv'
    BY DEF MapInv, MapTypeOK, OneSize, Distinct, HeldIsMapped, mapvars, past, PagesAt,
       PagesOf
  <1>2. MapInv /\ [MapNext]_mapvars => MapInv'
    BY Zenon, <1>1, QuietSteps, MapStep, UnmapStep DEF MapNext
  <1> QED BY <1>2, MapInitHolds, PTL DEF MapSpec

\* unmap_card takes away pages of its own mapping only, as long as map_size does
\* not exceed it, and it never does in a program that uses one size.
THEOREM UnmapsStay == MapSpec => []UnmapStays
  <1>1. MapInv => UnmapStays
    BY Zenon DEF MapInv, OneSize, UnmapStays
  <1> QED BY <1>1, MapInvariance, PTL

\* ... and until then every thread's mappings are whole and its own.
THEOREM HeldMappingsAreWhole == MapSpec => []HeldIsMapped
  <1>1. MapInv => HeldIsMapped
    BY Zenon DEF MapInv
  <1> QED BY <1>1, MapInvariance, PTL

-----------------------------------------------------------------------------
\* What unmap_card leaves behind, in a program that uses one size.  A thread that
\* can unmap has stored that size, so map_size is no longer 0.
Extra == PagesOf(usual + Header) - PagesOf(usual)

LeakInv ==
    usual # 0 =>
        /\ \A t \in Mapper : mpc[t] = "user" /\ held[t] # {} => map_size = usual
        /\ Cardinality(Leaked) = unmaps * Extra

\* Pages of a mapping that some thread holds.
Covered(p) == \E t \in Mapper : \E m \in held[t] : p \in PagesAt(m.at, m.size + Header)

\* The leaked pages in terms of them, before and after a step.
LEMMA LeakedNow ==
    /\ Leaked = {p \in Place : space[p] # NONE /\ ~Covered(p)}
    /\ Leaked' = {p \in Place : space'[p] # NONE /\ ~Covered(p)'}
  BY Zenon DEF Leaked, Covered

\* ... and a page is covered after a step by what is held then.
LEMMA CoveredNext ==
    \A p : /\ Covered(p) <=>
                \E t \in Mapper : \E m \in held[t] : p \in PagesAt(m.at, m.size + Header)
           /\ Covered(p)' <=>
                \E t \in Mapper : \E m \in held'[t] : p \in PagesAt(m.at, m.size + Header)
  BY Zenon DEF Covered, PagesAt, PagesOf

\* The leaked pages are finitely many.
LEMMA LeakedFinite == IsFiniteSet(Leaked) /\ Cardinality(Leaked) \in Nat
  <1>1. IsFiniteSet(Place)
    BY FS_Interval, MappingAssumption DEF Place
  <1>2. Leaked \subseteq Place
    BY Zenon DEF Leaked
  <1> QED BY Zenon, <1>1, <1>2, FS_Subset, FS_CardinalityType

\* How many pages of a mapping the header takes beyond the size.
LEMMA ExtraPages ==
    ASSUME NEW at \in Int, NEW s \in Nat
    PROVE  LET rest == PagesAt(at, s + Header) \ PagesAt(at, s)
           IN  /\ IsFiniteSet(rest)
               /\ Cardinality(rest) = PagesOf(s + Header) - PagesOf(s)
  <1> DEFINE a == PagesOf(s)
             b == PagesOf(s + Header)
             rest == PagesAt(at, s + Header) \ PagesAt(at, s)
  <1>1. Header \in Nat /\ s + Header \in Nat /\ s <= s + Header
    BY Numbers
  <1>2. a \in Int /\ b \in Int /\ a <= b
    BY Zenon, <1>1, PagesOfMonotone
  <1>3. 0 <= a
    <2>1. PagesOf(0) = 0
      BY MappingAssumption DEF PagesOf
    <2> QED BY <1>2, <2>1, PagesOfMonotone
  <1>4. rest = at + a .. at + b - 1
    <2>1. PagesAt(at, s + Header) = at .. at + b - 1 /\ PagesAt(at, s) = at .. at + a - 1
      BY Zenon DEF PagesAt
    <2> HIDE DEF a, b
    <2> QED BY <1>2, <1>3, <2>1
  <1> HIDE DEF a, b, rest
  <1>5. /\ IsFiniteSet(at + a .. at + b - 1)
        /\ Cardinality(at + a .. at + b - 1) =
               IF at + a > at + b - 1 THEN 0 ELSE at + b - 1 - (at + a) + 1
    BY <1>2, FS_Interval
  <1>6. Cardinality(rest) = b - a
    BY <1>2, <1>4, <1>5
  <1> QED BY Zenon, <1>4, <1>5, <1>6 DEF rest, a, b

\* Nothing is mapped at the start.
LEMMA LeakInit == MapInit => LeakInv
  <1> SUFFICES ASSUME MapInit, usual # 0 PROVE LeakInv
    BY Zenon DEF LeakInv
  <1>1. Leaked = {}
    BY Zenon DEF MapInit, Leaked
  <1>2. Extra \in Int
    <2>1. usual \in Nat /\ usual + Header \in Nat
      BY Numbers DEF MapInit
    <2> QED BY <2>1, PagesOfMonotone DEF Extra
  <1>3. Cardinality(Leaked) = unmaps * Extra
    BY <1>1, <1>2, FS_EmptySet DEF MapInit
  <1> QED BY Zenon, <1>3 DEF MapInit, LeakInv

\* map_card, successful or not, and the store to map_size leak nothing.
LEMMA LeakMap ==
    ASSUME MapInv, LeakInv, NEW t \in Mapper,
           MapCardFails(t) \/ MapCard(t) \/ SetMapSize(t)
    PROVE  LeakInv'
  <1> SUFFICES ASSUME usual # 0 PROVE LeakInv'
    BY Zenon DEF LeakInv, MapCardFails, MapCard, SetMapSize
  <1>1. UNCHANGED <<usual, unmaps>> /\ Extra' = Extra
    BY Zenon DEF MapCardFails, MapCard, SetMapSize, past, Extra, PagesOf
  <1>2. \A u \in Mapper : mpc'[u] = "user" /\ held'[u] # {} => map_size' = usual
    <2>1. CASE MapCardFails(t)
      BY Zenon, <2>1 DEF MapCardFails, LeakInv
    <2>2. CASE MapCard(t)
      BY Zenon, <2>2 DEF MapCard, LeakInv, MapInv, MapTypeOK
    <2>3. CASE SetMapSize(t)
      BY Zenon, <2>3 DEF SetMapSize, MapInv, OneSize
    <2> QED BY Zenon, <2>1, <2>2, <2>3
  <1>3. Leaked' = Leaked
    <2>1. CASE MapCardFails(t) \/ SetMapSize(t)
      BY Zenon, <2>1 DEF MapCardFails, SetMapSize, Leaked, PagesAt, PagesOf
    <2>2. CASE MapCard(t)
      <3>1. PICK s \in Sizes : \E at \in Room(s + Header) :
                /\ space' = [p \in Place |->
                        IF p \in PagesAt(at, s + Header) THEN at ELSE space[p]]
                /\ held' = [held EXCEPT ![t] = @ \cup {[at |-> at, size |-> s]}]
        BY Zenon, <2>2 DEF MapCard
      <3>2. PICK at \in Room(s + Header) :
                /\ space' = [p \in Place |->
                        IF p \in PagesAt(at, s + Header) THEN at ELSE space[p]]
                /\ held' = [held EXCEPT ![t] = @ \cup {[at |-> at, size |-> s]}]
        BY Zenon, <3>1
      <3> DEFINE own == PagesAt(at, s + Header)
      <3>3. \A p \in own : p \in Place /\ space[p] = NONE
        BY Zenon DEF Room
      <3>4. \A p : Covered(p)' <=> Covered(p) \/ p \in own
        <4>1. \A u \in Mapper : \A m : m \in held'[u] <=>
                  m \in held[u] \/ (u = t /\ m = [at |-> at, size |-> s])
          BY Zenon, <3>2 DEF MapInv, MapTypeOK
        <4>2. [at |-> at, size |-> s].at = at /\ [at |-> at, size |-> s].size = s
          BY Zenon
        <4> QED BY Zenon, <4>1, <4>2, CoveredNext
      <3>5. \A p \in Place : space'[p] = IF p \in own THEN at ELSE space[p]
        BY Zenon, <3>2
      <3> HIDE DEF own
      <3> QED BY Zenon, <3>3, <3>4, <3>5, LeakedNow
    <2> QED BY Zenon, <2>1, <2>2
  <1> QED BY Zenon, <1>1, <1>2, <1>3 DEF LeakInv

\* unmap_card leaks the pages of its mapping that the header needed.
LEMMA LeakUnmap ==
    ASSUME MapInv, LeakInv, NEW t \in Mapper, UnmapCard(t)
    PROVE  LeakInv'
  <1> SUFFICES ASSUME usual # 0 PROVE LeakInv'
    BY Zenon DEF LeakInv, UnmapCard
  <1>1. PICK m \in held[t] :
            /\ held' = [held EXCEPT ![t] = @ \ {m}]
            /\ space' = [p \in Place |-> IF p \in Gone(m.at) THEN NONE ELSE space[p]]
    BY Zenon DEF UnmapCard
  <1>2. /\ mpc[t] = "user" /\ unmaps' = unmaps + 1
        /\ UNCHANGED <<mpc, map_size, usual>> /\ Extra' = Extra
    BY Zenon DEF UnmapCard, Extra, PagesOf
  <1>3. ~exceeded /\ map_size = usual /\ m.size = usual
    BY Zenon, <1>2 DEF LeakInv, MapInv, OneSize
  <1>4. m.at \in Int /\ m.at # NONE /\ usual \in Nat /\ unmaps \in Nat
    <2>1. m \in [at : Place, size : Sizes] /\ usual \in Sizes \cup {0} /\ unmaps \in Nat
      BY Zenon DEF MapInv, MapTypeOK
    <2>2. m.at \in Place
      BY Zenon, <2>1
    <2> QED BY Zenon, <2>1, <2>2, Numbers
  <1> DEFINE own == PagesAt(m.at, usual + Header)
             gone == PagesAt(m.at, usual)
             rest == own \ gone
  <1>5. \A p \in own : p \in Place /\ space[p] = m.at
    BY Zenon, <1>3 DEF MapInv, HeldIsMapped
  <1>6. gone \subseteq own /\ Gone(m.at) = gone
    BY <1>3, <1>4, GoneWithin DEF MapInv, Gone
  <1>7. \A u \in Mapper : \A n : n \in held'[u] <=> n \in held[u] /\ ~(u = t /\ n = m)
    BY Zenon, <1>1 DEF MapInv, MapTypeOK
  <1>8. \A p : Covered(p) <=> Covered(p)' \/ p \in own
    BY Zenon, <1>3, <1>7, CoveredNext
  <1>9. \A p \in own : ~Covered(p)'
    <2> SUFFICES ASSUME NEW p \in own, NEW u \in Mapper, NEW n \in held'[u],
                        p \in PagesAt(n.at, n.size + Header)
                 PROVE  FALSE
      BY Zenon, CoveredNext
    <2>1. n \in held[u] /\ ~(u = t /\ n = m)
      BY Zenon, <1>7
    <2>2. space[p] = n.at
      BY Zenon, <1>3, <2>1 DEF MapInv, HeldIsMapped
    <2> QED BY Zenon, <1>3, <1>5, <2>1, <2>2 DEF MapInv, Distinct
  <1>10. \A p \in Place : space'[p] = IF p \in gone THEN NONE ELSE space[p]
    BY Zenon, <1>1, <1>6
  <1>11. /\ IsFiniteSet(rest) /\ Cardinality(rest) = Extra
    BY Zenon, <1>4, ExtraPages DEF Extra
  <1> HIDE DEF own, gone
  <1>12. Leaked' = Leaked \cup rest /\ Leaked \cap rest = {}
    BY Zenon, <1>4, <1>5, <1>6, <1>8, <1>9, <1>10, LeakedNow
  <1> HIDE DEF rest
  <1>13. Cardinality(Leaked \cup rest) = Cardinality(Leaked) + Extra
    <2>1. IsFiniteSet(Leaked) /\ Cardinality(Leaked) \in Nat /\ Cardinality(rest) \in Nat
      BY Zenon, <1>11, LeakedFinite, FS_CardinalityType
    <2>2. Cardinality(Leaked \cup rest) =
              Cardinality(Leaked) + Cardinality(rest) - Cardinality(Leaked \cap rest)
      BY Zenon, <1>11, <2>1, FS_Union
    <2>3. Cardinality(Leaked \cap rest) = 0
      BY Zenon, <1>12, FS_EmptySet
    <2> QED BY <1>11, <2>1, <2>2, <2>3
  <1>14. Extra \in Nat
    BY Zenon, <1>11, FS_CardinalityType
  <1>15. Cardinality(Leaked') = (unmaps + 1) * Extra
    BY <1>4, <1>12, <1>13, <1>14 DEF LeakInv
  <1>16. \A u \in Mapper : mpc'[u] = "user" /\ held'[u] # {} => map_size' = usual'
    BY Zenon, <1>2, <1>3
  <1> QED BY Zenon, <1>2, <1>15, <1>16 DEF LeakInv

\* In a program that uses one size, each unmap_card leaves behind exactly the
\* pages that the header of its mapping needs beyond that size.
THEOREM LeaksAreExact == MapSpec => []LeakIsExact
  <1>1. LeakInv /\ UNCHANGED mapvars => LeakInv'
    BY Zenon DEF LeakInv, Leaked, Extra, mapvars, past, PagesAt, PagesOf
  <1>2. MapInv /\ LeakInv /\ [MapNext]_mapvars => LeakInv'
    BY Zenon, <1>1, LeakMap, LeakUnmap DEF MapNext
  <1>3. LeakInv => LeakIsExact
    BY Zenon DEF LeakInv, LeakIsExact, Extra
  <1> QED BY <1>2, <1>3, LeakInit, MapInvariance, PTL DEF MapSpec
=============================================================================
