-------------------------- MODULE CryptoCardProofs --------------------------
(***************************************************************************)
(* Proofs of the safety properties of CryptoCard, for any number of        *)
(* threads, files and processors, any programs and any environment; and    *)
(* that the driver implements CipherService.                               *)
(***************************************************************************)
EXTENDS CryptoCardService, TLAPS

(* Shifting a buffer by any distance gives a buffer.                       *)
LEMMA ShiftType ==
    ASSUME NEW d \in Data, NEW n \in Int
    PROVE  Shift(d, n) \in Data
<1>1. (d.sh + n) % Letters \in 0..(Letters - 1)
  BY LettersAssumption DEF Data
<1> QED
  BY Zenon, <1>1 DEF Data, Shift

(* Packing a << 8 | b into the KEY word loses nothing.                     *)
LEMMA KeyWordParts ==
    ASSUME NEW a \in Byte, NEW b \in Byte
    PROVE  KeyWord(a, b) \div 256 = a /\ KeyWord(a, b) % 256 = b
BY DEF KeyWord, Byte

(* What the card computes from the KEY word is what the call asked for     *)
(* with the two key bytes it read.                                         *)
LEMMA CardComputesResult ==
    ASSUME TypeOK, NEW u \in Thread
    PROVE  CardCipher(call[u].cmd = "DECRYPT", KeyWord(call[u].a, call[u].b),
                      ubuf[u]) = Result(u)
<1>1. call[u].a \in Byte /\ call[u].b \in Byte
  BY Zenon DEF TypeOK, Calls
<1>2. /\ KeyWord(call[u].a, call[u].b) \div 256 = call[u].a
      /\ KeyWord(call[u].a, call[u].b) % 256 = call[u].b
  BY <1>1, KeyWordParts
<1> QED
  BY <1>2 DEF CardCipher, Wanted, Result

(* The card's result is a buffer.                                          *)
LEMMA CardCipherType ==
    ASSUME NEW d \in Data, NEW w \in Nat, NEW dec \in BOOLEAN
    PROVE  CardCipher(dec, w, d) \in Data
<1>1. (w \div 256) + (w % 256) \in Int
  OBVIOUS
<1> QED
  BY <1>1, ShiftType DEF CardCipher

(* Registers are records of three bits.                                    *)
LEMMA RegisterType ==
    ASSUME NEW x \in BOOLEAN, NEW y \in BOOLEAN, NEW z \in BOOLEAN
    PROVE  [busy |-> x, decrypt |-> y, irq |-> z] \in Register
  BY Zenon DEF Register

(* The fields of a register are bits.                                      *)
LEMMA RegisterBits ==
    ASSUME NEW r \in Register
    PROVE  r.busy \in BOOLEAN /\ r.decrypt \in BOOLEAN /\ r.irq \in BOOLEAN
  BY Zenon DEF Register

(* The values the model starts from and returns to have their types.       *)
LEMMA GarbageType == Garbage \in Data
  BY LettersAssumption DEF Garbage, Data

(* The text of every thread is a buffer.                                   *)
LEMMA PlainType == \A t \in Thread : Plain(t) \in Data
  BY LettersAssumption DEF Plain, Data

(* The locals of a call have their types.                                  *)
LEMMA FrameType ==
    ASSUME NEW cmd \in {"none", "SET_KEY", "ENCRYPT", "DECRYPT"},
           NEW isMapped \in {0, 1}, NEW a \in Byte, NEW b \in Byte,
           NEW dma \in {0, 1}, NEW interrupt \in {0, 1}
    PROVE  Frame(cmd, isMapped, a, b, dma, interrupt) \in Calls
  BY Zenon DEF Frame, Calls

(* The KEY word is a number.                                               *)
LEMMA KeyWordType ==
    ASSUME NEW a \in Byte, NEW b \in Byte
    PROVE  KeyWord(a, b) \in Nat
  BY DEF KeyWord, Byte

(* A thread outside the ioctl has locals of the right types.               *)
LEMMA NoCallType == NoCall \in Calls /\ Garbage \in Data
  BY GarbageType DEF NoCall, Frame, Calls, Byte

(* Returning from the ioctl leaves locals of the right types.              *)
LEMMA ReturnType ==
    ASSUME TypeOK, NEW t \in Thread, Return(t)
    PROVE  /\ call' \in [Thread -> Calls] /\ buff' \in [Thread -> Data]
           /\ clean' \in [Thread -> BOOLEAN]
<1>1. call' \in [Thread -> Calls] /\ buff' \in [Thread -> Data]
  BY Zenon, NoCallType DEF TypeOK, Return
<1>2. clean' \in [Thread -> BOOLEAN]
  BY Zenon DEF TypeOK, Return
<1> QED
  BY Zenon, <1>1, <1>2

-----------------------------------------------------------------------------
(* Initially nobody is in an operation and the card is at rest.            *)
LEMMA InitInd == Init => IndInv
<1> SUFFICES ASSUME Init PROVE IndInv
  BY Zenon
<1>1. config \in [Handle -> Configs]
  BY ConstantsAssumption DEF Init, OpenConfigs, Setting, Configs
<1>2. TypeOK
  BY Zenon, <1>1, NoCallType, PlainType DEF Init, TypeOK, Locations, Idle, Register
<1>3. QuietInv /\ \A t \in Thread : OpInv(t)
  BY Zenon DEF Init, QuietInv, OpInv, InOp, AtRest, Idle
<1> QED
  BY Zenon, <1>2, <1>3 DEF IndInv

(* A thread that is not in an operation has nothing to keep.               *)
LEMMA OutsideOp ==
    ASSUME NEW u \in Thread, pc'[u] \in {"user", "set_key_b", "spin_lock"}
    PROVE  OpInv(u)'
BY Zenon DEF OpInv, InOp

(* While t is in an operation nobody else is.                              *)
LEMMA OthersOutside ==
    ASSUME IndInv, NEW t \in Thread, InOp(t),
           NEW u \in Thread, u # t, pc'[u] = pc[u]
    PROVE  OpInv(u)'
<1>1. ~InOp(u)
  BY Zenon DEF IndInv, OpInv
<1> QED
  BY Zenon, <1>1 DEF OpInv, InOp

(* The derived notions depend on the thread's own state only.              *)
LEMMA LocalNotions ==
    ASSUME NEW u \in Thread, call'[u] = call[u], ubuf'[u] = ubuf[u]
    PROVE  /\ UsesDma(u)' = UsesDma(u)
           /\ Result(u)' = Result(u)
BY Zenon DEF UsesDma, Result

(* A step that touches neither the card nor the state of u keeps OpInv(u). *)
LEMMA OpInvFramed ==
    ASSUME IndInv, NEW u \in Thread,
           pc'[u] = pc[u], call'[u] = call[u], buff'[u] = buff[u],
           ubuf'[u] = ubuf[u], clean'[u] = clean[u],
           UNCHANGED <<lock, wq_flag, irqpc, key, mmstatus, data, dmacmd,
                       dmaaddr, dmabuf, isr>>
    PROVE  OpInv(u)'
<1> SUFFICES ASSUME InOp(u) PROVE OpInv(u)'
  BY Zenon DEF OpInv, InOp
<1>1. OpInv(u) /\ InOp(u)
  BY Zenon DEF IndInv
<1>2. /\ UsesDma(u)' = UsesDma(u) /\ Result(u)' = Result(u)
      /\ Calm(u)' = Calm(u)
  BY Zenon, LocalNotions DEF Calm
<1>3. /\ Busy(u)' = Busy(u) /\ Payload(u)' = Payload(u)
      /\ AtRest' = AtRest
  BY Zenon, <1>2 DEF Busy, Payload, AtRest
<1>4. RouteInv(u)' /\ CommandInv(u)'
  BY Zenon, <1>1, <1>2 DEF OpInv, RouteInv, CommandInv
<1>5. BufferInv(u)'
  BY Zenon, <1>1, <1>2 DEF OpInv, BufferInv
<1>6. PhaseInv(u)'
  BY Zenon, <1>1, <1>2, <1>3 DEF OpInv, PhaseInv, OneToken, OtherEngineIdle
<1>7. TextInv(u)'
  BY Zenon, <1>1, <1>2, <1>3 DEF OpInv, TextInv
<1> QED
  BY Zenon, <1>1, <1>4, <1>5, <1>6, <1>7 DEF OpInv

(* SET_KEY, first store.                                                   *)
LEMMA SetKeyAInd ==
    ASSUME IndInv, NEW t \in Thread, SetKeyA(t)
    PROVE  IndInv'
<1>1. TypeOK'
  <2>1. pc' \in [Thread -> Locations]
    BY Zenon DEF IndInv, TypeOK, SetKeyA, Goto, Locations
  <2> DEFINE cfg == config[HandleOf[t]]
  <2>2. PICK k \in Byte \X Byte :
            /\ config' = [config EXCEPT ![HandleOf[t]] =
                 Setting(k[1], cfg.b, cfg.dma, cfg.interrupt, cfg.isKeyset)]
            /\ call' = [call EXCEPT ![t] = Frame("SET_KEY", 0, k[1], k[2], 0, 0)]
    BY ConstantsAssumption, Zenon DEF IndInv, TypeOK, SetKeyA
  <2>3. config' \in [Handle -> Configs]
    BY <2>2, ConstantsAssumption, Zenon DEF IndInv, TypeOK, Configs, Setting
  <2>4. call' \in [Thread -> Calls]
    BY <2>2 DEF IndInv, TypeOK, Calls, Frame, Byte
  <2> QED
    BY Zenon, <2>1, <2>3, <2>4 DEF IndInv, TypeOK, SetKeyA, card
<1>2. QuietInv'
  BY Zenon DEF IndInv, TypeOK, QuietInv, SetKeyA, Goto, card, InOp, AtRest, OpInv
<1>3. ASSUME NEW u \in Thread PROVE OpInv(u)'
  <2>1. CASE u = t
    BY Zenon, <2>1, OutsideOp DEF IndInv, TypeOK, SetKeyA, Goto, card
  <2>2. CASE u # t
    BY Zenon, <2>2, OpInvFramed DEF IndInv, TypeOK, SetKeyA, Goto, card
  <2> QED
    BY Zenon, <2>1, <2>2
<1> QED
  BY Zenon, <1>1, <1>2, <1>3 DEF IndInv

(* SET_KEY, second store.                                                  *)
LEMMA SetKeyBInd ==
    ASSUME IndInv, NEW t \in Thread, SetKeyB(t)
    PROVE  IndInv'
<1>1. TypeOK'
  <2>1. pc' \in [Thread -> Locations]
    BY Zenon DEF IndInv, TypeOK, SetKeyB, Return, Locations
  <2>2. call' \in [Thread -> Calls] /\ buff' \in [Thread -> Data]
        /\ clean' \in [Thread -> BOOLEAN]
    BY Zenon, NoCallType DEF IndInv, TypeOK, SetKeyB, Return
  <2>3. config' \in [Handle -> Configs]
    BY Zenon, ConstantsAssumption DEF IndInv, TypeOK, SetKeyB, Configs, Setting,
       Calls
  <2> QED
    BY Zenon, <2>1, <2>2, <2>3 DEF IndInv, TypeOK, SetKeyB, card
<1>2. QuietInv'
  BY Zenon DEF IndInv, TypeOK, QuietInv, SetKeyB, Return, card, InOp, AtRest, OpInv
<1>3. ASSUME NEW u \in Thread PROVE OpInv(u)'
  <2>1. CASE u = t
    BY Zenon, <2>1, OutsideOp DEF IndInv, TypeOK, SetKeyB, Return, card
  <2>2. CASE u # t
    BY <2>2, OpInvFramed, Zenon DEF IndInv, TypeOK, SetKeyB, Return, card
  <2> QED
    BY Zenon, <2>1, <2>2
<1> QED
  BY Zenon, <1>1, <1>2, <1>3 DEF IndInv

(* SET_CONFIG.                                                             *)
LEMMA SetConfigInd ==
    ASSUME IndInv, NEW t \in Thread, SetConfig(t)
    PROVE  IndInv'
<1>1. TypeOK'
  <2> DEFINE cfg == config[HandleOf[t]]
  <2>1. PICK c \in {0, 1} \X {0, 1} :
            config' = [config EXCEPT ![HandleOf[t]] =
              IF c[1] = 0
              THEN Setting(cfg.a, cfg.b, cfg.dma, c[2], cfg.isKeyset)
              ELSE Setting(cfg.a, cfg.b, c[2], cfg.interrupt, cfg.isKeyset)]
    BY ConstantsAssumption, Zenon DEF IndInv, TypeOK, SetConfig
  <2>2. config' \in [Handle -> Configs]
    <3>1. cfg \in Configs /\ c[1] \in {0, 1} /\ c[2] \in {0, 1}
      BY Zenon, ConstantsAssumption DEF IndInv, TypeOK
    <3>2. /\ Setting(cfg.a, cfg.b, cfg.dma, c[2], cfg.isKeyset) \in Configs
          /\ Setting(cfg.a, cfg.b, c[2], cfg.interrupt, cfg.isKeyset) \in Configs
      BY Zenon, <3>1 DEF Configs, Setting
    <3> QED
      BY <2>1, <3>2, Zenon DEF IndInv, TypeOK
  <2> QED
    BY Zenon, <2>2 DEF IndInv, TypeOK, SetConfig, card
<1>2. QuietInv'
  BY Zenon DEF IndInv, TypeOK, QuietInv, SetConfig, card, InOp, AtRest, OpInv
<1>3. ASSUME NEW u \in Thread PROVE OpInv(u)'
  BY Zenon, OpInvFramed DEF SetConfig, card
<1> QED
  BY Zenon, <1>1, <1>2, <1>3 DEF IndInv

(* ENCRYPT or DECRYPT starts to spin.                                      *)
LEMMA EnterOpInd ==
    ASSUME IndInv, NEW t \in Thread, EnterOp(t)
    PROVE  IndInv'
<1>1. TypeOK'
  <2>1. pc' \in [Thread -> Locations]
    BY Zenon DEF IndInv, TypeOK, EnterOp, Goto, Locations
  <2>2. PICK o \in {"ENCRYPT", "DECRYPT"} \X {0, 1} :
            call' = [call EXCEPT ![t] = Frame(o[1], o[2], 0, 0, 0, 0)]
    BY ConstantsAssumption, Zenon DEF EnterOp
  <2>3. Frame(o[1], o[2], 0, 0, 0, 0) \in Calls
    BY DEF Calls, Frame, Byte
  <2>4. call' \in [Thread -> Calls]
    BY Zenon, <2>2, <2>3 DEF IndInv, TypeOK
  <2> QED
    BY Zenon, <2>1, <2>4 DEF IndInv, TypeOK, EnterOp, card
<1>2. QuietInv'
  BY Zenon DEF IndInv, TypeOK, QuietInv, EnterOp, Goto, card, InOp, AtRest, OpInv
<1>3. ASSUME NEW u \in Thread PROVE OpInv(u)'
  <2>1. CASE u = t
    BY Zenon, <2>1, OutsideOp DEF IndInv, TypeOK, EnterOp, Goto, card
  <2>2. CASE u # t
    BY Zenon, <2>2, OpInvFramed DEF IndInv, TypeOK, EnterOp, Goto, card
  <2> QED
    BY Zenon, <2>1, <2>2
<1> QED
  BY Zenon, <1>1, <1>2, <1>3 DEF IndInv

(* The lock is taken.                                                      *)
LEMMA SpinLockInd ==
    ASSUME IndInv, NEW t \in Thread, SpinLock(t)
    PROVE  IndInv'
<1>1. TypeOK'
  <2>1. pc' \in [Thread -> Locations]
    BY Zenon DEF IndInv, TypeOK, SpinLock, Goto, Locations
  <2>2. call' \in [Thread -> Calls]
    <3>1. config[HandleOf[t]] \in Configs /\ call[t] \in Calls
      BY Zenon, ConstantsAssumption DEF IndInv, TypeOK
    <3>2. /\ call[t].cmd \in {"none", "SET_KEY", "ENCRYPT", "DECRYPT"}
          /\ call[t].isMapped \in {0, 1}
          /\ config[HandleOf[t]].a \in Byte
      BY Zenon, <3>1 DEF Calls, Configs
    <3>3. 0 \in Byte /\ 0 \in {0, 1}
      BY DEF Byte
    <3>4. Frame(call[t].cmd, call[t].isMapped, config[HandleOf[t]].a, 0, 0, 0)
            \in Calls
      BY Zenon, <3>2, <3>3, FrameType
    <3> QED
      BY Zenon, <3>4 DEF IndInv, TypeOK, SpinLock
  <2>3. clean' \in [Thread -> BOOLEAN]
    BY Zenon DEF IndInv, TypeOK, SpinLock, AtRest
  <2> QED
    BY Zenon, <2>1, <2>2, <2>3 DEF IndInv, TypeOK, SpinLock, card
<1>2. QuietInv'
  BY Zenon DEF IndInv, TypeOK, QuietInv, SpinLock, Goto, card, InOp, AtRest, OpInv
<1>3. ASSUME NEW u \in Thread PROVE OpInv(u)'
  <2>1. \A v \in Thread : ~InOp(v)
    BY Zenon, NoneAssumption DEF IndInv, TypeOK, OpInv, SpinLock
  <2>2. u # t => ~InOp(u)'
    BY <2>1 DEF SpinLock, InOp, Goto
  <2>3. Calm(t)' => AtRest
    BY Zenon, <2>1 DEF IndInv, TypeOK, QuietInv, SpinLock, Calm
  <2>4. /\ pc'[t] = "read_config" /\ lock' = t
        /\ AtRest => AtRest'
    BY Zenon DEF IndInv, TypeOK, SpinLock, Goto, AtRest, card
  <2> QED
    BY Zenon, <2>2, <2>3, <2>4
       DEF OpInv, RouteInv, CommandInv, BufferInv, PhaseInv, TextInv
<1> QED
  BY Zenon, <1>1, <1>2, <1>3 DEF IndInv

(* The settings are read and the input copied in.                          *)
LEMMA ReadConfigInd ==
    ASSUME IndInv, NEW t \in Thread, ReadConfig(t)
    PROVE  IndInv'
<1>1. TypeOK'
  <2>1. pc' \in [Thread -> Locations]
    BY Zenon DEF IndInv, TypeOK, ReadConfig, Goto, Locations
  <2>2. call' \in [Thread -> Calls]
    BY ConstantsAssumption, Zenon
       DEF IndInv, TypeOK, ReadConfig, Calls, Configs, Frame
  <2>3. key' \in Nat
    <3>1. call[t].a \in Byte /\ config[HandleOf[t]].b \in Byte
      BY Zenon, ConstantsAssumption DEF IndInv, TypeOK, Calls, Configs
    <3> QED
      BY <3>1, KeyWordType, Zenon DEF ReadConfig
  <2>4. buff' \in [Thread -> Data]
    BY Zenon, GarbageType DEF IndInv, TypeOK, ReadConfig
  <2>5. clean' \in [Thread -> BOOLEAN]
    BY Zenon DEF IndInv, TypeOK, ReadConfig
  <2> QED
    BY Zenon, <2>1, <2>2, <2>3, <2>4, <2>5 DEF IndInv, TypeOK, ReadConfig
<1>2. QuietInv'
  BY Zenon DEF IndInv, TypeOK, QuietInv, ReadConfig, Goto, Frame, InOp, AtRest,
     OpInv
<1>3. ASSUME NEW u \in Thread PROVE OpInv(u)'
  <2> SUFFICES ASSUME u = t PROVE OpInv(t)'
    BY Zenon, OthersOutside DEF IndInv, TypeOK, ReadConfig, Goto, InOp
  <2> DEFINE cfg == config[HandleOf[t]]
  <2>1. OpInv(t) /\ InOp(t) /\ pc[t] = "read_config"
    BY Zenon DEF IndInv, ReadConfig, InOp
  <2>2. call'[t] = Frame(call[t].cmd, call[t].isMapped, call[t].a, cfg.b,
                         cfg.dma, cfg.interrupt)
    BY Zenon DEF IndInv, TypeOK, ReadConfig
  <2>3. /\ UsesDma(t)' <=> call[t].isMapped = 0 /\ cfg.dma = 1
        /\ key' = KeyWord(call'[t].a, call'[t].b)
        /\ call'[t].isMapped = call[t].isMapped
    BY <2>2 DEF ReadConfig, UsesDma, Frame
  <2>4. pc'[t] = IF UsesDma(t)' THEN "dma_setup" ELSE "set_status"
    BY <2>3, Zenon DEF IndInv, TypeOK, ReadConfig, Goto
  <2>5. /\ clean'[t] => clean[t]
        /\ clean'[t] /\ call[t].isMapped = 0 => buff'[t] = ubuf[t]
    BY DEF IndInv, TypeOK, ReadConfig
  <2>6. lock' = t /\ ubuf' = ubuf /\ (AtRest <=> AtRest')
    BY <2>1, Zenon DEF OpInv, ReadConfig, AtRest
  <2>7. RouteInv(t)'
    BY Zenon, <2>4 DEF RouteInv
  <2>8. CommandInv(t)' /\ BufferInv(t)'
    BY Zenon, <2>3, <2>4 DEF CommandInv, BufferInv
  <2>9. PhaseInv(t)'
    BY Zenon, <2>1, <2>4, <2>5, <2>6 DEF OpInv, PhaseInv, Calm
  <2>10. TextInv(t)'
    BY <2>3, <2>4, <2>5, <2>6, Zenon DEF TextInv
  <2> QED
    BY Zenon, <2>6, <2>7, <2>8, <2>9, <2>10 DEF OpInv
<1> QED
  BY Zenon, <1>1, <1>2, <1>3 DEF IndInv

(* The command bits are written.                                           *)
LEMMA SetStatusInd ==
    ASSUME IndInv, NEW t \in Thread, SetStatus(t)
    PROVE  IndInv'
<1>1. TypeOK'
  <2>1. pc' \in [Thread -> Locations]
    BY Zenon DEF IndInv, TypeOK, SetStatus, Goto, Locations
  <2>2. mmstatus' \in Register
    <3>1. mmstatus \in Register
      BY Zenon DEF IndInv, TypeOK
    <3> QED
      BY <3>1, RegisterType, RegisterBits, Zenon DEF SetStatus
  <2> QED
    BY Zenon, <2>1, <2>2 DEF IndInv, TypeOK, SetStatus
<1>2. QuietInv'
  BY Zenon DEF IndInv, TypeOK, QuietInv, SetStatus, Goto, InOp, AtRest, OpInv
<1>3. ASSUME NEW u \in Thread PROVE OpInv(u)'
  <2> SUFFICES ASSUME u = t PROVE OpInv(t)'
    BY Zenon, OthersOutside DEF IndInv, TypeOK, SetStatus, Goto, InOp
  <2>1. OpInv(t) /\ InOp(t) /\ pc[t] = "set_status"
    BY Zenon DEF IndInv, SetStatus, InOp
  <2>2. /\ pc'[t] = IF call[t].isMapped = 0 THEN "memcpy_toio" ELSE "poll_free"
        /\ call'[t] = call[t] /\ clean'[t] = clean[t]
        /\ ubuf' = ubuf /\ lock' = lock
    BY Zenon DEF IndInv, TypeOK, SetStatus, Goto
  <2>3. /\ UsesDma(t)' = UsesDma(t) /\ Result(t)' = Result(t)
        /\ Calm(t)' = Calm(t)
    BY <2>2, LocalNotions, Zenon DEF Calm
  <2>4. RouteInv(t)'
    BY Zenon, <2>1, <2>2, <2>3 DEF OpInv, RouteInv
  <2>5. CommandInv(t)'
    BY <2>1, <2>2, <2>3, Zenon DEF OpInv, RouteInv, CommandInv, SetStatus
  <2>6. BufferInv(t)'
    BY <2>1, <2>2, <2>3, Zenon DEF OpInv, RouteInv, BufferInv, SetStatus
  <2>7. PhaseInv(t)'
    BY <2>1, <2>2, <2>3, Zenon DEF OpInv, PhaseInv, AtRest, SetStatus
  <2>8. TextInv(t)'
    BY <2>1, <2>2, <2>3, Zenon
       DEF OpInv, RouteInv, TextInv, Payload, SetStatus
  <2> QED
    BY Zenon, <2>1, <2>2, <2>4, <2>5, <2>6, <2>7, <2>8 DEF OpInv
<1> QED
  BY Zenon, <1>1, <1>2, <1>3 DEF IndInv

(* The text goes to the card.                                              *)
LEMMA MemcpyToIoInd ==
    ASSUME IndInv, NEW t \in Thread, MemcpyToIo(t)
    PROVE  IndInv'
<1>1. TypeOK'
  <2>1. pc' \in [Thread -> Locations]
    BY Zenon DEF IndInv, TypeOK, MemcpyToIo, Goto, Locations
  <2> QED
    BY Zenon, <2>1 DEF IndInv, TypeOK, MemcpyToIo
<1>2. QuietInv'
  BY Zenon DEF IndInv, TypeOK, QuietInv, MemcpyToIo, Goto, InOp, AtRest, OpInv
<1>3. ASSUME NEW u \in Thread PROVE OpInv(u)'
  <2> SUFFICES ASSUME u = t PROVE OpInv(t)'
    BY Zenon, OthersOutside DEF IndInv, TypeOK, MemcpyToIo, Goto, InOp
  <2>1. OpInv(t) /\ InOp(t) /\ pc[t] = "memcpy_toio"
    BY Zenon DEF IndInv, MemcpyToIo, InOp
  <2>2. /\ pc'[t] = "poll_free"
        /\ call'[t] = call[t] /\ clean'[t] = clean[t]
        /\ ubuf' = ubuf /\ lock' = lock
    BY Zenon DEF IndInv, TypeOK, MemcpyToIo, Goto
  <2>3. /\ UsesDma(t)' = UsesDma(t) /\ Result(t)' = Result(t)
        /\ Calm(t)' = Calm(t)
    BY <2>2, LocalNotions, Zenon DEF Calm
  <2>4. RouteInv(t)'
    BY <2>1, <2>2, <2>3, Zenon DEF OpInv, RouteInv
  <2>5. CommandInv(t)'
    BY <2>1, <2>2, <2>3, Zenon DEF OpInv, RouteInv, CommandInv, MemcpyToIo
  <2>6. BufferInv(t)'
    BY <2>1, <2>2, <2>3, Zenon DEF OpInv, RouteInv, BufferInv, MemcpyToIo
  <2>7. PhaseInv(t)'
    BY Zenon, <2>1, <2>2, <2>3 DEF OpInv, PhaseInv, AtRest, MemcpyToIo
  <2>8. TextInv(t)'
    BY <2>1, <2>2, <2>3, Zenon
       DEF OpInv, RouteInv, TextInv, Payload, MemcpyToIo
  <2> QED
    BY <2>1, <2>2, <2>4, <2>5, <2>6, <2>7, <2>8, Zenon DEF OpInv
<1> QED
  BY Zenon, <1>1, <1>2, <1>3 DEF IndInv

(* The text goes to a DMA buffer.                                          *)
LEMMA DmaSetupInd ==
    ASSUME IndInv, NEW t \in Thread, DmaSetup(t)
    PROVE  IndInv'
<1>1. TypeOK'
  <2>1. pc' \in [Thread -> Locations]
    BY Zenon DEF IndInv, TypeOK, DmaSetup, Goto, Locations
  <2> QED
    BY <2>1, Zenon DEF IndInv, TypeOK, DmaSetup
<1>2. QuietInv'
  BY Zenon DEF IndInv, TypeOK, QuietInv, DmaSetup, Goto, InOp, AtRest, OpInv
<1>3. ASSUME NEW u \in Thread PROVE OpInv(u)'
  <2> SUFFICES ASSUME u = t PROVE OpInv(t)'
    BY Zenon, OthersOutside DEF IndInv, TypeOK, DmaSetup, Goto, InOp
  <2>1. OpInv(t) /\ InOp(t) /\ pc[t] = "dma_setup"
    BY Zenon DEF IndInv, DmaSetup, InOp
  <2>2. /\ pc'[t] = "poll_free"
        /\ call'[t] = call[t] /\ clean'[t] = clean[t]
        /\ ubuf' = ubuf /\ lock' = lock
    BY Zenon DEF IndInv, TypeOK, DmaSetup, Goto
  <2>3. /\ UsesDma(t)' = UsesDma(t) /\ Result(t)' = Result(t)
        /\ Calm(t)' = Calm(t)
    BY Zenon, <2>2, LocalNotions DEF Calm
  <2>a. /\ dmabuf'[t] = buff[t] /\ buff'[t] = buff[t]
        /\ buff[t] # None
    BY NoneAssumption DEF IndInv, TypeOK, DmaSetup
  <2>4. RouteInv(t)'
    BY <2>1, <2>2, <2>3, Zenon DEF OpInv, RouteInv
  <2>5. CommandInv(t)'
    BY <2>1, <2>2, <2>3, Zenon DEF OpInv, RouteInv, CommandInv, DmaSetup
  <2>6. BufferInv(t)'
    BY <2>1, <2>2, <2>3, <2>a, Zenon DEF PhaseInv, AtRest, OpInv, RouteInv,
       BufferInv, DmaSetup
  <2>7. PhaseInv(t)'
    BY <2>1, <2>2, <2>3, Zenon DEF OpInv, PhaseInv, AtRest, DmaSetup
  <2>8. TextInv(t)'
    BY <2>1, <2>2, <2>3, <2>a, Zenon DEF OpInv, RouteInv, TextInv, Payload,
       DmaSetup
  <2> QED
    BY <2>1, <2>2, <2>4, <2>5, <2>6, <2>7, <2>8, Zenon DEF OpInv
<1> QED
  BY Zenon, <1>1, <1>2, <1>3 DEF IndInv

(* The engine is free.                                                     *)
LEMMA PollFreeInd ==
    ASSUME IndInv, NEW t \in Thread, PollFree(t)
    PROVE  IndInv'
<1>1. TypeOK'
  <2>1. pc' \in [Thread -> Locations]
    BY Zenon DEF IndInv, TypeOK, PollFree, Goto, Locations
  <2> QED
    BY Zenon, <2>1 DEF IndInv, TypeOK, PollFree, card
<1>2. QuietInv'
  BY Zenon DEF IndInv, TypeOK, QuietInv, PollFree, Goto, card, InOp, AtRest, OpInv
<1>3. ASSUME NEW u \in Thread PROVE OpInv(u)'
  <2> SUFFICES ASSUME u = t PROVE OpInv(t)'
    BY Zenon, OthersOutside DEF IndInv, TypeOK, PollFree, Goto, card, InOp
  <2>1. OpInv(t) /\ InOp(t) /\ pc[t] = "poll_free"
    BY Zenon DEF IndInv, PollFree, InOp
  <2>2. /\ pc'[t] = "trigger"
        /\ call'[t] = call[t] /\ clean'[t] = clean[t]
        /\ ubuf' = ubuf /\ lock' = lock
    BY Zenon DEF IndInv, TypeOK, PollFree, Goto, card
  <2>3. /\ UsesDma(t)' = UsesDma(t) /\ Result(t)' = Result(t)
        /\ Calm(t)' = Calm(t)
    BY <2>2, LocalNotions, Zenon DEF Calm
  <2>4. RouteInv(t)'
    BY <2>1, <2>2, <2>3, Zenon DEF OpInv, RouteInv
  <2>5. CommandInv(t)'
    BY <2>1, <2>2, <2>3, Zenon DEF OpInv, RouteInv, CommandInv, PollFree, card
  <2>6. BufferInv(t)'
    BY <2>1, <2>2, <2>3, Zenon DEF OpInv, RouteInv, BufferInv, PollFree, card
  <2>7. PhaseInv(t)'
    BY <2>1, <2>2, <2>3, Zenon DEF OpInv, PhaseInv, AtRest, PollFree, card
  <2>8. TextInv(t)'
    BY <2>1, <2>2, <2>3, Zenon DEF OpInv, RouteInv, TextInv, Payload,
       PollFree, card
  <2> QED
    BY <2>1, <2>2, <2>4, <2>5, <2>6, <2>7, <2>8, Zenon DEF OpInv
<1> QED
  BY Zenon, <1>1, <1>2, <1>3 DEF IndInv

(* The transfer starts.                                                    *)
LEMMA TriggerInd ==
    ASSUME IndInv, NEW t \in Thread, Trigger(t)
    PROVE  IndInv'
<1>1. TypeOK'
  <2>1. pc' \in [Thread -> Locations]
    BY Zenon DEF IndInv, TypeOK, Trigger, Goto, Locations
  <2>2. mmstatus' \in Register
    <3>1. mmstatus \in Register /\ TRUE \in BOOLEAN
      BY Zenon DEF IndInv, TypeOK
    <3>2. [busy |-> TRUE, decrypt |-> mmstatus.decrypt, irq |-> mmstatus.irq]
            \in Register
      BY <3>1, RegisterType, RegisterBits, Zenon
    <3> QED
      BY <3>1, <3>2, Zenon DEF Trigger
  <2>3. dmacmd' \in Register
    <3>1. dmacmd \in Register /\ TRUE \in BOOLEAN
      BY Zenon DEF IndInv, TypeOK
    <3>2. [busy |-> TRUE, decrypt |-> (call[t].cmd = "DECRYPT"),
           irq |-> (call[t].interrupt = 1)] \in Register
      BY RegisterType, Zenon
    <3> QED
      BY <3>1, <3>2, Zenon DEF Trigger
  <2> QED
    BY Zenon, <2>1, <2>2, <2>3 DEF IndInv, TypeOK, Trigger
<1>2. QuietInv'
  BY Zenon DEF IndInv, TypeOK, QuietInv, Trigger, Goto, Calls, Register, InOp,
     AtRest, OpInv
<1>3. ASSUME NEW u \in Thread PROVE OpInv(u)'
  <2> SUFFICES ASSUME u = t PROVE OpInv(t)'
    BY Zenon, OthersOutside DEF IndInv, TypeOK, Trigger, Goto, InOp
  <2>1. OpInv(t) /\ InOp(t) /\ pc[t] = "trigger"
    BY Zenon DEF IndInv, Trigger, InOp
  <2>2. /\ pc'[t] = IF call[t].interrupt = 0 THEN "poll_done" ELSE "wait_event"
        /\ call'[t] = call[t] /\ clean'[t] = clean[t]
        /\ ubuf' = ubuf /\ lock' = lock
    BY Zenon DEF IndInv, TypeOK, Trigger, Goto
  <2>3. /\ UsesDma(t)' = UsesDma(t) /\ Result(t)' = Result(t)
        /\ Calm(t)' = Calm(t)
    BY <2>2, LocalNotions, Zenon DEF Calm
  <2>a. call[t].interrupt \in {0, 1}
    BY Zenon DEF IndInv, TypeOK, Calls
  <2>b. Busy(t)'
    BY <2>3 DEF Busy, Trigger
  <2>c. Calm(t) => OtherEngineIdle(t)'
    BY Zenon, <2>1, <2>3 DEF OpInv, PhaseInv, AtRest, OtherEngineIdle, Trigger
  <2>4. RouteInv(t)'
    BY <2>1, <2>2, <2>3, <2>a, Zenon DEF OpInv, RouteInv
  <2>5. CommandInv(t)'
    BY <2>1, <2>2, <2>3 DEF OpInv, RouteInv, CommandInv, Trigger
  <2>6. BufferInv(t)'
    BY Zenon, <2>1, <2>2, <2>3 DEF OpInv, RouteInv, BufferInv, Trigger
  <2>7. PhaseInv(t)'
    BY Zenon, <2>1, <2>2, <2>3, <2>b, <2>c DEF OneToken, OpInv, PhaseInv, AtRest,
       Trigger
  <2>8. TextInv(t)'
    BY Zenon, <2>1, <2>2, <2>3, <2>b DEF OpInv, RouteInv, TextInv, Payload,
       Trigger
  <2> QED
    BY <2>1, <2>2, <2>4, <2>5, <2>6, <2>7, <2>8, Zenon DEF OpInv
<1> QED
  BY Zenon, <1>1, <1>2, <1>3 DEF IndInv

(* A polled transfer is done.                                              *)
LEMMA PollDoneInd ==
    ASSUME IndInv, NEW t \in Thread, PollDone(t)
    PROVE  IndInv'
<1>1. TypeOK'
  <2>1. pc' \in [Thread -> Locations]
    BY DEF IndInv, TypeOK, PollDone, AfterTransfer, Goto, Return, Locations
  <2>2. call' \in [Thread -> Calls] /\ buff' \in [Thread -> Data]
        /\ clean' \in [Thread -> BOOLEAN]
    <3>1. CASE call[t].isMapped = 0
      BY Zenon, <3>1 DEF IndInv, TypeOK, PollDone, AfterTransfer
    <3>2. CASE call[t].isMapped # 0
      BY Zenon, <3>2, ReturnType DEF IndInv, TypeOK, PollDone, AfterTransfer
    <3> QED
      BY Zenon, <3>1, <3>2
  <2> QED
    BY Zenon, <2>1, <2>2 DEF IndInv, TypeOK, PollDone, card
<1>2. QuietInv'
  BY Zenon DEF IndInv, TypeOK, QuietInv, PollDone, AfterTransfer, Goto, Return,
     card, InOp, AtRest, OpInv,
         PhaseInv, Calm, Busy, UsesDma, OtherEngineIdle
<1>3. ASSUME NEW u \in Thread PROVE OpInv(u)'
  <2> SUFFICES ASSUME u = t PROVE OpInv(t)'
    BY Zenon, OthersOutside DEF IndInv, TypeOK, PollDone, AfterTransfer, Goto,
       Return, card, InOp
  <2>1. CASE call[t].isMapped # 0
    BY Zenon, <2>1, OutsideOp DEF IndInv, TypeOK, PollDone, AfterTransfer, Return
  <2>2. CASE call[t].isMapped = 0
    <3>1. OpInv(t) /\ InOp(t) /\ pc[t] = "poll_done"
      BY Zenon DEF IndInv, PollDone, InOp
    <3>2. /\ pc'[t] = "memcpy_back"
          /\ call'[t] = call[t] /\ clean'[t] = clean[t]
          /\ ubuf' = ubuf /\ lock' = lock
      BY Zenon, <2>2 DEF IndInv, TypeOK, PollDone, AfterTransfer, Goto
    <3>3. /\ UsesDma(t)' = UsesDma(t) /\ Result(t)' = Result(t)
          /\ Calm(t)' = Calm(t)
      BY <3>2, LocalNotions, Zenon DEF Calm
    <3>a. Calm(t) => AtRest'
      BY Zenon, <3>1, <3>3 DEF OpInv, PhaseInv, AtRest, Busy, OtherEngineIdle,
         PollDone, card
    <3>b. clean[t] => Calm(t)
      BY Zenon DEF Calm
    <3>4. RouteInv(t)'
      BY <3>1, <3>2, <3>3, <2>2, Zenon DEF OpInv, RouteInv
    <3>5. CommandInv(t)'
      BY <3>1, <3>2, <3>3, Zenon
         DEF OpInv, RouteInv, CommandInv, PollDone, card
    <3>6. BufferInv(t)'
      BY <3>1, <3>2, <3>3, Zenon
         DEF OpInv, RouteInv, BufferInv, PollDone, card
    <3>7. PhaseInv(t)'
      BY <3>1, <3>2, <3>3, <3>a, Zenon
         DEF OpInv, PhaseInv, AtRest, PollDone, card
    <3>8. TextInv(t)'
      BY <3>1, <3>2, <3>3, <3>b, Zenon DEF PhaseInv, OpInv, RouteInv, TextInv,
         Payload,
         PollDone, card
    <3> QED
      BY <3>1, <3>2, <3>4, <3>5, <3>6, <3>7, <3>8, Zenon DEF OpInv
  <2> QED
    BY Zenon, <2>1, <2>2
<1> QED
  BY Zenon, <1>1, <1>2, <1>3 DEF IndInv

(* The sleeper wakes.                                                      *)
LEMMA WaitEventInd ==
    ASSUME IndInv, NEW t \in Thread, WaitEvent(t)
    PROVE  IndInv'
<1>1. TypeOK'
  <2>1. pc' \in [Thread -> Locations]
    BY Zenon DEF IndInv, TypeOK, WaitEvent, Goto, Locations
  <2> QED
    BY Zenon, <2>1 DEF IndInv, TypeOK, WaitEvent, card
<1>2. QuietInv'
  BY Zenon DEF IndInv, TypeOK, QuietInv, WaitEvent, Goto, card, InOp, AtRest, OpInv
<1>3. ASSUME NEW u \in Thread PROVE OpInv(u)'
  <2> SUFFICES ASSUME u = t PROVE OpInv(t)'
    BY Zenon, OthersOutside DEF IndInv, TypeOK, WaitEvent, Goto, card, InOp
  <2>1. OpInv(t) /\ InOp(t) /\ pc[t] = "wait_event"
    BY Zenon DEF IndInv, WaitEvent, InOp
  <2>2. /\ pc'[t] = "clear_flag"
        /\ call'[t] = call[t] /\ clean'[t] = clean[t]
        /\ ubuf' = ubuf /\ lock' = lock
    BY Zenon DEF IndInv, TypeOK, WaitEvent, Goto, card
  <2>3. /\ UsesDma(t)' = UsesDma(t) /\ Result(t)' = Result(t)
        /\ Calm(t)' = Calm(t)
    BY <2>2, LocalNotions, Zenon DEF Calm
  <2>a. Calm(t) => ~Busy(t) /\ isr = {} /\ irqpc = "idle" /\ OtherEngineIdle(t)
    BY <2>1 DEF OpInv, PhaseInv, OneToken, WaitEvent
  <2>b. clean[t] => Calm(t)
    BY Zenon DEF Calm
  <2>4. RouteInv(t)'
    BY <2>1, <2>2, <2>3, Zenon DEF OpInv, RouteInv
  <2>5. CommandInv(t)'
    BY <2>1, <2>2, <2>3, Zenon
       DEF OpInv, RouteInv, CommandInv, WaitEvent, card
  <2>6. BufferInv(t)'
    BY <2>1, <2>2, <2>3, Zenon DEF OpInv, RouteInv, BufferInv, WaitEvent, card
  <2>7. PhaseInv(t)'
    BY <2>1, <2>2, <2>3, <2>a, Zenon
       DEF Busy, OtherEngineIdle, OpInv, PhaseInv, AtRest, WaitEvent, card
  <2>8. TextInv(t)'
    BY <2>1, <2>2, <2>3, <2>a, <2>b, Zenon
       DEF OpInv, RouteInv, TextInv, Payload, WaitEvent, card
  <2> QED
    BY <2>1, <2>2, <2>4, <2>5, <2>6, <2>7, <2>8, Zenon DEF OpInv
<1> QED
  BY Zenon, <1>1, <1>2, <1>3 DEF IndInv

(* A signal ends the sleep.                                                *)
LEMMA InterruptedInd ==
    ASSUME IndInv, NEW t \in Thread, Interrupted(t)
    PROVE  IndInv'
<1>1. TypeOK'
  <2>1. pc' \in [Thread -> Locations]
    BY Zenon DEF IndInv, TypeOK, Interrupted, Goto, Locations
  <2> QED
    BY <2>1, Zenon DEF IndInv, TypeOK, Interrupted, card
<1>2. QuietInv'
  BY Zenon DEF IndInv, TypeOK, QuietInv, Interrupted, Goto, card, InOp, AtRest,
     OpInv
<1>3. ASSUME NEW u \in Thread PROVE OpInv(u)'
  <2> SUFFICES ASSUME u = t PROVE OpInv(t)'
    BY Zenon, OthersOutside DEF IndInv, TypeOK, Interrupted, Goto, card, InOp
  <2>1. OpInv(t) /\ InOp(t) /\ pc[t] = "wait_event"
    BY Zenon DEF IndInv, Interrupted, InOp
  <2>2. /\ pc'[t] = "clear_flag"
        /\ call'[t] = call[t] /\ ~clean'[t]
        /\ ubuf' = ubuf /\ lock' = lock
    BY Zenon DEF IndInv, TypeOK, Interrupted, Goto, card
  <2>3. /\ UsesDma(t)' = UsesDma(t) /\ Result(t)' = Result(t)
        /\ ~Calm(t)'
    BY <2>2, LocalNotions, Zenon DEF Calm, Interrupted
  <2>4. RouteInv(t)'
    BY <2>1, <2>2, <2>3, Zenon DEF OpInv, RouteInv
  <2>5. CommandInv(t)'
    BY <2>1, <2>2, <2>3, Zenon
       DEF OpInv, RouteInv, CommandInv, Interrupted, card
  <2>6. BufferInv(t)'
    BY <2>1, <2>2, <2>3, Zenon
       DEF OpInv, RouteInv, BufferInv, Interrupted, card
  <2>7. PhaseInv(t)'
    BY <2>1, <2>2, <2>3, Zenon DEF OpInv, PhaseInv, AtRest, Interrupted, card
  <2>8. TextInv(t)'
    BY <2>1, <2>2, <2>3, Zenon DEF OpInv, RouteInv, TextInv, Payload,
       Interrupted, card
  <2> QED
    BY <2>1, <2>2, <2>4, <2>5, <2>6, <2>7, <2>8, Zenon DEF OpInv
<1> QED
  BY Zenon, <1>1, <1>2, <1>3 DEF IndInv

(* The flag is reset.                                                      *)
LEMMA ClearFlagInd ==
    ASSUME IndInv, NEW t \in Thread, ClearFlag(t)
    PROVE  IndInv'
<1>1. TypeOK'
  <2>1. pc' \in [Thread -> Locations]
    BY DEF IndInv, TypeOK, ClearFlag, AfterTransfer, Goto, Return, Locations
  <2>2. call' \in [Thread -> Calls] /\ buff' \in [Thread -> Data]
        /\ clean' \in [Thread -> BOOLEAN]
    <3>1. CASE call[t].isMapped = 0
      BY Zenon, <3>1 DEF IndInv, TypeOK, ClearFlag, AfterTransfer
    <3>2. CASE call[t].isMapped # 0
      BY Zenon, <3>2, ReturnType DEF IndInv, TypeOK, ClearFlag, AfterTransfer
    <3> QED
      BY Zenon, <3>1, <3>2
  <2> QED
    BY Zenon, <2>1, <2>2 DEF IndInv, TypeOK, ClearFlag, card
<1>2. QuietInv'
  BY Zenon DEF IndInv, TypeOK, QuietInv, ClearFlag, AfterTransfer, Goto, Return,
     card, InOp, AtRest, OpInv,
         PhaseInv, Calm, Busy, UsesDma, OtherEngineIdle
<1>3. ASSUME NEW u \in Thread PROVE OpInv(u)'
  <2> SUFFICES ASSUME u = t PROVE OpInv(t)'
    BY Zenon, OthersOutside DEF IndInv, TypeOK, ClearFlag, AfterTransfer, Goto,
       Return, card, InOp
  <2>1. CASE call[t].isMapped # 0
    BY Zenon, <2>1, OutsideOp DEF IndInv, TypeOK, ClearFlag, AfterTransfer, Return
  <2>2. CASE call[t].isMapped = 0
    <3>1. OpInv(t) /\ InOp(t) /\ pc[t] = "clear_flag"
      BY Zenon DEF IndInv, ClearFlag, InOp
    <3>2. /\ pc'[t] = "memcpy_back"
          /\ call'[t] = call[t] /\ clean'[t] = clean[t]
          /\ ubuf' = ubuf /\ lock' = lock
      BY Zenon, <2>2 DEF IndInv, TypeOK, ClearFlag, AfterTransfer, Goto
    <3>3. /\ UsesDma(t)' = UsesDma(t) /\ Result(t)' = Result(t)
          /\ Calm(t)' = Calm(t)
      BY Zenon, <3>2, LocalNotions DEF Calm
    <3>a. Calm(t) => AtRest'
      BY Zenon, <3>1, <3>3 DEF OpInv, PhaseInv, AtRest, Busy, OtherEngineIdle,
         ClearFlag, card
    <3>b. clean[t] => Calm(t)
      BY Zenon DEF Calm
    <3>4. RouteInv(t)'
      BY <3>1, <3>2, <3>3, <2>2, Zenon DEF OpInv, RouteInv
    <3>5. CommandInv(t)'
      BY <3>1, <3>2, <3>3, Zenon
         DEF OpInv, RouteInv, CommandInv, ClearFlag, card
    <3>6. BufferInv(t)'
      BY <3>1, <3>2, <3>3, Zenon
         DEF OpInv, RouteInv, BufferInv, ClearFlag, card
    <3>7. PhaseInv(t)'
      BY <3>1, <3>2, <3>3, <3>a, Zenon
         DEF OpInv, PhaseInv, AtRest, ClearFlag, card
    <3>8. TextInv(t)'
      BY <3>1, <3>2, <3>3, Zenon DEF OpInv, RouteInv, TextInv, Payload,
         ClearFlag, card
    <3> QED
      BY <3>1, <3>2, <3>4, <3>5, <3>6, <3>7, <3>8, Zenon DEF OpInv
  <2> QED
    BY Zenon, <2>1, <2>2
<1> QED
  BY Zenon, <1>1, <1>2, <1>3 DEF IndInv

(* The result is copied to the kernel buffer.                              *)
LEMMA MemcpyBackInd ==
    ASSUME IndInv, NEW t \in Thread, MemcpyBack(t)
    PROVE  IndInv'
<1>1. TypeOK'
  <2>1. pc' \in [Thread -> Locations]
    BY Zenon DEF IndInv, TypeOK, MemcpyBack, Goto, Locations
  <2>2. buff' \in [Thread -> Data]
    BY DEF IndInv, TypeOK, MemcpyBack, OpInv, InOp, BufferInv
  <2> QED
    BY Zenon, <2>1, <2>2 DEF IndInv, TypeOK, MemcpyBack
<1>2. QuietInv'
  BY Zenon DEF IndInv, TypeOK, QuietInv, MemcpyBack, Goto, InOp, AtRest, OpInv
<1>3. ASSUME NEW u \in Thread PROVE OpInv(u)'
  <2> SUFFICES ASSUME u = t PROVE OpInv(t)'
    BY Zenon, OthersOutside DEF IndInv, TypeOK, MemcpyBack, Goto, InOp
  <2>1. OpInv(t) /\ InOp(t) /\ pc[t] = "memcpy_back"
    BY Zenon DEF IndInv, MemcpyBack, InOp
  <2>2. /\ pc'[t] = "copy_to_user"
        /\ call'[t] = call[t] /\ clean'[t] = clean[t]
        /\ ubuf' = ubuf /\ lock' = lock
    BY Zenon DEF IndInv, TypeOK, MemcpyBack, Goto
  <2>3. /\ UsesDma(t)' = UsesDma(t) /\ Result(t)' = Result(t)
        /\ Calm(t)' = Calm(t)
    BY <2>2, LocalNotions, Zenon DEF Calm
  <2>a. buff'[t] = Payload(t)
    BY Zenon DEF IndInv, TypeOK, MemcpyBack, Payload
  <2>4. RouteInv(t)'
    BY <2>1, <2>2, <2>3, Zenon DEF OpInv, RouteInv
  <2>5. CommandInv(t)'
    BY <2>1, <2>2, <2>3, Zenon DEF OpInv, RouteInv, CommandInv, MemcpyBack
  <2>6. BufferInv(t)'
    BY <2>1, <2>2, <2>3, Zenon DEF OpInv, RouteInv, BufferInv, MemcpyBack
  <2>7. PhaseInv(t)'
    BY <2>1, <2>2, <2>3, Zenon DEF OpInv, PhaseInv, AtRest, MemcpyBack
  <2>8. TextInv(t)'
    BY <2>1, <2>2, <2>3, <2>a, Zenon DEF OpInv, RouteInv, TextInv, Payload,
       MemcpyBack
  <2> QED
    BY <2>1, <2>2, <2>4, <2>5, <2>6, <2>7, <2>8, Zenon DEF OpInv
<1> QED
  BY Zenon, <1>1, <1>2, <1>3 DEF IndInv

(* The result reaches the user, the lock is released.                      *)
LEMMA CopyToUserInd ==
    ASSUME IndInv, NEW t \in Thread, CopyToUser(t)
    PROVE  IndInv'
<1>1. TypeOK'
  <2>1. pc' \in [Thread -> Locations]
    BY Zenon DEF IndInv, TypeOK, CopyToUser, Return, Locations
  <2>2. call' \in [Thread -> Calls] /\ buff' \in [Thread -> Data]
        /\ clean' \in [Thread -> BOOLEAN]
    BY Zenon, NoCallType DEF IndInv, TypeOK, CopyToUser, Return
  <2> QED
    BY <2>1, <2>2, Zenon DEF IndInv, TypeOK, CopyToUser, card
<1>2. QuietInv'
  BY Zenon DEF IndInv, TypeOK, QuietInv, CopyToUser, Return, card, InOp, AtRest,
     OpInv,
         PhaseInv, Calm, Busy, UsesDma, OtherEngineIdle
<1>3. ASSUME NEW u \in Thread PROVE OpInv(u)'
  <2>1. CASE u = t
    BY Zenon, <2>1, OutsideOp DEF IndInv, TypeOK, CopyToUser, Return
  <2>2. CASE u # t
    BY Zenon, <2>2, OthersOutside DEF IndInv, TypeOK, CopyToUser, Return, InOp
  <2> QED
    BY Zenon, <2>1, <2>2
<1> QED
  BY Zenon, <1>1, <1>2, <1>3 DEF IndInv

(* The result cannot be stored, the lock stays taken.                      *)
LEMMA CopyToUserFaultInd ==
    ASSUME IndInv, NEW t \in Thread, CopyToUserFault(t)
    PROVE  IndInv'
<1>1. TypeOK'
  <2>1. pc' \in [Thread -> Locations]
    BY Zenon DEF IndInv, TypeOK, CopyToUserFault, Return, Locations
  <2>2. call' \in [Thread -> Calls] /\ buff' \in [Thread -> Data]
        /\ clean' \in [Thread -> BOOLEAN]
    BY Zenon, NoCallType DEF IndInv, TypeOK, CopyToUserFault, Return
  <2> QED
    BY Zenon, <2>1, <2>2 DEF IndInv, TypeOK, CopyToUserFault, card
<1>2. QuietInv'
  BY Zenon DEF IndInv, TypeOK, QuietInv, CopyToUserFault, Return, card, InOp,
     AtRest, OpInv,
         PhaseInv, Calm, Busy, UsesDma, OtherEngineIdle
<1>3. ASSUME NEW u \in Thread PROVE OpInv(u)'
  <2>1. CASE u = t
    BY Zenon, <2>1, OutsideOp DEF IndInv, TypeOK, CopyToUserFault, Return
  <2>2. CASE u # t
    BY Zenon, <2>2, OthersOutside DEF IndInv, TypeOK, CopyToUserFault, Return, InOp
  <2> QED
    BY Zenon, <2>1, <2>2
<1> QED
  BY Zenon, <1>1, <1>2, <1>3 DEF IndInv

(* A mapping writes to the card.                                           *)
LEMMA MapStoreInd ==
    ASSUME IndInv, NEW t \in Thread, MapStore(t)
    PROVE  IndInv'
<1>1. TypeOK'
  BY Zenon, PlainType DEF IndInv, TypeOK, MapStore
<1>2. QuietInv'
  BY Zenon DEF IndInv, TypeOK, QuietInv, MapStore, OwnsData, InOp, AtRest, OpInv
<1>3. ASSUME NEW u \in Thread PROVE OpInv(u)'
  <2> SUFFICES ASSUME InOp(u) PROVE OpInv(u)'
    BY Zenon DEF OpInv, InOp, MapStore
  <2>1. OpInv(u) /\ pc' = pc /\ lock' = lock
    BY Zenon DEF IndInv, MapStore
  <2>2. UsesDma(u)' = UsesDma(u) /\ Result(u)' = Result(u)
    BY LocalNotions, Zenon DEF MapStore
  <2>3. /\ clean'[u] => clean[u] /\ ~OwnsData(u)
        /\ Calm(u)' => Calm(u)
    BY Zenon DEF MapStore, Calm
  <2>4. RouteInv(u)' /\ CommandInv(u)' /\ BufferInv(u)'
    BY <2>1, <2>2, <2>3, Zenon
       DEF OpInv, RouteInv, CommandInv, BufferInv, MapStore
  <2>5. PhaseInv(u)'
    BY <2>1, <2>2, <2>3, Zenon DEF OpInv, PhaseInv, AtRest, OneToken, Busy,
       OtherEngineIdle, MapStore
  <2>6. TextInv(u)'
    BY <2>1, <2>2, <2>3, Zenon
       DEF OpInv, TextInv, OwnsData, Payload, Busy, MapStore
  <2> QED
    BY Zenon, <2>1, <2>4, <2>5, <2>6 DEF OpInv
<1> QED
  BY Zenon, <1>1, <1>2, <1>3 DEF IndInv

(* The card finishes an MMIO transfer.                                     *)
LEMMA CardFinishMmioInd ==
    ASSUME IndInv, CardFinishMmio
    PROVE  IndInv'
<1>1. TypeOK'
  <2>1. mmstatus' \in Register
    <3>1. mmstatus \in Register /\ FALSE \in BOOLEAN
      BY Zenon DEF IndInv, TypeOK
    <3> QED
      BY <3>1, RegisterType, RegisterBits, Zenon DEF CardFinishMmio
  <2>2. data' \in Data
    BY Zenon, CardCipherType, RegisterBits DEF IndInv, TypeOK, CardFinishMmio
  <2> QED
    BY Zenon, <2>1, <2>2 DEF IndInv, TypeOK, CardFinishMmio
<1>2. QuietInv'
  BY Zenon DEF IndInv, TypeOK, QuietInv, CardFinishMmio, InOp, AtRest, OpInv
<1>3. ASSUME NEW u \in Thread PROVE OpInv(u)'
  <2> SUFFICES ASSUME InOp(u) PROVE OpInv(u)'
    BY Zenon DEF OpInv, InOp, CardFinishMmio
  <2>1. OpInv(u) /\ InOp(u)'
    BY Zenon DEF IndInv, InOp, CardFinishMmio
  <2>3. CardCipher(call[u].cmd = "DECRYPT", KeyWord(call[u].a, call[u].b),
                   ubuf[u]) = Result(u)
    BY CardComputesResult, Zenon DEF IndInv
  <2>4. Result(u)' = Result(u)
    BY Zenon DEF CardFinishMmio, Result
  <2>5. RouteInv(u)' /\ CommandInv(u)' /\ lock' = u
    BY <2>1, Zenon
       DEF OpInv, CardFinishMmio, RouteInv, CommandInv, UsesDma, IndInv,
           TypeOK, Register
  <2>6. BufferInv(u)'
    BY <2>1, Zenon DEF OpInv, CardFinishMmio, BufferInv, UsesDma, Calm
  <2>7. PhaseInv(u)'
    <3> SUFFICES ASSUME Calm(u) PROVE PhaseInv(u)'
      BY Zenon DEF PhaseInv, Calm, CardFinishMmio
    <3>1. pc[u] \in {"poll_done", "wait_event"} /\ ~UsesDma(u)
      BY <2>1, Zenon DEF OpInv, InOp, PhaseInv, AtRest, OtherEngineIdle,
         CardFinishMmio, IndInv, TypeOK, Locations
    <3>2. /\ ~mmstatus'.busy /\ dmacmd' = dmacmd /\ ~dmacmd.busy
          /\ UsesDma(u)' = UsesDma(u)
      BY <2>1, <3>1, Zenon
         DEF OpInv, PhaseInv, OneToken, OtherEngineIdle, UsesDma,
             CardFinishMmio
    <3>3. isr = {} /\ irqpc = "idle" /\ wq_flag = 0
      BY Zenon, <2>1, <3>1 DEF OpInv, PhaseInv, OneToken, Busy, CardFinishMmio
    <3>4. CASE pc[u] = "poll_done"
      <4>a. call[u].interrupt = 0
        BY <2>1, <3>4, Zenon DEF OpInv, RouteInv
      <4>1. call[u].interrupt # 1
        BY <4>a
      <4>2. mmstatus.irq = (call[u].interrupt = 1)
        BY <2>1, <3>1, <3>4, Zenon DEF OpInv, CommandInv
      <4>3. ~mmstatus.irq
        BY <4>1, <4>2, Zenon
      <4> QED
        BY Zenon, <3>2, <3>3, <3>4, <4>3 DEF PhaseInv, OtherEngineIdle,
           CardFinishMmio
    <3>5. CASE pc[u] = "wait_event"
      <4>1. mmstatus.irq
        BY <2>1, <3>1, <3>5, Zenon DEF OpInv, RouteInv, CommandInv
      <4>2. isr' # {}
        BY Zenon, <4>1 DEF CardFinishMmio
      <4> QED
        BY Zenon, <3>1, <3>2, <3>3, <3>5, <4>2 DEF PhaseInv, OtherEngineIdle,
           OneToken, Busy, CardFinishMmio
    <3> QED
      BY Zenon, <3>1, <3>4, <3>5
  <2>8. TextInv(u)'
    <3> SUFFICES ASSUME clean[u], call[u].isMapped = 0 PROVE TextInv(u)'
      BY Zenon DEF TextInv, CardFinishMmio
    <3>1. pc[u] \in {"poll_done", "wait_event"} /\ ~UsesDma(u) /\ Busy(u)
      BY <2>1, Zenon
         DEF OpInv, InOp, PhaseInv, Calm, AtRest, OtherEngineIdle, Busy,
             CardFinishMmio, IndInv, TypeOK, Locations
    <3>2. Payload(u) = ubuf[u]
      BY <2>1, <3>1, Zenon DEF OpInv, TextInv
    <3>3. /\ mmstatus.decrypt = (call[u].cmd = "DECRYPT")
          /\ key = KeyWord(call[u].a, call[u].b)
      BY <2>1, <3>1, Zenon DEF OpInv, CommandInv
    <3>5. data' = Result(u)
      BY <2>3, <3>1, <3>2, <3>3, Zenon DEF Payload, CardFinishMmio
    <3>6. Payload(u)' = Result(u)' /\ ~Busy(u)'
      BY <2>4, <3>1, <3>5, Zenon DEF Payload, Busy, UsesDma, CardFinishMmio
    <3>7. pc'[u] \in {"poll_done", "wait_event"}
      BY Zenon, <3>1 DEF CardFinishMmio
    <3> QED
      BY Zenon, <3>6, <3>7 DEF TextInv
  <2> QED
    BY Zenon, <2>5, <2>6, <2>7, <2>8 DEF OpInv
<1> QED
  BY Zenon, <1>1, <1>2, <1>3 DEF IndInv

(* The card finishes a DMA transfer.                                       *)
LEMMA CardFinishDmaInd ==
    ASSUME IndInv, CardFinishDma
    PROVE  IndInv'
<1>1. TypeOK'
  <2>1. dmacmd' \in Register
    <3>1. dmacmd \in Register /\ FALSE \in BOOLEAN
      BY Zenon DEF IndInv, TypeOK
    <3> QED
      BY <3>1, RegisterType, RegisterBits, Zenon DEF CardFinishDma
  <2>2. dmabuf' \in [Thread -> Data \cup {None}]
    BY Zenon, CardCipherType, RegisterBits DEF IndInv, TypeOK, CardFinishDma
  <2> QED
    BY Zenon, <2>1, <2>2 DEF IndInv, TypeOK, CardFinishDma
<1>2. QuietInv'
  BY Zenon DEF IndInv, TypeOK, QuietInv, CardFinishDma, InOp, AtRest, OpInv
<1>3. ASSUME NEW u \in Thread PROVE OpInv(u)'
  <2> SUFFICES ASSUME InOp(u) PROVE OpInv(u)'
    BY Zenon DEF OpInv, InOp, CardFinishDma
  <2>1. OpInv(u) /\ InOp(u)'
    BY Zenon DEF IndInv, InOp, CardFinishDma
  <2>3. CardCipher(call[u].cmd = "DECRYPT", KeyWord(call[u].a, call[u].b),
                   ubuf[u]) = Result(u)
    BY Zenon, CardComputesResult DEF IndInv
  <2>4. Result(u)' = Result(u)
    BY Zenon DEF CardFinishDma, Result
  <2>5. RouteInv(u)' /\ CommandInv(u)' /\ lock' = u
    BY <2>1, Zenon
       DEF OpInv, CardFinishDma, RouteInv, CommandInv, UsesDma, IndInv,
           TypeOK, Register
  <2>6. BufferInv(u)'
    <3>1. dmabuf[u] # None => dmabuf'[u] # None
      <4> SUFFICES ASSUME dmabuf[u] # None PROVE dmabuf'[u] # None
        BY Zenon
      <4>1. dmabuf[u] \in Data /\ dmacmd.decrypt \in BOOLEAN /\ key \in Nat
        BY Zenon, RegisterBits DEF IndInv, TypeOK
      <4>2. CardCipher(dmacmd.decrypt, key, dmabuf[u]) # None
        BY Zenon, <4>1, CardCipherType, NoneAssumption
      <4> QED
        BY Zenon, <4>2 DEF CardFinishDma
    <3> QED
      BY <2>1, <3>1, Zenon DEF OpInv, CardFinishDma, BufferInv, UsesDma, Calm
  <2>7. PhaseInv(u)'
    <3> SUFFICES ASSUME Calm(u) PROVE PhaseInv(u)'
      BY Zenon DEF PhaseInv, Calm, CardFinishDma
    <3>1. pc[u] \in {"poll_done", "wait_event"} /\ UsesDma(u)
      BY <2>1, Zenon DEF OpInv, InOp, PhaseInv, AtRest, OtherEngineIdle,
         CardFinishDma, IndInv, TypeOK, Locations
    <3>2. /\ ~dmacmd'.busy /\ mmstatus' = mmstatus /\ ~mmstatus.busy
          /\ UsesDma(u)' = UsesDma(u)
      BY <2>1, <3>1, Zenon
         DEF OpInv, PhaseInv, OneToken, OtherEngineIdle, UsesDma,
             CardFinishDma
    <3>3. isr = {} /\ irqpc = "idle" /\ wq_flag = 0
      BY <2>1, <3>1, Zenon DEF OpInv, PhaseInv, OneToken, Busy, CardFinishDma
    <3>4. CASE pc[u] = "poll_done"
      <4>a. call[u].interrupt = 0
        BY <2>1, <3>4, Zenon DEF OpInv, RouteInv
      <4>1. call[u].interrupt # 1
        BY <4>a
      <4>2. dmacmd.irq = (call[u].interrupt = 1)
        BY <2>1, <3>1, <3>4, Zenon DEF OpInv, CommandInv
      <4>3. ~dmacmd.irq
        BY <4>1, <4>2, Zenon
      <4> QED
        BY <3>2, <3>3, <3>4, <4>3, Zenon
           DEF PhaseInv, OtherEngineIdle, CardFinishDma
    <3>5. CASE pc[u] = "wait_event"
      <4>1. dmacmd.irq
        BY <2>1, <3>1, <3>5, Zenon DEF OpInv, RouteInv, CommandInv
      <4>2. isr' # {}
        BY Zenon, <4>1 DEF CardFinishDma
      <4> QED
        BY <3>1, <3>2, <3>3, <3>5, <4>2, Zenon DEF PhaseInv, OtherEngineIdle,
           OneToken, Busy, CardFinishDma
    <3> QED
      BY Zenon, <3>1, <3>4, <3>5
  <2>8. TextInv(u)'
    <3> SUFFICES ASSUME clean[u], call[u].isMapped = 0 PROVE TextInv(u)'
      BY Zenon DEF TextInv, CardFinishDma
    <3>1. pc[u] \in {"poll_done", "wait_event"} /\ UsesDma(u) /\ Busy(u)
      BY <2>1, Zenon
         DEF OpInv, InOp, PhaseInv, Calm, AtRest, OtherEngineIdle, Busy,
             CardFinishDma, IndInv, TypeOK, Locations
    <3>2. Payload(u) = ubuf[u]
      BY <2>1, <3>1, Zenon DEF OpInv, TextInv
    <3>3. /\ dmacmd.decrypt = (call[u].cmd = "DECRYPT")
          /\ key = KeyWord(call[u].a, call[u].b)
      BY <2>1, <3>1, Zenon DEF OpInv, CommandInv
    <3>4. dmaaddr = u /\ dmabuf[u] # None
      BY Zenon, <2>1, <3>1 DEF OpInv, BufferInv, Calm
    <3>5. dmabuf'[u] = Result(u)
      BY <2>3, <3>1, <3>2, <3>3, <3>4, Zenon DEF Payload, CardFinishDma
    <3>6. Payload(u)' = Result(u)' /\ ~Busy(u)'
      BY <2>4, <3>1, <3>5, Zenon DEF Payload, Busy, UsesDma, CardFinishDma
    <3>7. pc'[u] \in {"poll_done", "wait_event"}
      BY <3>1, Zenon DEF CardFinishDma
    <3> QED
      BY Zenon, <3>6, <3>7 DEF TextInv
  <2> QED
    BY Zenon, <2>5, <2>6, <2>7, <2>8 DEF OpInv
<1> QED
  BY Zenon, <1>1, <1>2, <1>3 DEF IndInv

(* The handler acknowledges the interrupt.                                 *)
LEMMA IrqAckInd ==
    ASSUME IndInv, IrqAck
    PROVE  IndInv'
<1>1. TypeOK'
  BY Zenon DEF IndInv, TypeOK, IrqAck
<1>2. QuietInv'
  BY Zenon DEF IndInv, TypeOK, QuietInv, IrqAck, InOp, AtRest, OpInv
<1>3. ASSUME NEW u \in Thread PROVE OpInv(u)'
  <2> SUFFICES ASSUME InOp(u) PROVE OpInv(u)'
    BY Zenon DEF OpInv, InOp, IrqAck
  <2>1. OpInv(u) /\ pc' = pc /\ clean' = clean /\ lock' = lock
    BY Zenon DEF IndInv, IrqAck
  <2>2. /\ UsesDma(u)' = UsesDma(u) /\ Result(u)' = Result(u)
        /\ Calm(u)' = Calm(u)
    BY Zenon, LocalNotions DEF Calm, IrqAck
  <2>3. Busy(u)' = Busy(u) /\ Payload(u)' = Payload(u)
    BY Zenon, <2>2 DEF Busy, Payload, IrqAck
  <2>4. RouteInv(u)' /\ CommandInv(u)' /\ BufferInv(u)'
    BY <2>1, <2>2, Zenon DEF OpInv, RouteInv, CommandInv, BufferInv, IrqAck
  <2>5. PhaseInv(u)'
    BY Zenon, <2>1, <2>2, <2>3 DEF OpInv, PhaseInv, AtRest, OneToken,
       OtherEngineIdle, IrqAck
  <2>6. TextInv(u)'
    BY <2>1, <2>2, <2>3, Zenon DEF OpInv, TextInv, IrqAck
  <2> QED
    BY Zenon, <2>1, <2>4, <2>5, <2>6 DEF OpInv
<1> QED
  BY Zenon, <1>1, <1>2, <1>3 DEF IndInv

(* The handler sets the flag.                                              *)
LEMMA IrqWakeInd ==
    ASSUME IndInv, IrqWake
    PROVE  IndInv'
<1>1. TypeOK'
  BY Zenon DEF IndInv, TypeOK, IrqWake, card
<1>2. QuietInv'
  BY Zenon DEF IndInv, TypeOK, QuietInv, IrqWake, card, InOp, AtRest, OpInv
<1>3. ASSUME NEW u \in Thread PROVE OpInv(u)'
  <2> SUFFICES ASSUME InOp(u) PROVE OpInv(u)'
    BY Zenon DEF OpInv, InOp, IrqWake
  <2>1. OpInv(u) /\ pc' = pc /\ clean' = clean /\ lock' = lock
    BY Zenon DEF IndInv, IrqWake
  <2>2. /\ UsesDma(u)' = UsesDma(u) /\ Result(u)' = Result(u)
        /\ Calm(u)' = Calm(u)
    BY Zenon, LocalNotions DEF Calm, IrqWake
  <2>3. Busy(u)' = Busy(u) /\ Payload(u)' = Payload(u)
    BY Zenon, <2>2 DEF Busy, Payload, IrqWake, card
  <2>4. RouteInv(u)' /\ CommandInv(u)' /\ BufferInv(u)'
    BY <2>1, <2>2, Zenon
       DEF OpInv, RouteInv, CommandInv, BufferInv, IrqWake, card
  <2>5. PhaseInv(u)'
    BY Zenon, <2>1, <2>2, <2>3 DEF OpInv, PhaseInv, AtRest, OneToken,
       OtherEngineIdle, IrqWake, card
  <2>6. TextInv(u)'
    BY <2>1, <2>2, <2>3, Zenon DEF OpInv, TextInv, IrqWake, card
  <2> QED
    BY Zenon, <2>1, <2>4, <2>5, <2>6 DEF OpInv
<1> QED
  BY Zenon, <1>1, <1>2, <1>3 DEF IndInv

-----------------------------------------------------------------------------
(* Every step keeps the invariant.                                         *)
LEMMA StepInd == IndInv /\ [Next]_vars => IndInv'
<1> SUFFICES ASSUME IndInv, [Next]_vars PROVE IndInv'
  BY Zenon
<1>1. ASSUME NEW t \in Thread, Program(t) PROVE IndInv'
  BY Zenon, <1>1, SetKeyAInd, SetConfigInd, EnterOpInd, MapStoreInd, InterruptedInd
     DEF Program
<1>2. ASSUME NEW t \in Thread, Run(t) PROVE IndInv'
  BY Zenon, <1>2, SetKeyBInd, ReadConfigInd, SetStatusInd, MemcpyToIoInd,
     DmaSetupInd, PollFreeInd, TriggerInd, PollDoneInd, ClearFlagInd,
     MemcpyBackInd, CopyToUserInd, CopyToUserFaultInd DEF Run
<1>3. ASSUME Hardware PROVE IndInv'
  BY Zenon, <1>3, CardFinishMmioInd, CardFinishDmaInd, IrqAckInd, IrqWakeInd
     DEF Hardware
<1>4. CASE UNCHANGED vars
  <2>1. TypeOK'
    BY Zenon, <1>4 DEF vars, card, IndInv, TypeOK
  <2>2. QuietInv'
    BY Zenon, <1>4 DEF vars, card, IndInv, QuietInv, InOp, AtRest
  <2>3. ASSUME NEW u \in Thread PROVE OpInv(u)'
    BY <1>4, OpInvFramed, Zenon DEF vars, card
  <2> QED
    BY Zenon, <2>1, <2>2, <2>3 DEF IndInv
<1> QED
  BY Zenon, <1>1, <1>2, <1>3, <1>4, SpinLockInd, WaitEventInd DEF Next

(* IndInv holds in every reachable state.                                  *)
THEOREM Invariance == Spec => []IndInv
  BY InitInd, StepInd, PTL DEF Spec

(* Every variable of the driver and the card keeps its type; in particular *)
(* no freed DMA buffer is ever copied to a user.                           *)
THEOREM TypeCorrect == Spec => []TypeOK
<1>1. IndInv => TypeOK
  BY Zenon DEF IndInv
<1> QED
  BY <1>1, Invariance, PTL

(* cc_spinlock lets one operation at a time program the card, whatever     *)
(* signals, faults and returns without unlock happen.                      *)
THEOREM LockExcludes == Spec => []MutualExclusion
<1>1. IndInv => MutualExclusion
  BY Zenon DEF IndInv, OpInv, MutualExclusion
<1> QED
  BY <1>1, Invariance, PTL

(* A call that found the card at rest and was left alone returns the       *)
(* cipher of its user's buffer, in every mode, for any environment.        *)
THEOREM CleanCallsCorrect == Spec => []CleanCallIsCorrect
<1>1. IndInv => CleanCallIsCorrect
  BY Zenon
     DEF IndInv, OpInv, InOp, RouteInv, TextInv, Result, CleanCallIsCorrect
<1> QED
  BY <1>1, Invariance, PTL

(* Where no signal interrupts a wait, the lock is free only while the card *)
(* is at rest: operations hand over a clean card.                          *)
THEOREM QuietHandover ==
    ASSUME Signalled = {} PROVE Spec => []FreeMeansAtRest
<1>1. IndInv => FreeMeansAtRest
  BY Zenon, NoneAssumption DEF IndInv, QuietInv, OpInv, FreeMeansAtRest
<1> QED
  BY <1>1, Invariance, PTL

(* Where no signal interrupts a wait, the card works only on DMA buffers   *)
(* that are allocated.                                                     *)
THEOREM QuietDma ==
    ASSUME Signalled = {} PROVE Spec => []DmaTargetAllocated
<1>1. IndInv => DmaTargetAllocated
  <2> SUFFICES ASSUME IndInv, dmacmd.busy
               PROVE  dmaaddr \in Thread /\ dmabuf[dmaaddr] # None
    BY Zenon DEF DmaTargetAllocated
  <2>1. PICK t \in Thread : InOp(t)
    BY Zenon DEF IndInv, QuietInv, AtRest
  <2>2. UsesDma(t) /\ pc[t] \in {"poll_done", "wait_event"}
    BY Zenon, <2>1 DEF IndInv, TypeOK, Locations, OpInv, InOp, PhaseInv, Calm,
       AtRest,
       OtherEngineIdle
  <2> QED
    BY Zenon, <2>1, <2>2 DEF IndInv, OpInv, BufferInv, Calm
<1> QED
  BY <1>1, Invariance, PTL

(* Where no signal interrupts a wait, no wait ends before its transfer.    *)
THEOREM QuietResults ==
    ASSUME Signalled = {} PROVE Spec => []ResultIsReady
<1>1. IndInv => ResultIsReady
  BY Zenon
     DEF IndInv, OpInv, InOp, PhaseInv, Calm, AtRest, Busy, ResultIsReady
<1> QED
  BY <1>1, Invariance, PTL

-----------------------------------------------------------------------------
(* Without signals, faults and mappings every operation is a clean one.    *)
AllClean == \A t \in Thread : InOp(t) => clean[t]

LEMMA AllCleanStep ==
    ASSUME Signalled = {}, MapUsers = {}, CopyFaults = FALSE,
           IndInv, AllClean, [Next]_vars
    PROVE  AllClean'
<1>1. ASSUME NEW t \in Thread, Program(t) PROVE AllClean'
  BY <1>1, Zenon
     DEF Program, SetKeyA, SetConfig, EnterOp, MapStore, Interrupted, Goto,
         AllClean, InOp, IndInv, TypeOK
<1>2. ASSUME NEW t \in Thread, SpinLock(t) PROVE AllClean'
  <2>1. AtRest
    BY <1>2, NoneAssumption, Zenon DEF SpinLock, IndInv, OpInv, QuietInv
  <2> QED
    BY Zenon, <1>2, <2>1 DEF SpinLock, Goto, AllClean, InOp, IndInv, TypeOK
<1>3. ASSUME NEW t \in Thread, WaitEvent(t) PROVE AllClean'
  BY Zenon, <1>3 DEF WaitEvent, Goto, AllClean, InOp, IndInv, TypeOK
<1>4. ASSUME NEW t \in Thread, Run(t) PROVE AllClean'
  <2>1. ASSUME SetKeyB(t) \/ CopyToUser(t) \/ CopyToUserFault(t)
        PROVE  AllClean'
    BY Zenon, <2>1 DEF SetKeyB, CopyToUser, CopyToUserFault, Return, AllClean, InOp,
       IndInv, TypeOK
  <2>2. ASSUME PollDone(t) \/ ClearFlag(t) PROVE AllClean'
    BY Zenon, <2>2 DEF PollDone, ClearFlag, AfterTransfer, Goto, Return, AllClean,
       InOp, IndInv, TypeOK
  <2>3. ASSUME ReadConfig(t) PROVE AllClean'
    BY Zenon, <2>3 DEF ReadConfig, Goto, AllClean, InOp, IndInv, TypeOK
  <2>4. ASSUME \/ SetStatus(t) \/ MemcpyToIo(t) \/ DmaSetup(t)
               \/ PollFree(t) \/ Trigger(t) \/ MemcpyBack(t)
        PROVE  AllClean'
    BY <2>4, Zenon DEF SetStatus, MemcpyToIo, DmaSetup, PollFree, Trigger,
       MemcpyBack,
       Goto, AllClean, InOp, IndInv, TypeOK
  <2> QED
    BY Zenon, <1>4, <2>1, <2>2, <2>3, <2>4 DEF Run
<1>5. ASSUME Hardware \/ UNCHANGED vars PROVE AllClean'
  BY Zenon, <1>5 DEF Hardware, CardFinishMmio, CardFinishDma, IrqAck, IrqWake, vars,
     AllClean, InOp
<1> QED
  BY Zenon, <1>1, <1>2, <1>3, <1>4, <1>5 DEF Next

(* Where no signal interrupts a wait, no copy faults and nobody stores     *)
(* through a mapping, every ENCRYPT and DECRYPT is answered correctly, for *)
(* any number of concurrent callers and any mix of modes.                  *)
THEOREM QuietCallsCorrect ==
    ASSUME Signalled = {}, MapUsers = {}, CopyFaults = FALSE
    PROVE  Spec => []EveryCallIsCorrect
<1>1. Init => AllClean
  BY Zenon DEF Init, AllClean, InOp
<1>2. IndInv /\ AllClean /\ [Next]_vars => AllClean'
  BY AllCleanStep, Zenon
<1>3. IndInv /\ AllClean => EveryCallIsCorrect
  BY Zenon DEF IndInv, AllClean, OpInv, InOp, RouteInv, TextInv, Result,
     EveryCallIsCorrect
<1> QED
  BY <1>1, <1>2, <1>3, Invariance, PTL DEF Spec

(* Where no signal interrupts a wait and nobody stores through a mapping,  *)
(* nothing a running transfer works on is changed before it finishes.      *)
THEOREM QuietTransfers ==
    ASSUME Signalled = {}, MapUsers = {}
    PROVE  Spec => TransferUndisturbed
<1> DEFINE A == /\ mmstatus.busy /\ mmstatus'.busy
                    => UNCHANGED <<key, mmstatus, data>>
                /\ dmacmd.busy /\ dmacmd'.busy
                    => UNCHANGED <<key, dmacmd, dmaaddr, dmabuf>>
<1>1. IndInv /\ [Next]_vars => A
  <2> SUFFICES ASSUME IndInv, [Next]_vars, mmstatus.busy \/ dmacmd.busy
               PROVE  A
    BY Zenon
  <2>1. PICK u \in Thread :
            /\ InOp(u)
            /\ pc[u] \in {"poll_done", "wait_event"}
            /\ IF UsesDma(u) THEN ~mmstatus.busy ELSE ~dmacmd.busy
    BY Zenon DEF IndInv, TypeOK, Locations, QuietInv, OpInv, InOp, PhaseInv, Calm,
       AtRest, OtherEngineIdle
  <2>2. \A t \in Thread : InOp(t) => t = u
    BY Zenon, <2>1 DEF IndInv, OpInv
  <2>3. ASSUME NEW t \in Thread, Program(t) PROVE A
    BY <2>3, Zenon
       DEF Program, SetKeyA, SetConfig, EnterOp, MapStore, Interrupted, card
  <2>4. ASSUME NEW t \in Thread, SpinLock(t) \/ WaitEvent(t) PROVE A
    BY <2>4, Zenon DEF SpinLock, WaitEvent, card
  <2>5. ASSUME NEW t \in Thread, Run(t) PROVE A
    <3>1. CASE InOp(t)
      BY <2>1, <2>2, <2>5, <3>1, Zenon
         DEF Run, SetKeyB, ReadConfig, SetStatus, MemcpyToIo, DmaSetup,
             PollFree, Trigger, PollDone, ClearFlag, MemcpyBack, CopyToUser,
             CopyToUserFault, card
    <3>2. CASE ~InOp(t)
      BY <2>5, <3>2, Zenon
         DEF Run, SetKeyB, ReadConfig, SetStatus, MemcpyToIo, DmaSetup,
             PollFree, Trigger, PollDone, ClearFlag, MemcpyBack, CopyToUser,
             CopyToUserFault, card, InOp
    <3> QED
      BY Zenon, <3>1, <3>2
  <2>6. ASSUME Hardware PROVE A
    BY <2>1, <2>6 DEF Hardware, CardFinishMmio, CardFinishDma, IrqAck,
       IrqWake,
       card
  <2>7. CASE UNCHANGED vars
    BY Zenon, <2>7 DEF vars
  <2> QED
    BY Zenon, <2>3, <2>4, <2>5, <2>6, <2>7 DEF Next
<1> QED
  BY <1>1, Invariance, PTL DEF Spec, TransferUndisturbed

-----------------------------------------------------------------------------
(* The driver implements CipherService, for any number of threads.         *)

\* Threads use files of their own, nothing interrupts a wait, copies do not
\* fault and the card is not mapped.
Undisturbed ==
    /\ \A t, u \in Thread : HandleOf[t] = HandleOf[u] => t = u
    /\ Signalled = {} /\ MapUsers = {} /\ CopyFaults = FALSE
    /\ \A t \in Thread : OpCalls[t] \subseteq {"ENCRYPT", "DECRYPT"} \X {0}

\* A call works with the key of its file, which cannot change under it.
KeyInv(t) ==
    /\ pc[t] \notin {"user", "set_key_b"}
        => call[t].cmd \in {"ENCRYPT", "DECRYPT"} /\ call[t].isMapped = 0
    /\ InOp(t) => call[t].a = config[HandleOf[t]].a
    /\ InOp(t) /\ pc[t] # "read_config" => call[t].b = config[HandleOf[t]].b

ServiceInv == IndInv /\ AllClean /\ \A t \in Thread : KeyInv(t)

(* Each step keeps the key invariant: only the file's own thread writes    *)
(* its key, and not while it is in an operation.                           *)
LEMMA KeyInvStep ==
    ASSUME Undisturbed, ServiceInv, [Next]_vars, NEW u \in Thread
    PROVE  KeyInv(u)'
<1> USE DEF KeyInv, InOp
<1>1. KeyInv(u) /\ TypeOK
  BY Zenon DEF ServiceInv, IndInv
<1>2. ASSUME NEW t \in Thread, SetKeyA(t) \/ SetKeyB(t) \/ SetConfig(t)
      PROVE  KeyInv(u)'
  BY <1>1, <1>2, ConstantsAssumption
     DEF Undisturbed, SetKeyA, SetKeyB, SetConfig, Goto, Return, Setting,
         TypeOK
<1>3. ASSUME NEW t \in Thread, EnterOp(t) PROVE KeyInv(u)'
  BY <1>1, <1>3 DEF Undisturbed, EnterOp, Goto, Frame, TypeOK
<1>4. ASSUME NEW t \in Thread, SpinLock(t) PROVE KeyInv(u)'
  BY Zenon, <1>1, <1>4 DEF SpinLock, Goto, Frame, TypeOK
<1>5. ASSUME NEW t \in Thread, ReadConfig(t) PROVE KeyInv(u)'
  BY Zenon, <1>1, <1>5 DEF ReadConfig, Goto, Frame, TypeOK
<1>6. ASSUME NEW t \in Thread,
             CopyToUser(t) \/ CopyToUserFault(t) \/ PollDone(t) \/ ClearFlag(t)
      PROVE  KeyInv(u)'
  BY <1>1, <1>6 DEF CopyToUser, CopyToUserFault, PollDone, ClearFlag,
     AfterTransfer, Goto, Return, TypeOK
<1>7. ASSUME NEW t \in Thread,
             \/ SetStatus(t) \/ MemcpyToIo(t) \/ DmaSetup(t) \/ PollFree(t)
             \/ Trigger(t) \/ MemcpyBack(t) \/ WaitEvent(t) \/ Interrupted(t)
      PROVE  KeyInv(u)'
  BY Zenon, <1>1, <1>7 DEF SetStatus, MemcpyToIo, DmaSetup, PollFree, Trigger,
     MemcpyBack, WaitEvent, Interrupted, Goto, TypeOK
<1>8. ASSUME Hardware \/ UNCHANGED vars \/ \E t \in Thread : MapStore(t)
      PROVE  KeyInv(u)'
  BY Zenon, <1>1, <1>8 DEF Hardware, CardFinishMmio, CardFinishDma, IrqAck, IrqWake,
     vars, MapStore
<1> QED
  BY Zenon, <1>2, <1>3, <1>4, <1>5, <1>6, <1>7, <1>8 DEF Next, Program, Run

(* At most one thread is setting the key of a file.                        *)
LEMMA SettingKeyIs ==
    ASSUME Undisturbed, TypeOK, NEW t \in Thread, pc[t] = "set_key_b"
    PROVE  /\ SettingKey(HandleOf[t]) = {t}
           /\ \A h \in Handle : h # HandleOf[t] => t \notin SettingKey(h)
  BY Zenon DEF Undisturbed, SettingKey

(* The abstract keys change only with the key bytes of a file or with a    *)
(* SET_KEY that is under way.                                              *)
LEMMA KeysUnchanged ==
    ASSUME \A h \in Handle : /\ config'[h].a = config[h].a
                             /\ config'[h].b = config[h].b,
           \A v \in Thread : (pc'[v] = "set_key_b") <=> (pc[v] = "set_key_b"),
           \A v \in Thread : pc[v] = "set_key_b" => call'[v] = call[v]
    PROVE  serviceKeys' = serviceKeys
<1> SUFFICES ASSUME NEW h \in Handle PROVE KeyPair(h)' = KeyPair(h)
  BY Zenon DEF serviceKeys
<1>1. SettingKey(h)' = SettingKey(h)
  BY Zenon DEF SettingKey
<1>2. Setter(h)' = Setter(h)
  BY Zenon, <1>1 DEF Setter
<1>3. CASE SettingKey(h) = {}
  BY Zenon, <1>1, <1>3 DEF KeyPair, SecondByte
<1>4. CASE SettingKey(h) # {}
  <2>1. Setter(h) \in SettingKey(h)
    BY Zenon, <1>4 DEF Setter
  <2>2. call'[Setter(h)] = call[Setter(h)]
    BY Zenon, <2>1 DEF SettingKey
  <2> QED
    BY Zenon, <1>1, <1>2, <1>4, <2>2 DEF KeyPair, SecondByte
<1> QED
  BY Zenon, <1>3, <1>4

(* Steps that touch neither a key, nor a user's buffer, nor the set of     *)
(* threads that wait for an operation are invisible to the service.        *)
LEMMA Stutters ==
    ASSUME TypeOK, TypeOK', config' = config, ubuf' = ubuf,
           \A v \in Thread : \/ pc'[v] = pc[v] /\ call'[v] = call[v]
                             \/ /\ pc[v] \notin {"user", "set_key_b"}
                                /\ pc'[v] \notin {"user", "set_key_b"}
                                /\ call'[v].cmd = call[v].cmd
    PROVE  UNCHANGED <<ubuf, serviceKeys, servicePending>>
<1>1. serviceKeys' = serviceKeys
  BY Zenon, KeysUnchanged
<1>2. servicePending' = servicePending
  BY Zenon DEF servicePending
<1> QED
  BY Zenon, <1>1, <1>2

(* SET_KEY takes effect at its first store ...                             *)
LEMMA SetKeyASimulates ==
    ASSUME Undisturbed, ServiceInv, NEW t \in Thread, SetKeyA(t)
    PROVE  Service!SetKey(t)
<1>1. TypeOK /\ HandleOf[t] \in Handle
  BY Zenon, ConstantsAssumption DEF ServiceInv, IndInv
<1>2. PICK k \in KeyCalls[t] :
        /\ config' = [config EXCEPT ![HandleOf[t]] =
              Setting(k[1], config[HandleOf[t]].b, config[HandleOf[t]].dma,
                      config[HandleOf[t]].interrupt,
                      config[HandleOf[t]].isKeyset)]
        /\ call' = [call EXCEPT ![t] = Frame("SET_KEY", 0, k[1], k[2], 0, 0)]
  BY Zenon DEF SetKeyA
<1>3. k \in Byte \X Byte /\ k = <<k[1], k[2]>>
  BY ConstantsAssumption
<1>4. /\ pc[t] = "user" /\ pc' = [pc EXCEPT ![t] = "set_key_b"]
      /\ ubuf' = ubuf
  BY Zenon DEF SetKeyA, Goto
<1>5. SettingKey(HandleOf[t])' = {t}
  BY Zenon, <1>1, <1>4 DEF Undisturbed, SettingKey, TypeOK
<1>6. ASSUME NEW h \in Handle, h # HandleOf[t]
      PROVE  KeyPair(h)' = KeyPair(h)
  <2>1. SettingKey(h)' = SettingKey(h) /\ t \notin SettingKey(h)
    BY Zenon, <1>1, <1>4, <1>6 DEF SettingKey, TypeOK
  <2>2. Setter(h)' = Setter(h)
    BY Zenon, <2>1 DEF Setter
  <2>3. config'[h] = config[h]
    BY Zenon, <1>1, <1>2, <1>6 DEF TypeOK
  <2>4. CASE SettingKey(h) = {}
    BY Zenon, <2>1, <2>3, <2>4 DEF KeyPair, SecondByte
  <2>5. CASE SettingKey(h) # {}
    <3>1. Setter(h) \in SettingKey(h)
      BY Zenon, <2>5 DEF Setter
    <3>2. Setter(h) \in Thread \ {t}
      BY Zenon, <2>1, <3>1 DEF SettingKey
    <3>3. call'[Setter(h)] = call[Setter(h)]
      BY Zenon, <1>1, <1>2, <3>2 DEF TypeOK
    <3> QED
      BY Zenon, <2>1, <2>2, <2>3, <2>5, <3>3 DEF KeyPair, SecondByte
  <2> QED
    BY Zenon, <2>4, <2>5
<1>7. KeyPair(HandleOf[t])' = k
  <2>1. config'[HandleOf[t]].a = k[1]
    BY Zenon, <1>1, <1>2 DEF TypeOK, Setting
  <2>2. call'[t].b = k[2]
    BY Zenon, <1>1, <1>2 DEF TypeOK, Frame
  <2>3. Setter(HandleOf[t])' = t
    BY Zenon, <1>5 DEF Setter
  <2> QED
    BY Zenon, <1>3, <1>5, <2>1, <2>2, <2>3 DEF KeyPair, SecondByte
<1>8. serviceKeys' = [serviceKeys EXCEPT ![HandleOf[t]] = k]
  BY <1>1, <1>6, <1>7, Zenon DEF serviceKeys
<1>9. servicePending' = servicePending /\ servicePending[t] = "none"
  BY Zenon, <1>1, <1>2, <1>4 DEF servicePending, TypeOK
<1> QED
  BY <1>4, <1>8, <1>9, Zenon DEF Service!SetKey

(* ... so that the second store changes nothing the service shows.         *)
LEMMA SetKeyBStutters ==
    ASSUME Undisturbed, ServiceInv, NEW t \in Thread, SetKeyB(t)
    PROVE  UNCHANGED <<ubuf, serviceKeys, servicePending>>
<1>1. TypeOK /\ HandleOf[t] \in Handle
  BY Zenon, ConstantsAssumption DEF ServiceInv, IndInv
<1>2. /\ pc[t] = "set_key_b" /\ pc' = [pc EXCEPT ![t] = "user"]
      /\ call' = [call EXCEPT ![t] = NoCall]
      /\ ubuf' = ubuf
  BY Zenon DEF SetKeyB, Return
<1>3. config' = [config EXCEPT ![HandleOf[t]] =
            Setting(config[HandleOf[t]].a, call[t].b, config[HandleOf[t]].dma,
                    config[HandleOf[t]].interrupt, 1)]
  BY Zenon DEF SetKeyB
<1>4. ASSUME NEW h \in Handle PROVE KeyPair(h)' = KeyPair(h)
  <2>1. CASE h = HandleOf[t]
    <3>1. SettingKey(h) = {t} /\ SettingKey(h)' = {}
      BY Zenon, <1>1, <1>2, <2>1 DEF Undisturbed, SettingKey, TypeOK
    <3>2. Setter(h) = t
      BY Zenon, <3>1 DEF Setter
    <3>3. config'[h].a = config[h].a /\ config'[h].b = call[t].b
      BY Zenon, <1>1, <1>3, <2>1 DEF TypeOK, Setting
    <3> QED
      BY Zenon, <3>1, <3>2, <3>3 DEF KeyPair, SecondByte
  <2>2. CASE h # HandleOf[t]
    <3>1. SettingKey(h)' = SettingKey(h) /\ t \notin SettingKey(h)
      BY Zenon, <1>1, <1>2, <2>2 DEF SettingKey, TypeOK
    <3>2. Setter(h)' = Setter(h) /\ config'[h] = config[h]
      BY Zenon, <1>1, <1>3, <2>2, <3>1 DEF Setter, TypeOK
    <3>3. SettingKey(h) # {} => call'[Setter(h)] = call[Setter(h)]
      <4>1. SettingKey(h) # {} => Setter(h) \in SettingKey(h)
        BY Zenon DEF Setter
      <4> QED
        BY Zenon, <1>1, <1>2, <3>1, <4>1 DEF SettingKey, TypeOK
    <3> QED
      BY Zenon, <3>1, <3>2, <3>3 DEF KeyPair, SecondByte
  <2> QED
    BY Zenon, <2>1, <2>2
<1>5. serviceKeys' = serviceKeys
  BY Zenon, <1>4 DEF serviceKeys
<1>6. servicePending' = servicePending
  BY Zenon, <1>1, <1>2 DEF servicePending, TypeOK
<1> QED
  BY Zenon, <1>2, <1>5, <1>6

(* SET_CONFIG does not change what the service computes.                   *)
LEMMA SetConfigStutters ==
    ASSUME ServiceInv, NEW t \in Thread, SetConfig(t)
    PROVE  UNCHANGED <<ubuf, serviceKeys, servicePending>>
<1>1. \A h \in Handle : config'[h].a = config[h].a /\ config'[h].b = config[h].b
  BY ConstantsAssumption DEF ServiceInv, IndInv, TypeOK, SetConfig, Setting
<1>2. pc' = pc /\ call' = call /\ ubuf' = ubuf
  BY Zenon DEF SetConfig
<1> QED
  BY Zenon, <1>1, <1>2, KeysUnchanged DEF servicePending

(* An operation is invoked when it enters the driver ...                   *)
LEMMA EnterOpSimulates ==
    ASSUME Undisturbed, ServiceInv, NEW t \in Thread, EnterOp(t)
    PROVE  Service!Invoke(t)
<1>1. TypeOK
  BY Zenon DEF ServiceInv, IndInv
<1>2. PICK o \in {"ENCRYPT", "DECRYPT"} \X {0} :
        call' = [call EXCEPT ![t] = Frame(o[1], o[2], 0, 0, 0, 0)]
  BY Zenon DEF Undisturbed, EnterOp
<1>3. /\ pc[t] = "user" /\ pc' = [pc EXCEPT ![t] = "spin_lock"]
      /\ ubuf' = ubuf /\ config' = config
  BY Zenon DEF EnterOp, Goto
<1>4. serviceKeys' = serviceKeys
  <2>1. \A v \in Thread : (pc'[v] = "set_key_b") <=> (pc[v] = "set_key_b")
    BY Zenon, <1>1, <1>3 DEF TypeOK
  <2>2. \A v \in Thread : pc[v] = "set_key_b" => call'[v] = call[v]
    BY Zenon, <1>1, <1>2, <1>3 DEF TypeOK
  <2> QED
    BY Zenon, <1>3, <2>1, <2>2, KeysUnchanged
<1>5. /\ servicePending[t] = "none"
      /\ servicePending' = [servicePending EXCEPT ![t] = o[1]]
  BY <1>1, <1>2, <1>3, Zenon DEF servicePending, TypeOK, Frame
<1>6. o[1] \in {"ENCRYPT", "DECRYPT"}
  BY Zenon
<1> QED
  BY <1>3, <1>4, <1>5, <1>6, Zenon DEF Service!Invoke

(* ... and served when its result reaches the user's buffer.               *)
LEMMA CopyToUserSimulates ==
    ASSUME Undisturbed, ServiceInv, NEW t \in Thread, CopyToUser(t)
    PROVE  Service!Serve(t)
<1>1. TypeOK /\ HandleOf[t] \in Handle
  BY Zenon, ConstantsAssumption DEF ServiceInv, IndInv
<1>2. /\ pc[t] = "copy_to_user" /\ pc' = [pc EXCEPT ![t] = "user"]
      /\ call' = [call EXCEPT ![t] = NoCall]
      /\ ubuf' = [ubuf EXCEPT ![t] = buff[t]]
      /\ config' = config
  BY Zenon DEF CopyToUser, Return
<1>3. /\ call[t].cmd \in {"ENCRYPT", "DECRYPT"}
      /\ call[t].isMapped = 0
      /\ call[t].a = config[HandleOf[t]].a
      /\ call[t].b = config[HandleOf[t]].b
  BY Zenon, <1>2 DEF ServiceInv, KeyInv, InOp
<1>4. buff[t] = Wanted(call[t].cmd, call[t].a, call[t].b, ubuf[t])
  BY Zenon, <1>2, <1>3 DEF ServiceInv, IndInv, AllClean, OpInv, InOp, TextInv, Result
<1>5. SettingKey(HandleOf[t]) = {}
  BY Zenon, <1>2 DEF Undisturbed, SettingKey
<1>6. /\ serviceKeys[HandleOf[t]][1] = call[t].a
      /\ serviceKeys[HandleOf[t]][2] = call[t].b
  BY Zenon, <1>1, <1>3, <1>5 DEF serviceKeys, KeyPair, SecondByte
<1>7. serviceKeys' = serviceKeys
  <2>1. \A v \in Thread : (pc'[v] = "set_key_b") <=> (pc[v] = "set_key_b")
    BY Zenon, <1>1, <1>2 DEF TypeOK
  <2>2. \A v \in Thread : pc[v] = "set_key_b" => call'[v] = call[v]
    BY Zenon, <1>1, <1>2 DEF TypeOK
  <2> QED
    BY Zenon, <1>2, <2>1, <2>2, KeysUnchanged
<1>8. /\ servicePending[t] = call[t].cmd /\ call[t].cmd # "none"
      /\ servicePending' = [servicePending EXCEPT ![t] = "none"]
  BY <1>1, <1>2, <1>3, Zenon DEF servicePending, TypeOK
<1> QED
  BY Zenon, <1>2, <1>4, <1>6, <1>7, <1>8 DEF Service!Serve, Service!Wanted, Wanted,
     Service!Shift, Shift

(* Every step of the driver, the handler and the card is a step of the     *)
(* service or invisible to it.                                             *)
LEMMA StepSimulates ==
    ASSUME Undisturbed, ServiceInv, ServiceInv', [Next]_vars
    PROVE  [Service!ServiceNext]_<<ubuf, serviceKeys, servicePending>>
<1> DEFINE Skip == UNCHANGED <<ubuf, serviceKeys, servicePending>>
<1>1. TypeOK /\ TypeOK'
  BY Zenon DEF ServiceInv, IndInv
<1>2. ASSUME NEW t \in Thread, SpinLock(t) \/ ReadConfig(t) PROVE Skip
  <2>1. config' = config /\ ubuf' = ubuf
    BY Zenon, <1>2 DEF SpinLock, ReadConfig
  <2>2. \A v \in Thread : \/ pc'[v] = pc[v] /\ call'[v] = call[v]
                          \/ /\ pc[v] \notin {"user", "set_key_b"}
                             /\ pc'[v] \notin {"user", "set_key_b"}
                             /\ call'[v].cmd = call[v].cmd
    BY <1>1, <1>2 DEF SpinLock, ReadConfig, Goto, Frame, TypeOK
  <2> QED
    BY Zenon, <1>1, <2>1, <2>2, Stutters
<1>3. ASSUME NEW t \in Thread,
             \/ SetStatus(t) \/ MemcpyToIo(t) \/ DmaSetup(t) \/ PollFree(t)
             \/ Trigger(t) \/ MemcpyBack(t) \/ WaitEvent(t) \/ Interrupted(t)
      PROVE  Skip
  <2>1. config' = config /\ ubuf' = ubuf /\ call' = call
    BY Zenon, <1>3
       DEF SetStatus, MemcpyToIo, DmaSetup, PollFree, Trigger, MemcpyBack,
           WaitEvent, Interrupted
  <2>2. \A v \in Thread : \/ pc'[v] = pc[v]
                          \/ /\ pc[v] \notin {"user", "set_key_b"}
                             /\ pc'[v] \notin {"user", "set_key_b"}
    BY Zenon, <1>1, <1>3 DEF SetStatus, MemcpyToIo, DmaSetup, PollFree, Trigger,
       MemcpyBack, WaitEvent, Interrupted, Goto, TypeOK
  <2> QED
    BY Zenon, <1>1, <2>1, <2>2, Stutters
<1>4. ASSUME NEW t \in Thread, PollDone(t) \/ ClearFlag(t) PROVE Skip
  <2>1. call[t].isMapped = 0
    BY <1>4, Zenon DEF ServiceInv, KeyInv, PollDone, ClearFlag
  <2>2. config' = config /\ ubuf' = ubuf /\ call' = call
    BY Zenon, <1>4, <2>1 DEF PollDone, ClearFlag, AfterTransfer
  <2>3. \A v \in Thread : \/ pc'[v] = pc[v]
                          \/ /\ pc[v] \notin {"user", "set_key_b"}
                             /\ pc'[v] \notin {"user", "set_key_b"}
    BY Zenon, <1>1, <1>4, <2>1 DEF PollDone, ClearFlag, AfterTransfer, Goto, TypeOK
  <2> QED
    BY Zenon, <1>1, <2>2, <2>3, Stutters
<1>5. ASSUME Hardware \/ UNCHANGED vars \/ \E t \in Thread : MapStore(t)
      PROVE  Skip
  <2>1. config' = config /\ ubuf' = ubuf /\ call' = call /\ pc' = pc
    BY Zenon, <1>5
       DEF Hardware, CardFinishMmio, CardFinishDma, IrqAck, IrqWake, vars,
           MapStore
  <2> QED
    BY Zenon, <1>1, <2>1, Stutters
<1>6. \A t \in Thread : ~CopyToUserFault(t)
  BY Zenon DEF Undisturbed, CopyToUserFault
<1>7. ASSUME NEW t \in Thread, SetKeyA(t) \/ EnterOp(t) \/ CopyToUser(t)
      PROVE  Service!ServiceNext
  BY Zenon, <1>7, SetKeyASimulates, EnterOpSimulates, CopyToUserSimulates
     DEF Service!ServiceNext
<1>8. ASSUME NEW t \in Thread, SetKeyB(t) \/ SetConfig(t) PROVE Skip
  BY Zenon, <1>8, SetKeyBStutters, SetConfigStutters
<1> HIDE DEF Skip
<1>9. Skip \/ Service!ServiceNext
  BY Zenon, <1>2, <1>3, <1>4, <1>5, <1>6, <1>7, <1>8 DEF Next, Program, Run
<1> QED
  BY Zenon, <1>9 DEF Skip

(* The driver's initial states are initial states of the service.          *)
LEMMA InitSimulates == Init => Service!ServiceInit
<1> SUFFICES ASSUME Init PROVE Service!ServiceInit
  BY Zenon
<1>1. config \in [Handle -> Configs]
  BY Zenon, InitInd DEF IndInv, TypeOK
<1>2. \A h \in Handle : SettingKey(h) = {}
  BY Zenon DEF Init, SettingKey
<1>3. \A h \in Handle : KeyPair(h) \in Byte \X Byte
  BY Zenon, <1>1, <1>2 DEF KeyPair, SecondByte, Configs
<1>4. serviceKeys \in [Handle -> Byte \X Byte]
  BY Zenon, <1>3 DEF serviceKeys
<1>5. servicePending = [t \in Thread |-> "none"]
  BY Zenon DEF Init, servicePending
<1>6. ubuf = [t \in Thread |-> Service!Plain(t)]
  BY Zenon DEF Init, Plain, Service!Plain
<1> QED
  BY Zenon, <1>4, <1>5, <1>6 DEF Service!ServiceInit, Service!Byte, Byte

(* Where threads use files of their own and nothing interrupts, faults or  *)
(* maps, the driver implements the cipher service: concurrent calls in any *)
(* mix of modes each take effect at one instant, with the key of the       *)
(* caller's own file.                                                      *)
THEOREM DriverImplementsService ==
    ASSUME Undisturbed PROVE Spec => ImplementsServiceSafely
<1>1. Init => ServiceInv
  <2> SUFFICES ASSUME Init PROVE ServiceInv
    BY Zenon
  <2>1. AllClean /\ \A t \in Thread : KeyInv(t)
    BY Zenon DEF Init, AllClean, KeyInv, InOp
  <2> QED
    BY Zenon, <2>1, InitInd DEF ServiceInv
<1>2. ServiceInv /\ [Next]_vars => ServiceInv'
  <2> SUFFICES ASSUME ServiceInv, [Next]_vars PROVE ServiceInv'
    BY Zenon
  <2>1. IndInv'
    BY Zenon, StepInd DEF ServiceInv
  <2>2. AllClean'
    BY AllCleanStep, Zenon DEF ServiceInv, Undisturbed
  <2>3. \A t \in Thread : KeyInv(t)'
    BY Zenon, KeyInvStep
  <2> QED
    BY Zenon, <2>1, <2>2, <2>3 DEF ServiceInv
<1>3. ServiceInv /\ ServiceInv' /\ [Next]_vars
        => [Service!ServiceNext]_<<ubuf, serviceKeys, servicePending>>
  BY Zenon, StepSimulates
<1> QED
  BY <1>1, <1>2, <1>3, InitSimulates, PTL
     DEF Spec, ImplementsServiceSafely, Service!ServiceSpec,
         Service!serviceVars
=============================================================================
