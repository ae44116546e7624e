----------------------------- MODULE CryptoCard -----------------------------
(***************************************************************************)
(* The character-device side of drivers/cryptocard.c: the ioctl handler    *)
(* with its twelve transfer routines, the interrupt handler, and the card  *)
(* they drive.                                                             *)
(*                                                                         *)
(* Threads call ioctl on the open file HandleOf[t]; threads of one process *)
(* may share a file.  The model starts after probe and open.  One step is  *)
(* one access to state that another thread, the interrupt handler or the   *)
(* card can see; the card's finish and the handler's two steps interleave  *)
(* with everything.                                                        *)
(***************************************************************************)
EXTENDS Cipher, FiniteSets

CONSTANTS
    Handle,       \* open files of /dev/cryptocard
    HandleOf,     \* the file each thread uses
    NCpu,         \* processors of the machine
    KeyCalls,     \* per thread, the <<a, b>> it may pass to SET_KEY
    ConfigCalls,  \* ... the <<mode_int_dma, set>> it may pass to SET_CONFIG
    OpCalls,      \* ... the <<cmd, isMapped>> of its ENCRYPTs and DECRYPTs
    HeapBytes,    \* what kmalloc'ed memory may hold before it is written
    MapUsers,     \* threads that mapped the card and store into it
    Signalled,    \* threads that a signal may hit while they wait for the card
    CopyFaults    \* may copy_from_user / copy_to_user meet a bad address?

ASSUME ConstantsAssumption ==
    /\ HandleOf \in [Thread -> Handle]
    /\ KeyCalls \in [Thread -> SUBSET (Byte \X Byte)]
    /\ ConfigCalls \in [Thread -> SUBSET ({0, 1} \X {0, 1})]
    /\ OpCalls \in [Thread -> SUBSET ({"ENCRYPT", "DECRYPT"} \X {0, 1})]
    /\ HeapBytes \subseteq Byte
    /\ MapUsers \subseteq Thread
    /\ Signalled \subseteq Thread
    /\ CopyFaults \in BOOLEAN

VARIABLES
    pc,        \* where each thread is
    call,      \* the locals of cryptocard_ioctl, per thread
    buff,      \* the kernel buffer of the call
    ubuf,      \* the user's buffer
    config,    \* struct cryptocard_config of each open file
    lock,      \* holder of cc_spinlock, or None
    wq_flag,   \* the condition of the wait queue cc_wq
    irqpc,     \* where cryptocard_irq_handle is
    key,       \* card: KEY register
    mmstatus,  \* card: MMSTATUS register
    data,      \* card: the data memory at DATA_OFF
    dmacmd,    \* card: DMA_CMD register
    dmaaddr,   \* card: DMA_ADDR register (whose buffer it points to)
    dmabuf,    \* coherent DMA buffers; None when not allocated
    isr,       \* card: INT_STATUS register
    clean      \* history: the call found the card at rest and was left alone

vars == <<pc, call, buff, ubuf, config, lock, wq_flag, irqpc, key, mmstatus,
          data, dmacmd, dmaaddr, dmabuf, isr, clean>>

card == <<key, mmstatus, data, dmacmd, dmaaddr, dmabuf, isr>>

Locations ==
    {"user", "set_key_b", "spin_lock", "read_config", "set_status",
     "memcpy_toio", "dma_setup", "poll_free", "trigger", "poll_done",
     "wait_event", "clear_flag", "memcpy_back", "copy_to_user"}

Calls == [cmd : {"none", "SET_KEY", "ENCRYPT", "DECRYPT"}, isMapped : {0, 1},
          a : Byte, b : Byte, dma : {0, 1}, interrupt : {0, 1}]

Configs == [a : Byte, b : Byte, dma : {0, 1}, interrupt : {0, 1},
            isKeyset : {0, 1}]

Register == [busy : BOOLEAN, decrypt : BOOLEAN, irq : BOOLEAN]

TypeOK ==
    /\ pc \in [Thread -> Locations]
    /\ call \in [Thread -> Calls]
    /\ buff \in [Thread -> Data]
    /\ ubuf \in [Thread -> Data]
    /\ config \in [Handle -> Configs]
    /\ lock \in Thread \cup {None}
    /\ wq_flag \in {0, 1}
    /\ irqpc \in {"idle", "wake"}
    /\ key \in Nat
    /\ mmstatus \in Register
    /\ data \in Data
    /\ dmacmd \in Register
    /\ dmaaddr \in Thread \cup {None}
    /\ dmabuf \in [Thread -> Data \cup {None}]
    /\ isr \in SUBSET {"mmio", "dma"}
    /\ clean \in [Thread -> BOOLEAN]

-----------------------------------------------------------------------------
\* struct cryptocard_config, and the stack frame of cryptocard_ioctl.
Setting(a, b, dma, interrupt, isKeyset) ==
    [a |-> a, b |-> b, dma |-> dma, interrupt |-> interrupt,
     isKeyset |-> isKeyset]

Frame(cmd, isMapped, a, b, dma, interrupt) ==
    [cmd |-> cmd, isMapped |-> isMapped, a |-> a, b |-> b, dma |-> dma,
     interrupt |-> interrupt]

(* The file's configuration after cryptocard_fopen: dma, interrupt and     *)
(* isKeyset are cleared, the key bytes keep what the heap held.            *)
OpenConfigs ==
    {Setting(x, y, 0, 0, 0) : x \in HeapBytes, y \in HeapBytes}

Idle == [busy |-> FALSE, decrypt |-> FALSE, irq |-> FALSE]

\* The locals of a thread that is not in cryptocard_ioctl.
NoCall == Frame("none", 0, 0, 0, 0, 0)

Init ==
    /\ pc = [t \in Thread |-> "user"]
    /\ call = [t \in Thread |-> NoCall]
    /\ buff = [t \in Thread |-> Garbage]
    /\ ubuf = [t \in Thread |-> Plain(t)]
    /\ config \in [Handle -> OpenConfigs]
    /\ lock = None
    /\ wq_flag = 0
    /\ irqpc = "idle"
    /\ key = 0
    /\ mmstatus = Idle
    /\ data = Garbage
    /\ dmacmd = Idle
    /\ dmaaddr = None
    /\ dmabuf = [t \in Thread |-> None]
    /\ isr = {}
    /\ clean = [t \in Thread |-> FALSE]

-----------------------------------------------------------------------------
Goto(t, l) == pc' = [pc EXCEPT ![t] = l]

\* The ioctl returns: its locals and its buffer go out of scope.
Return(t) ==
    /\ pc' = [pc EXCEPT ![t] = "user"]
    /\ call' = [call EXCEPT ![t] = NoCall]
    /\ buff' = [buff EXCEPT ![t] = Garbage]
    /\ clean' = [clean EXCEPT ![t] = FALSE]

\* The thread is past spin_lock in ENCRYPT or DECRYPT.
InOp(t) == pc[t] \notin {"user", "set_key_b", "spin_lock"}

\* The transfer goes through the DMA engine.  A mapped call never does.
UsesDma(t) == call[t].isMapped = 0 /\ call[t].dma = 1

\* spin_lock disables preemption, so a thread from there on keeps its
\* processor, except while it sleeps in wait_event_interruptible.
OnCpu == {t \in Thread : pc[t] \notin {"user", "set_key_b", "wait_event"}}
FreeCpu == Cardinality(OnCpu) < NCpu

\* No transfer, no interrupt and no wake-up is under way.
AtRest ==
    /\ ~mmstatus.busy
    /\ ~dmacmd.busy
    /\ isr = {}
    /\ irqpc = "idle"
    /\ wq_flag = 0

\* Mutation of SetKeyA: the key is one global setting.
SetKeyAGlobal(t) ==
    /\ pc[t] = "user"
    /\ \E k \in KeyCalls[t] :
        /\ config' = [h \in Handle |->
                Setting(k[1], config[h].b, config[h].dma, config[h].interrupt,
                        config[h].isKeyset)]
        /\ call' = [call EXCEPT ![t] = Frame("SET_KEY", 0, k[1], k[2], 0, 0)]
    /\ Goto(t, "set_key_b")
    /\ UNCHANGED <<buff, ubuf, lock, wq_flag, irqpc, card, clean>>

(* SET_KEY: two plain stores into the file's configuration, no lock.       *)
SetKeyA(t) ==
    LET h == HandleOf[t]
        cfg == config[h]
    IN
    /\ pc[t] = "user"
    /\ \E k \in KeyCalls[t] :
        /\ config' = [config EXCEPT ![h] =
                Setting(k[1], cfg.b, cfg.dma, cfg.interrupt, cfg.isKeyset)]
        /\ call' = [call EXCEPT ![t] = Frame("SET_KEY", 0, k[1], k[2], 0, 0)]
    /\ Goto(t, "set_key_b")
    /\ UNCHANGED <<buff, ubuf, lock, wq_flag, irqpc, card, clean>>

SetKeyB(t) ==
    LET h == HandleOf[t]
        cfg == config[h]
    IN
    /\ pc[t] = "set_key_b"
    /\ config' = [config EXCEPT ![h] =
            Setting(cfg.a, call[t].b, cfg.dma, cfg.interrupt, 1)]
    /\ Return(t)
    /\ UNCHANGED <<ubuf, lock, wq_flag, irqpc, card>>

(* SET_CONFIG: mode_int_dma = 0 sets interrupt, anything else sets dma.    *)
SetConfig(t) ==
    LET h == HandleOf[t]
        cfg == config[h]
    IN
    /\ pc[t] = "user"
    /\ \E c \in ConfigCalls[t] :
        config' = [config EXCEPT ![h] =
            IF c[1] = 0
            THEN Setting(cfg.a, cfg.b, cfg.dma, c[2], cfg.isKeyset)
            ELSE Setting(cfg.a, cfg.b, c[2], cfg.interrupt, cfg.isKeyset)]
    /\ UNCHANGED <<pc, call, buff, ubuf, lock, wq_flag, irqpc, card, clean>>

(* ENCRYPT or DECRYPT enters and starts to spin for cc_spinlock.           *)
EnterOp(t) ==
    /\ pc[t] = "user"
    /\ FreeCpu
    /\ \E o \in OpCalls[t] :
        call' = [call EXCEPT ![t] = Frame(o[1], o[2], 0, 0, 0, 0)]
    /\ Goto(t, "spin_lock")
    /\ UNCHANGED <<buff, ubuf, config, lock, wq_flag, irqpc, card, clean>>

\* Mutation of SpinLock: the section is entered without waiting for the lock.
SpinLockIgnored(t) ==
    /\ pc[t] = "spin_lock"
    /\ lock' = t
    /\ call' = [call EXCEPT ![t] = Frame(call[t].cmd, call[t].isMapped,
                                         config[HandleOf[t]].a, 0, 0, 0)]
    /\ clean' = [clean EXCEPT ![t] = AtRest]
    /\ Goto(t, "read_config")
    /\ UNCHANGED <<buff, ubuf, config, wq_flag, irqpc, card>>

(* spin_lock succeeds; the first key byte is read from the file.           *)
SpinLock(t) ==
    /\ pc[t] = "spin_lock"
    /\ lock = None
    /\ lock' = t
    /\ call' = [call EXCEPT ![t] = Frame(call[t].cmd, call[t].isMapped,
                                         config[HandleOf[t]].a, 0, 0, 0)]
    /\ clean' = [clean EXCEPT ![t] = AtRest]
    /\ Goto(t, "read_config")
    /\ UNCHANGED <<buff, ubuf, config, wq_flag, irqpc, card>>

\* Mutation of ReadConfig: KEY is written from the file, not from the bytes
\* the call has read.
ReadConfigTwice(t) ==
    LET cfg == config[HandleOf[t]] IN
    /\ pc[t] = "read_config"
    /\ call' = [call EXCEPT ![t] =
            Frame(call[t].cmd, call[t].isMapped, call[t].a, cfg.b, cfg.dma,
                  cfg.interrupt)]
    /\ key' = KeyWord(cfg.a, cfg.b)
    /\ buff' = [buff EXCEPT ![t] = ubuf[t]]
    /\ Goto(t, IF call[t].isMapped = 0 /\ cfg.dma = 1
               THEN "dma_setup" ELSE "set_status")
    /\ UNCHANGED <<ubuf, config, lock, wq_flag, irqpc, mmstatus, data,
                   dmacmd, dmaaddr, dmabuf, isr, clean>>

(* The second key byte and the modes are read, KEY is written and, for an  *)
(* unmapped call, the user's bytes are copied in.  The result of           *)
(* copy_from_user is ignored: after a fault the call goes on with garbage. *)
ReadConfig(t) ==
    LET cfg == config[HandleOf[t]] IN
    /\ pc[t] = "read_config"
    /\ call' = [call EXCEPT ![t] =
            Frame(call[t].cmd, call[t].isMapped, call[t].a, cfg.b, cfg.dma,
                  cfg.interrupt)]
    /\ key' = KeyWord(call[t].a, cfg.b)
    /\ \/ /\ call[t].isMapped = 1
          /\ UNCHANGED <<buff, clean>>
       \/ /\ call[t].isMapped = 0
          /\ buff' = [buff EXCEPT ![t] = ubuf[t]]
          /\ UNCHANGED clean
       \/ /\ call[t].isMapped = 0
          /\ CopyFaults
          /\ buff' = [buff EXCEPT ![t] = Garbage]
          /\ clean' = [clean EXCEPT ![t] = FALSE]
    /\ Goto(t, IF call[t].isMapped = 0 /\ cfg.dma = 1
               THEN "dma_setup" ELSE "set_status")
    /\ UNCHANGED <<ubuf, config, lock, wq_flag, irqpc, mmstatus, data,
                   dmacmd, dmaaddr, dmabuf, isr>>

(* MMIO: the command bits go to MMSTATUS, whose busy bit is read-only.     *)
SetStatus(t) ==
    /\ pc[t] = "set_status"
    /\ mmstatus' = [busy |-> mmstatus.busy,
                    decrypt |-> (call[t].cmd = "DECRYPT"),
                    irq |-> (call[t].interrupt = 1)]
    /\ Goto(t, IF call[t].isMapped = 0 THEN "memcpy_toio" ELSE "poll_free")
    /\ UNCHANGED <<call, buff, ubuf, config, lock, wq_flag, irqpc, key, data,
                   dmacmd, dmaaddr, dmabuf, isr, clean>>

MemcpyToIo(t) ==
    /\ pc[t] = "memcpy_toio"
    /\ data' = buff[t]
    /\ Goto(t, "poll_free")
    /\ UNCHANGED <<call, buff, ubuf, config, lock, wq_flag, irqpc, key,
                   mmstatus, dmacmd, dmaaddr, dmabuf, isr, clean>>

(* DMA: a coherent buffer is allocated and filled and its address written  *)
(* to DMA_ADDR.  The card takes no new address while it is busy.           *)
DmaSetup(t) ==
    /\ pc[t] = "dma_setup"
    /\ dmabuf' = [dmabuf EXCEPT ![t] = buff[t]]
    /\ dmaaddr' = IF dmacmd.busy THEN dmaaddr ELSE t
    /\ Goto(t, "poll_free")
    /\ UNCHANGED <<call, buff, ubuf, config, lock, wq_flag, irqpc, key,
                   mmstatus, data, dmacmd, isr, clean>>

Busy(t) == IF UsesDma(t) THEN dmacmd.busy ELSE mmstatus.busy

(* The loops that spin until the engine is free, before the transfer ...   *)
PollFree(t) ==
    /\ pc[t] = "poll_free"
    /\ ~Busy(t)
    /\ Goto(t, "trigger")
    /\ UNCHANGED <<call, buff, ubuf, config, lock, wq_flag, irqpc, card,
                   clean>>

(* The write to MMADDR, or of bit 0 of DMA_CMD, starts the transfer.       *)
Trigger(t) ==
    /\ pc[t] = "trigger"
    /\ IF UsesDma(t)
       THEN /\ dmacmd' = [busy |-> TRUE,
                          decrypt |-> (call[t].cmd = "DECRYPT"),
                          irq |-> (call[t].interrupt = 1)]
            /\ UNCHANGED mmstatus
       ELSE /\ mmstatus' = [busy |-> TRUE, decrypt |-> mmstatus.decrypt,
                            irq |-> mmstatus.irq]
            /\ UNCHANGED dmacmd
    /\ Goto(t, IF call[t].interrupt = 0 THEN "poll_done" ELSE "wait_event")
    /\ UNCHANGED <<call, buff, ubuf, config, lock, wq_flag, irqpc, key, data,
                   dmaaddr, dmabuf, isr, clean>>

\* After the transfer an unmapped call copies the result back; a mapped one
\* leaves it in the card and returns, without a spin_unlock.
AfterTransfer(t) ==
    IF call[t].isMapped = 0
    THEN Goto(t, "memcpy_back") /\ UNCHANGED <<call, buff, clean>>
    ELSE Return(t)

\* Mutation of PollDone: the second polling loop is missing.
PollDoneAtOnce(t) ==
    /\ pc[t] = "poll_done"
    /\ AfterTransfer(t)
    /\ UNCHANGED <<ubuf, config, lock, wq_flag, irqpc, card>>

(* ... and, in the polling routines, after it.                             *)
PollDone(t) ==
    /\ pc[t] = "poll_done"
    /\ ~Busy(t)
    /\ AfterTransfer(t)
    /\ UNCHANGED <<ubuf, config, lock, wq_flag, irqpc, card>>

\* Mutation of WaitEvent: a sleep without a condition that any wake-up ends.
WaitEventUnchecked(t) ==
    /\ pc[t] = "wait_event"
    /\ FreeCpu
    /\ Goto(t, "clear_flag")
    /\ UNCHANGED <<call, buff, ubuf, config, lock, wq_flag, irqpc, card,
                   clean>>

(* wait_event_interruptible returns because its condition holds, once the  *)
(* scheduler has a processor for the thread.                               *)
WaitEvent(t) ==
    /\ pc[t] = "wait_event"
    /\ wq_flag = 1
    /\ FreeCpu
    /\ Goto(t, "clear_flag")
    /\ UNCHANGED <<call, buff, ubuf, config, lock, wq_flag, irqpc, card,
                   clean>>

(* wait_event_interruptible returns -ERESTARTSYS because a signal is       *)
(* pending; the routines ignore its result.                                *)
Interrupted(t) ==
    /\ t \in Signalled
    /\ pc[t] = "wait_event"
    /\ wq_flag = 0
    /\ FreeCpu
    /\ clean' = [clean EXCEPT ![t] = FALSE]
    /\ Goto(t, "clear_flag")
    /\ UNCHANGED <<call, buff, ubuf, config, lock, wq_flag, irqpc, card>>

\* Mutation of ClearFlag: the reset of the flag is missing.
ClearFlagForgotten(t) ==
    /\ pc[t] = "clear_flag"
    /\ AfterTransfer(t)
    /\ UNCHANGED <<ubuf, config, lock, wq_flag, irqpc, card>>

(* The interrupt routines reset the flag for the next transfer.            *)
ClearFlag(t) ==
    /\ pc[t] = "clear_flag"
    /\ wq_flag' = 0
    /\ AfterTransfer(t)
    /\ UNCHANGED <<ubuf, config, lock, irqpc, card>>

(* memcpy_fromio from the card's memory, or memcpy from the DMA buffer,    *)
(* which is then freed.                                                    *)
MemcpyBack(t) ==
    /\ pc[t] = "memcpy_back"
    /\ IF UsesDma(t)
       THEN /\ buff' = [buff EXCEPT ![t] = dmabuf[t]]
            /\ dmabuf' = [dmabuf EXCEPT ![t] = None]
       ELSE /\ buff' = [buff EXCEPT ![t] = data]
            /\ UNCHANGED dmabuf
    /\ Goto(t, "copy_to_user")
    /\ UNCHANGED <<call, ubuf, config, lock, wq_flag, irqpc, key, mmstatus,
                   data, dmacmd, dmaaddr, isr, clean>>

(* copy_to_user succeeds, the lock is released and the call returns 0.     *)
CopyToUser(t) ==
    /\ pc[t] = "copy_to_user"
    /\ ubuf' = [ubuf EXCEPT ![t] = buff[t]]
    /\ lock' = None
    /\ Return(t)
    /\ UNCHANGED <<config, wq_flag, irqpc, card>>

(* copy_to_user fails: "return EFAULT" leaves with the lock held.          *)
CopyToUserFault(t) ==
    /\ CopyFaults
    /\ pc[t] = "copy_to_user"
    /\ Return(t)
    /\ UNCHANGED <<ubuf, config, lock, wq_flag, irqpc, card>>

-----------------------------------------------------------------------------
\* The card's data memory belongs to the transfer of t.
OwnsData(t) ==
    /\ ~UsesDma(t)
    /\ pc[t] \in {"poll_free", "trigger", "poll_done", "wait_event",
                  "clear_flag", "memcpy_back"}

(* A program that mapped the card (cryptocard_fmmap) stores its text in    *)
(* the data memory.  Nothing serialises that store with the driver.        *)
MapStore(t) ==
    /\ t \in MapUsers
    /\ pc[t] = "user"
    /\ data' = Plain(t)
    /\ clean' = [u \in Thread |-> clean[u] /\ ~OwnsData(u)]
    /\ UNCHANGED <<pc, call, buff, ubuf, config, lock, wq_flag, irqpc, key,
                   mmstatus, dmacmd, dmaaddr, dmabuf, isr>>

(* The card finishes an MMIO transfer: the result replaces the data, the   *)
(* busy bit clears and, if asked to, the card interrupts.                  *)
CardFinishMmio ==
    /\ mmstatus.busy
    /\ data' = CardCipher(mmstatus.decrypt, key, data)
    /\ mmstatus' = [busy |-> FALSE, decrypt |-> mmstatus.decrypt,
                    irq |-> mmstatus.irq]
    /\ isr' = IF mmstatus.irq THEN isr \cup {"mmio"} ELSE isr
    /\ UNCHANGED <<pc, call, buff, ubuf, config, lock, wq_flag, irqpc, key,
                   dmacmd, dmaaddr, dmabuf, clean>>

(* The card finishes a DMA transfer.  If the buffer was freed meanwhile    *)
(* the card writes to memory the model no longer follows.                  *)
CardFinishDma ==
    /\ dmacmd.busy
    /\ dmabuf' = [t \in Thread |->
                    IF t = dmaaddr /\ dmabuf[t] # None
                    THEN CardCipher(dmacmd.decrypt, key, dmabuf[t])
                    ELSE dmabuf[t]]
    /\ dmacmd' = [busy |-> FALSE, decrypt |-> dmacmd.decrypt,
                  irq |-> dmacmd.irq]
    /\ isr' = IF dmacmd.irq THEN isr \cup {"dma"} ELSE isr
    /\ UNCHANGED <<pc, call, buff, ubuf, config, lock, wq_flag, irqpc, key,
                   mmstatus, data, dmaaddr, clean>>

(* cryptocard_irq_handle: read INT_STATUS and acknowledge what was read;   *)
(* then set the flag and wake the sleeper.                                 *)
IrqAck ==
    /\ irqpc = "idle"
    /\ isr # {}
    /\ isr' = {}
    /\ irqpc' = "wake"
    /\ UNCHANGED <<pc, call, buff, ubuf, config, lock, wq_flag, key, mmstatus,
                   data, dmacmd, dmaaddr, dmabuf, clean>>

\* Mutation of IrqWake: the handler wakes the sleeper and sets no flag.
IrqWakeNoFlag ==
    /\ irqpc = "wake"
    /\ irqpc' = "idle"
    /\ UNCHANGED <<pc, call, buff, ubuf, config, lock, wq_flag, card, clean>>

(* The second half of cryptocard_irq_handle.                               *)
IrqWake ==
    /\ irqpc = "wake"
    /\ wq_flag' = 1
    /\ irqpc' = "idle"
    /\ UNCHANGED <<pc, call, buff, ubuf, config, lock, card, clean>>

-----------------------------------------------------------------------------
\* The steps a running thread takes without waiting for a lock or a wake-up.
Run(t) ==
    \/ SetKeyB(t)
    \/ ReadConfig(t)
    \/ SetStatus(t)
    \/ MemcpyToIo(t)
    \/ DmaSetup(t)
    \/ PollFree(t)
    \/ Trigger(t)
    \/ PollDone(t)
    \/ ClearFlag(t)
    \/ MemcpyBack(t)
    \/ CopyToUser(t)
    \/ CopyToUserFault(t)

\* What a program decides to do, and what it suffers.
Program(t) ==
    \/ SetKeyA(t)
    \/ SetConfig(t)
    \/ EnterOp(t)
    \/ MapStore(t)
    \/ Interrupted(t)

Hardware == CardFinishMmio \/ CardFinishDma \/ IrqAck \/ IrqWake

Next ==
    \/ \E t \in Thread : Program(t) \/ SpinLock(t) \/ WaitEvent(t) \/ Run(t)
    \/ Hardware

Spec == Init /\ [][Next]_vars

(* Every transfer ends and every interrupt is delivered; a running thread  *)
(* runs.  The queued spinlock serves its waiters in order and the          *)
(* scheduler gives a free processor to a woken thread: strong fairness.    *)
Fairness ==
    /\ WF_vars(CardFinishMmio)
    /\ WF_vars(CardFinishDma)
    /\ WF_vars(IrqAck)
    /\ WF_vars(IrqWake)
    /\ \A t \in Thread : /\ WF_vars(Run(t))
                         /\ SF_vars(SpinLock(t))
                         /\ SF_vars(WaitEvent(t))

FairSpec == Spec /\ Fairness

-----------------------------------------------------------------------------
(* At most one thread is between spin_lock and the end of its operation,   *)
(* whatever signals, faults and lost unlocks happen: the twelve routines   *)
(* never program the card concurrently.                                    *)
MutualExclusion ==
    \A t, u \in Thread : InOp(t) /\ InOp(u) => t = u

(* A call that found the card at rest, was not interrupted by a signal,    *)
(* read its input without a fault and whose data memory no mapping wrote   *)
(* to is about to hand the user exactly the cipher of the user's buffer    *)
(* under the key bytes it read from its file, in every mode and whatever   *)
(* the other threads do.                                                   *)
CleanCallIsCorrect ==
    \A t \in Thread :
        pc[t] = "copy_to_user" /\ clean[t]
            => buff[t] = Wanted(call[t].cmd, call[t].a, call[t].b, ubuf[t])

(* Every call of a thread that no signal hits hands its user exactly the   *)
(* cipher of the user's buffer under the key bytes the call read.  (Where  *)
(* copies do not fault and nobody stores through a mapping.)               *)
EveryCallIsCorrect ==
    \A t \in Thread \ Signalled :
        pc[t] = "copy_to_user"
            => buff[t] = Wanted(call[t].cmd, call[t].a, call[t].b, ubuf[t])

(* cc_spinlock is only ever free while the card is at rest, so that the    *)
(* next operation starts from a clean state: no transfer still running, no *)
(* interrupt on its way, no wake-up left over in wq_flag.                  *)
FreeMeansAtRest == lock = None => AtRest

(* The card never transfers from or to a DMA buffer that the driver has    *)
(* given back with dma_free_coherent.                                      *)
DmaTargetAllocated ==
    dmacmd.busy => dmaaddr \in Thread /\ dmabuf[dmaaddr] # None

(* The driver copies a result back only after the engine has produced it:  *)
(* the wait in the interrupt routines never ends early on a wake-up that   *)
(* belongs to another transfer.                                            *)
ResultIsReady ==
    \A t \in Thread : pc[t] = "memcpy_back" => ~Busy(t)

(* While a transfer runs nobody changes what it works on: key, command     *)
(* bits, data memory, DMA address and DMA buffer stay as they are.         *)
TransferUndisturbed ==
    [][/\ mmstatus.busy /\ mmstatus'.busy
            => UNCHANGED <<key, mmstatus, data>>
       /\ dmacmd.busy /\ dmacmd'.busy
            => UNCHANGED <<key, dmacmd, dmaaddr, dmabuf>>]_vars

(* Every call of ENCRYPT or DECRYPT gets the lock, finishes and returns.   *)
EveryCallReturns ==
    \A t \in Thread : pc[t] = "spin_lock" ~> pc[t] = "user"

-----------------------------------------------------------------------------
(* The inductive invariant behind the safety properties.                   *)

\* Where the payload of the transfer of t lives.
Payload(t) == IF UsesDma(t) THEN dmabuf[t] ELSE data

Result(t) == Wanted(call[t].cmd, call[t].a, call[t].b, ubuf[t])

\* Nothing that a signal left behind can reach the call of t.
Calm(t) == clean[t] \/ Signalled = {}

\* The routine matches the modes the call read.
RouteInv(t) ==
    /\ pc[t] = "dma_setup" => UsesDma(t)
    /\ pc[t] \in {"set_status", "memcpy_toio"} => ~UsesDma(t)
    /\ pc[t] \in {"memcpy_toio", "memcpy_back", "copy_to_user"}
        => call[t].isMapped = 0
    /\ pc[t] = "poll_done" => call[t].interrupt = 0
    /\ pc[t] = "wait_event" => call[t].interrupt = 1

\* The registers hold the command of the call.
CommandInv(t) ==
    /\ pc[t] # "read_config" => key = KeyWord(call[t].a, call[t].b)
    /\ ~UsesDma(t) /\ pc[t] \in {"memcpy_toio", "poll_free", "trigger",
                                 "poll_done", "wait_event"}
        => /\ mmstatus.decrypt = (call[t].cmd = "DECRYPT")
           /\ mmstatus.irq = (call[t].interrupt = 1)
    /\ UsesDma(t) /\ pc[t] \in {"poll_done", "wait_event"}
        => /\ dmacmd.decrypt = (call[t].cmd = "DECRYPT")
           /\ dmacmd.irq = (call[t].interrupt = 1)

\* The DMA buffer lives from the allocation to the copy back.
BufferInv(t) ==
    UsesDma(t) /\ pc[t] \in {"poll_free", "trigger", "poll_done",
                             "wait_event", "clear_flag", "memcpy_back"}
        => /\ dmabuf[t] # None
           /\ Calm(t) => dmaaddr = t

\* The completion of the transfer travels from the engine through INT_STATUS
\* and the handler to wq_flag; it is in exactly one of these places.
OneToken(t) ==
    \/ Busy(t) /\ isr = {} /\ irqpc = "idle" /\ wq_flag = 0
    \/ ~Busy(t) /\ isr # {} /\ irqpc = "idle" /\ wq_flag = 0
    \/ ~Busy(t) /\ isr = {} /\ irqpc = "wake" /\ wq_flag = 0
    \/ ~Busy(t) /\ isr = {} /\ irqpc = "idle" /\ wq_flag = 1

OtherEngineIdle(t) == IF UsesDma(t) THEN ~mmstatus.busy ELSE ~dmacmd.busy

PhaseInv(t) ==
    Calm(t) =>
        /\ pc[t] \in {"read_config", "set_status", "memcpy_toio",
                      "dma_setup", "poll_free", "trigger", "memcpy_back",
                      "copy_to_user"} => AtRest
        /\ pc[t] = "poll_done" => /\ OtherEngineIdle(t)
                                  /\ isr = {} /\ irqpc = "idle" /\ wq_flag = 0
        /\ pc[t] = "wait_event" => OtherEngineIdle(t) /\ OneToken(t)
        /\ pc[t] = "clear_flag" => /\ ~mmstatus.busy /\ ~dmacmd.busy
                                   /\ isr = {} /\ irqpc = "idle"

\* Where a clean call's text is, and in what shape.
TextInv(t) ==
    clean[t] /\ call[t].isMapped = 0 =>
        /\ pc[t] \in {"set_status", "memcpy_toio", "dma_setup"}
            => buff[t] = ubuf[t]
        /\ pc[t] \in {"poll_free", "trigger"} => Payload(t) = ubuf[t]
        /\ pc[t] \in {"poll_done", "wait_event"}
            => Payload(t) = IF Busy(t) THEN ubuf[t] ELSE Result(t)
        /\ pc[t] \in {"clear_flag", "memcpy_back"} => Payload(t) = Result(t)
        /\ pc[t] = "copy_to_user" => buff[t] = Result(t)

OpInv(t) ==
    InOp(t) => /\ lock = t
               /\ RouteInv(t)
               /\ CommandInv(t)
               /\ BufferInv(t)
               /\ PhaseInv(t)
               /\ TextInv(t)

\* Without signals the card is at rest whenever no operation is under way,
\* also after an operation that kept the lock.
QuietInv == Signalled = {} /\ (\A t \in Thread : ~InOp(t)) => AtRest

(* Everything that relates the threads' positions to the lock, the card,   *)
(* the interrupt handler and the text of each call, at every step: the     *)
(* strengthening that makes the properties above inductive.                *)
IndInv ==
    /\ TypeOK
    /\ QuietInv
    /\ \A t \in Thread : OpInv(t)
=============================================================================
