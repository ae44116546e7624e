--------------------------- MODULE CardPrograms ----------------------------
(***************************************************************************)
(* The evaluation programs and benchmarks of the crypto card, as clients   *)
(* of the library: processes and threads, each with a handle of its own,   *)
(* that encrypt, compare with the reference cipher, and decrypt.           *)
(*                                                                         *)
(* A step is one line of a program or one ioctl of the library.  What an   *)
(* ioctl does is the contract of the driver (CipherService, and Crypter    *)
(* for mapped messages).  An ioctl that sleeps under cc_spinlock comes     *)
(* back only if the callers that spin leave it a processor (Starve).       *)
(*                                                                         *)
(* A message is the set of distances its letters are shifted by: {0} is    *)
(* plain text, and two elements say that its chunks were treated           *)
(* differently.                                                            *)
(***************************************************************************)
EXTENDS Gen, Sequences, FiniteSets

CONSTANTS
    MaxRounds,   \* bound: how often the loops of a directory's programs go round
    MaxForks,    \* bound: how many of 50 children or threads there are
    MaxIoctls,   \* bound: how many chunks of a long message they follow
    Tests,       \* the programs of Suite that are run
    Processors   \* the processors of the machine

\* MP_test9 has five processes.
MaxProc == IF MaxForks < 4 THEN 5 ELSE MaxForks + 1

SET == 1
UNSET == 0
JUNK == -1
KB == 1024

\* The file that file_create writes, default_file_size megabytes of text.
FileSize == 10 * KB * KB

-----------------------------------------------------------------------------
\* The lines of a program.  create_device_handle opens the device, sets both
\* configuration bits and the key.
create_device_handle(dma, irq, ka, kb) ==
    [do |-> "open", fd |-> [dma |-> dma, irq |-> irq, key |-> ka + kb]]
close_handle == [do |-> "close"]
encrypt(size, isMapped) == [do |-> "encrypt", size |-> size, mapped |-> isMapped]
decrypt(size, isMapped) == [do |-> "decrypt", size |-> size, mapped |-> isMapped]
map_card(size) == [do |-> "map", size |-> size]
unmap_card == [do |-> "unmap"]

\* The message goes to the program's buffer, or to the card's memory.
take == [do |-> "take"]
strncpy_card == [do |-> "strncpy"]

\* The buffer with the expected cipher, made from plain text or turned back.
create_encrpyted_buffer(ka, kb) == [do |-> "expect", a |-> ka, b |-> kb]
turn_back(ka, kb) == [do |-> "unexpect", a |-> ka, b |-> kb]

\* isValid compares a buffer with the expected one or with the message.
isValid(what, with) == [do |-> "valid", what |-> what, with |-> with]

\* The loop goes back by this many lines until n rounds are done.
again(back, n) == [do |-> "again", back |-> back, n |-> n]
passed == [do |-> "passed"]
fork(j) == [do |-> "fork", child |-> j]
kill(j) == [do |-> "kill", child |-> j]
wait(js) == [do |-> "wait", children |-> js]
join_unset == [do |-> "join"]
exit == [do |-> "exit"]

Forks(js) == [n \in DOMAIN js |-> fork(js[n])]
Numbers(from, to) == [n \in 1 .. to - from + 1 |-> from + n - 1]

\* A run of a program: one process for each element, threads of one process
\* sharing a group.
Alone(code) == {<<[group |-> 1, code |-> code]>>}

-----------------------------------------------------------------------------
\* The single-process programs come in four modes of the same shape.
hello(dma, irq) ==
    <<take, create_encrpyted_buffer(30, 17),
      create_device_handle(dma, irq, 30, 17),
      encrypt(13, 0), isValid("text", "expected"),
      decrypt(13, 0), isValid("text", "message"), passed, close_handle>>

two_handles(dma, irq) ==
    <<take, create_device_handle(dma, irq, 30, 17), close_handle,
      create_device_handle(dma, irq, 45, 60), create_encrpyted_buffer(45, 60),
      encrypt(13, 0), isValid("text", "expected"),
      decrypt(13, 0), isValid("text", "message"), close_handle,
      create_device_handle(dma, irq, 30, 17), create_encrpyted_buffer(30, 17),
      encrypt(13, 0), isValid("text", "expected"),
      decrypt(13, 0), isValid("text", "message"), passed, close_handle>>

\* Chunks of the file one after the other.
do_encryption(n, dma, irq, size) ==
    <<create_device_handle(dma, irq, 30, 17),
      take, create_encrpyted_buffer(30, 17),
      encrypt(size, 0), isValid("text", "expected"),
      decrypt(size, 0), turn_back(30, 17), isValid("text", "expected"),
      again(7, n), close_handle>>

chunks(n, dma, irq, size) ==
    Alone(do_encryption(n, dma, irq, size) \o <<passed>>)

DMA_IRQ_test1 == Alone(hello(SET, SET))
DMA_IRQ_test2 == Alone(two_handles(SET, SET))
DMA_IRQ_test3 == chunks(10, SET, SET, 1)
DMA_IRQ_test4 == chunks(10, SET, SET, 1020 * KB)
DMA_IRQ_test5 == chunks(5, SET, SET, 55 * KB)
DMA_test1 == Alone(hello(SET, UNSET))
DMA_test2 == Alone(two_handles(SET, UNSET))
DMA_test3 == chunks(10, SET, UNSET, 1)
DMA_test4 == chunks(10, SET, UNSET, 1020 * KB)
DMA_test5 == chunks(5, SET, UNSET, 55 * KB)
MMIO_IRQ_test1 == Alone(hello(UNSET, SET))
MMIO_IRQ_test2 == Alone(two_handles(UNSET, SET))
MMIO_IRQ_test3 == chunks(10, UNSET, SET, 1)
MMIO_IRQ_test4 == chunks(10, UNSET, SET, 32 * KB)
MMIO_IRQ_test5 == chunks(5, UNSET, SET, 55 * KB)
MMIO_test1 == Alone(hello(UNSET, UNSET))
MMIO_test2 == Alone(two_handles(UNSET, UNSET))
MMIO_test3 == chunks(10, UNSET, UNSET, 1)
MMIO_test4 == chunks(10, UNSET, UNSET, 32 * KB)
MMIO_test5 == chunks(5, UNSET, UNSET, 55 * KB)

-----------------------------------------------------------------------------
\* The programs that work in the card's own memory.
MappedRound(size) ==
    <<strncpy_card, create_encrpyted_buffer(30, 17),
      encrypt(size, 1), isValid("card", "expected"),
      decrypt(size, 1), isValid("card", "message")>>

mapped(irq, size) ==
    Alone(<<create_device_handle(UNSET, irq, 30, 17), map_card(size)>>
          \o MappedRound(size) \o <<unmap_card, passed, close_handle>>)

mapped_thrice(irq, size) ==
    Alone(<<create_device_handle(UNSET, irq, 30, 17),
            map_card(size), map_card(size), map_card(size),
            unmap_card, map_card(size)>> \o MappedRound(size)
          \o <<unmap_card, unmap_card, unmap_card, passed, close_handle>>)

\* The last call passes isMapped = 1 with a buffer of the program's own.
mapped_and_not(irq, size) ==
    Alone(<<create_device_handle(UNSET, irq, 30, 17), map_card(size),
            strncpy_card, create_encrpyted_buffer(30, 17), encrypt(size, 1),
            take, encrypt(size, 1), isValid("text", "expected"),
            isValid("card", "expected"), unmap_card, passed, close_handle>>)

MMAP_IRQ_test1 == mapped(SET, 13)
MMAP_IRQ_test2 == mapped(SET, 1020 * KB)
MMAP_IRQ_test3 == mapped_thrice(SET, 340 * KB)
MMAP_IRQ_test4 == mapped_and_not(SET, 1020 * KB)
MMAP_test1 == mapped(UNSET, 13)
MMAP_test2 == mapped(UNSET, 1020 * KB)
MMAP_test3 == mapped_thrice(UNSET, 340 * KB)
MMAP_test4 == mapped_and_not(UNSET, 1020 * KB)

-----------------------------------------------------------------------------
\* The programs with several processes.  Process 1 is main; a thread shares
\* its group.
Process(n, code) == [group |-> n, code |-> code]
WorkerThread(code) == [group |-> 1, code |-> code]

\* main forks two or three children and works beside them.
MP_test1 ==
    {<<Process(1, <<fork(2), fork(3)>> \o do_encryption(50, SET, SET, 1)
                  \o <<wait({2, 3}), passed>>),
       Process(2, do_encryption(100, SET, SET, 1)),
       Process(3, do_encryption(50, SET, SET, 1))>>}

MP_test2 ==
    {<<Process(1, <<fork(2), fork(3)>> \o do_encryption(50, UNSET, UNSET, 1555)
                  \o <<wait({2, 3}), passed>>),
       Process(2, do_encryption(100, UNSET, UNSET, 1555)),
       Process(3, do_encryption(50, UNSET, UNSET, 1555))>>}

MP_test3 ==
    {<<Process(1, Forks(<<2, 3, 4>>) \o do_encryption(50, UNSET, UNSET, 1020)
                  \o <<wait({2, 3, 4}), passed>>),
       Process(2, do_encryption(100, SET, SET, 1020)),
       Process(3, do_encryption(50, UNSET, SET, 1020)),
       Process(4, do_encryption(50, SET, UNSET, 1020))>>}

\* Child i of fifty: any MaxForks of them.
ForkedWork(i) ==
    CASE i % 4 = 0 -> do_encryption(500, UNSET, UNSET, 1)
      [] i % 4 = 1 -> do_encryption(20, UNSET, SET, 1555)
      [] i % 4 = 2 -> do_encryption(10, SET, UNSET, 1020 * KB)
      [] OTHER -> do_encryption(15, SET, SET, 4096)

Kids == 2 .. MaxForks + 1
KidList == Numbers(2, MaxForks + 1)

MP_test4 ==
    {<<Process(1, Forks(KidList) \o <<wait(Kids), passed>>)>>
        \o [n \in 1 .. MaxForks |-> Process(n + 1, ForkedWork(i[n]))] :
     i \in [1 .. MaxForks -> 0 .. 3]}

\* main kills each child a second after it forked it, and then works alone.
do_large_encryption(i) ==
    do_encryption(1, IF i % 4 \in {2, 3} THEN SET ELSE UNSET,
                  IF i % 4 \in {1, 3} THEN SET ELSE UNSET, FileSize)

ForkAndKill ==
    [n \in 1 .. 2 * MaxForks |->
        IF n % 2 = 1 THEN fork((n + 1) \div 2 + 1) ELSE kill(n \div 2 + 1)]

MP_test5 ==
    {<<Process(1, ForkAndKill \o do_encryption(200, SET, SET, 1055)
                  \o <<passed>>)>>
        \o [n \in 1 .. MaxForks |-> Process(n + 1, do_large_encryption(i[n]))] :
     i \in [1 .. MaxForks -> 0 .. 3]}

MP_test6 ==
    {<<WorkerThread(<<fork(2), fork(3), wait({2, 3}), passed, exit>>),
       WorkerThread(do_encryption(100, UNSET, UNSET, 1)),
       WorkerThread(do_encryption(100, UNSET, UNSET, 1))>>}

\* What worker makes of the value of param that it finds.
ChunkSize(param) ==
    CASE param % 4 = 0 -> 4096
      [] param % 4 = 1 -> 1020 * KB
      [] param % 4 = 2 -> 1
      [] OTHER -> 1555

ChunkCount(param) ==
    CASE param % 4 = 0 -> 50
      [] param % 4 = 2 -> 100
      [] OTHER -> 10

worker(param) ==
    LET v == (param + ChunkCount(param) + ChunkSize(param)) % 4 IN
    do_encryption(ChunkCount(param), IF v = 2 THEN UNSET ELSE SET,
                  IF v = 1 THEN UNSET ELSE SET, ChunkSize(param))

\* The threads read param, which main goes on to overwrite: any later value.
\* main then joins the last thread and eleven that thread1 never named,
\* which fail or crash, and leaves.
MP_test7 ==
    {<<WorkerThread(Forks(KidList) \o
                    <<wait({MaxForks + 1}), join_unset, passed, exit>>)>>
        \o [n \in 1 .. MaxForks |->
            WorkerThread(do_encryption(ChunkCount(i[n]), SET, SET,
                                       ChunkSize(i[n])))] :
     i \in [1 .. MaxForks -> 0 .. 3]}

MP_test8 ==
    {<<WorkerThread(Forks(KidList) \o <<wait(Kids), passed, exit>>)>>
        \o [n \in 1 .. MaxForks |-> WorkerThread(worker(i[n]))] :
     i \in [1 .. MaxForks -> 0 .. 3]}

\* The second child falls through to a thread of its own.
MP_test9 ==
    {<<Process(1, <<fork(2), fork(3), fork(4), fork(5), wait(2 .. 5), passed>>),
       Process(2, do_encryption(50, SET, SET, 1)),
       WorkerThread(do_encryption(100, SET, SET, 1)),
       Process(4, do_encryption(100, SET, SET, 1) \o <<passed>>),
       WorkerThread(do_encryption(100, SET, SET, 1))>>}

\* One child and one thread of fifty each.
MP_test10 ==
    {<<Process(1, <<fork(2), fork(3), wait({2, 3}), passed>>),
       Process(2, ForkedWork(i)), WorkerThread(worker(param))>> :
     i \in 0 .. 3, param \in 0 .. 3}

-----------------------------------------------------------------------------
\* The benchmarks turn the file forth and back, page by page, and compare
\* nothing; test1 prints what it gets.
Pages == FileSize \div 4096

benchmark(dma, irq) ==
    Alone(<<create_device_handle(dma, irq, 30, 17), take,
            encrypt(4096, 0), decrypt(4096, 0), again(3, Pages), close_handle>>)

mapped_benchmark(irq) ==
    Alone(<<create_device_handle(UNSET, irq, 30, 17), map_card(4096),
            strncpy_card, encrypt(4096, 1), decrypt(4096, 1), again(3, Pages),
            close_handle>>)

benchmark_dma == benchmark(SET, UNSET)
benchmark_dma_interrupt == benchmark(SET, SET)
benchmark_mmio == benchmark(UNSET, UNSET)
benchmark_mmio_interrupt == benchmark(UNSET, SET)
benchmark_mmap == mapped_benchmark(UNSET)
benchmark_mmap_interrupt == mapped_benchmark(SET)

test_case_1 ==
    Alone(<<take, create_device_handle(SET, SET, 30, 17), encrypt(12, 0),
            decrypt(12, 0), close_handle>>)

Suite ==
    [DMA_IRQ |-> <<DMA_IRQ_test1, DMA_IRQ_test2, DMA_IRQ_test3, DMA_IRQ_test4,
                   DMA_IRQ_test5>>,
     DMA |-> <<DMA_test1, DMA_test2, DMA_test3, DMA_test4, DMA_test5>>,
     MMIO_IRQ |-> <<MMIO_IRQ_test1, MMIO_IRQ_test2, MMIO_IRQ_test3,
                    MMIO_IRQ_test4, MMIO_IRQ_test5>>,
     MMIO |-> <<MMIO_test1, MMIO_test2, MMIO_test3, MMIO_test4, MMIO_test5>>,
     MMAP_IRQ |-> <<MMAP_IRQ_test1, MMAP_IRQ_test2, MMAP_IRQ_test3,
                    MMAP_IRQ_test4>>,
     MMAP |-> <<MMAP_test1, MMAP_test2, MMAP_test3, MMAP_test4>>,
     MP |-> <<MP_test1, MP_test2, MP_test3, MP_test4, MP_test5, MP_test6,
              MP_test7, MP_test8, MP_test9, MP_test10>>,
     benchmark |-> <<benchmark_dma, benchmark_dma_interrupt, benchmark_mmio,
                     benchmark_mmio_interrupt, benchmark_mmap,
                     benchmark_mmap_interrupt, test_case_1>>]

ASSUME ProgramsAssumption ==
    /\ MaxForks \in Nat \ {0}
    /\ Processors \in Nat \ {0}
    /\ \A x \in Tests : x[1] \in DOMAIN Suite /\ x[2] \in DOMAIN Suite[x[1]]
    /\ \A d \in DOMAIN Suite :   \* a long message has a second chunk
        MaxRounds[d] \in Nat \ {0} /\ MaxIoctls[d] \in Nat \ {0, 1}

-----------------------------------------------------------------------------
VARIABLES
    test,    \* the program that is run, as <<directory, number>>
    run,     \* its processes
    proc,    \* the state of each process
    card,    \* the message in the card's memory
    stuck,   \* cc_spinlock was never released
    late,    \* an interrupt came after the process that waited for it died
    hung     \* every processor spins for cc_spinlock, whose holder sleeps

vars == <<test, run, proc, card, stuck, late, hung>>

\* at: the next line.  calls: the ioctls of the current call so far, and part
\* what they made of their chunks.
Fresh(state) ==
    [state |-> state, verdict |-> "none", at |-> 1, round |-> 1, calls |-> 0,
     open |-> FALSE, fd |-> [dma |-> UNSET, irq |-> UNSET, key |-> 0],
     text |-> {0}, part |-> {}, expected |-> {0}]

Init ==
    /\ test \in Tests
    /\ run \in Suite[test[1]][test[2]]
    /\ proc = [t \in DOMAIN run |-> Fresh(IF t = 1 THEN "run" ELSE "new")]
    /\ card = {0}
    /\ stuck = FALSE
    /\ late = FALSE
    /\ hung = FALSE

Line(t) == run[t].code[proc[t].at]

\* t is about to execute a line of this kind.
At(t, what) ==
    /\ proc[t].state = "run"
    /\ proc[t].at <= Len(run[t].code)
    /\ Line(t).do = what

\* t's state with these changes, one line on.
Set(t, new) == proc' = [proc EXCEPT ![t] = new]
Onward(t) == [proc[t] EXCEPT !.at = @ + 1]

CreateDeviceHandle(t) ==
    /\ At(t, "open")
    /\ Set(t, [Onward(t) EXCEPT !.open = TRUE, !.fd = Line(t).fd])
    /\ UNCHANGED <<test, run, card, stuck, late>>

CloseHandle(t) ==
    /\ At(t, "close")
    /\ Set(t, [Onward(t) EXCEPT !.open = FALSE])
    /\ UNCHANGED <<test, run, card, stuck, late>>

Take(t) ==
    /\ At(t, "take")
    /\ Set(t, [Onward(t) EXCEPT !.text = {0}])
    /\ UNCHANGED <<test, run, card, stuck, late>>

(* strncpy to the mapped memory.                                           *)
Strncpy(t) ==
    /\ At(t, "strncpy")
    /\ card' = {0}
    /\ Set(t, Onward(t))
    /\ UNCHANGED <<test, run, stuck, late>>

\* The first and the last letters stand for a text, whose letters all shift alike.
Text == {65, 90, 97, 122}

(* The reference cipher of common/gen.c.                                   *)
Expect(t) ==
    /\ At(t, "expect")
    /\ Set(t, [Onward(t) EXCEPT
            !.expected = {Distance(x, encryptMessage(Line(t).a, Line(t).b, x)) : x \in Text}])
    /\ UNCHANGED <<test, run, card, stuck, late>>

Unexpect(t) ==
    /\ At(t, "unexpect")
    /\ Set(t, [Onward(t) EXCEPT
            !.expected = {Distance(x, decryptMessage(Line(t).a, Line(t).b, Shifted(x, d))) :
                              x \in Text, d \in @}])
    /\ UNCHANGED <<test, run, card, stuck, late>>

-----------------------------------------------------------------------------
\* The chunk sizes of encrypt and decrypt, and the command each chunk asks for.
Chunk(do) == IF do = "encrypt" THEN 32000 ELSE 32768

Ioctls(do, size) ==
    IF size <= Chunk(do) THEN 1
    ELSE size \div Chunk(do) + IF size % Chunk(do) = 0 THEN 0 ELSE 1

Command(do, size) ==
    IF do = "decrypt" /\ size <= Chunk(do) THEN "DECRYPT" ELSE "ENCRYPT"

\* Mutation of Turn: the alphabet has no end.
TurnOpen(cmd, k, x) ==
    IF x = JUNK THEN JUNK ELSE IF cmd = "ENCRYPT" THEN x + k ELSE x - k

Turn(cmd, k, x) ==
    IF x = JUNK THEN JUNK
    ELSE (IF cmd = "ENCRYPT" THEN x + k ELSE x - k) % LETTERS

Turned(t, message) ==
    {Turn(Command(Line(t).do, Line(t).size), proc[t].fd.key, x) : x \in message}

\* What one chunk can look like afterwards.  Once an interrupt came late, a
\* wait may end before the card is done, and the next caller may meet a card
\* that still works on the text before.
Outcomes(t) ==
    {Turned(t, proc[t].text)} \cup
        IF late THEN {proc[t].text, {JUNK}} ELSE {}

Calling(t) == At(t, "encrypt") \/ At(t, "decrypt")

LastCall(t) ==
    \/ proc[t].calls + 1 = Ioctls(Line(t).do, Line(t).size)
    \/ proc[t].calls + 1 = MaxIoctls[test[1]]

(* One ioctl for a chunk of the program's own buffer.                      *)
Ioctl(t) ==
    /\ Calling(t)
    /\ Line(t).mapped = 0
    /\ ~stuck
    /\ \E o \in Outcomes(t) :
        LET part == proc[t].part \cup o IN
        Set(t, IF LastCall(t)
               THEN [Onward(t) EXCEPT !.text = part, !.part = {}, !.calls = 0]
               ELSE [proc[t] EXCEPT !.part = part, !.calls = @ + 1])
    /\ UNCHANGED <<test, run, card, stuck, late>>

\* Mutation of IoctlMapped: the lock is released.
IoctlMappedUnlocks(t) ==
    /\ Calling(t)
    /\ Line(t).mapped = 1
    /\ ~stuck
    /\ card' = Turned(t, card)
    /\ Set(t, IF LastCall(t) THEN [Onward(t) EXCEPT !.calls = 0]
                             ELSE [proc[t] EXCEPT !.calls = @ + 1])
    /\ UNCHANGED <<test, run, stuck, late>>

(* One ioctl for a mapped message: the card works on the first chunk of    *)
(* its memory, and cc_spinlock stays held.                                 *)
IoctlMapped(t) ==
    /\ Calling(t)
    /\ Line(t).mapped = 1
    /\ ~stuck
    /\ card' = Turned(t, card) \cup
            IF Line(t).size <= Chunk(Line(t).do) THEN {} ELSE card
    /\ stuck' = TRUE
    /\ Set(t, IF LastCall(t) THEN [Onward(t) EXCEPT !.calls = 0]
                             ELSE [proc[t] EXCEPT !.calls = @ + 1])
    /\ UNCHANGED <<test, run, late>>

\* t waits for the card's interrupt, which a deadly signal ends.
Waiting(t) == Calling(t) /\ ~stuck /\ proc[t].fd.irq = SET

\* These processes die where they are.
Die(ts) ==
    late' \in {late} \cup IF \E u \in ts : Waiting(u) THEN {TRUE} ELSE {}

Others(t) ==
    {u \in DOMAIN run \ {t} :
        run[u].group = run[t].group /\ proc[u].state \in {"new", "run"}}

(* exit, with the verdict printed before: the other threads die with it.   *)
Leave(t, verdict) ==
    /\ proc' = [u \in DOMAIN run |->
            CASE u = t -> [proc[u] EXCEPT !.state = "exit", !.verdict = verdict]
              [] u \in Others(t) -> [proc[u] EXCEPT !.state = "killed"]
              [] OTHER -> proc[u]]
    /\ Die({u \in Others(t) : proc[u].state = "run"})
    /\ UNCHANGED <<test, run, card, stuck>>

Message(t) == IF Line(t).what = "text" THEN proc[t].text ELSE card
Wanted(t) == IF Line(t).with = "expected" THEN proc[t].expected ELSE {0}

(* isValid, and the exit after "Testcase failed".                          *)
\* Mutation of IsValid: the outcome of the comparison is not looked at.
IsValidIgnored(t) ==
    /\ At(t, "valid")
    /\ Set(t, Onward(t))
    /\ UNCHANGED <<test, run, card, stuck, late>>

IsValid(t) ==
    /\ At(t, "valid")
    /\ IF Message(t) = Wanted(t)
       THEN Set(t, Onward(t)) /\ UNCHANGED <<test, run, card, stuck, late>>
       ELSE Leave(t, "failed")

MapCard(t) ==
    /\ At(t, "map")
    /\ IF Line(t).size <= 1024 * KB - 168
       THEN Set(t, Onward(t)) /\ UNCHANGED <<test, run, card, stuck, late>>
       ELSE Leave(t, "failed")

UnmapCard(t) ==
    /\ At(t, "unmap")
    /\ Set(t, Onward(t))
    /\ UNCHANGED <<test, run, card, stuck, late>>

\* Mutation of Again: the rounds are not counted.
AgainUncounted(t) ==
    /\ At(t, "again")
    /\ Set(t, [proc[t] EXCEPT !.at = @ - Line(t).back])
    /\ UNCHANGED <<test, run, card, stuck, late>>

(* The end of a loop.                                                      *)
Again(t) ==
    /\ At(t, "again")
    /\ Set(t, IF proc[t].round < Line(t).n /\ proc[t].round < MaxRounds[test[1]]
              THEN [proc[t] EXCEPT !.at = @ - Line(t).back, !.round = @ + 1]
              ELSE Onward(t))
    /\ UNCHANGED <<test, run, card, stuck, late>>

Passed(t) ==
    /\ At(t, "passed")
    /\ Set(t, [Onward(t) EXCEPT !.verdict = "passed"])
    /\ UNCHANGED <<test, run, card, stuck, late>>

(* fork or pthread_create.                                                 *)
Fork(t) ==
    /\ At(t, "fork")
    /\ proc' = [proc EXCEPT ![t] = Onward(t),
                            ![Line(t).child] = Fresh("run")]
    /\ UNCHANGED <<test, run, card, stuck, late>>

(* kill with SIGKILL, of a child that may have ended by itself.            *)
Kill(t) ==
    LET c == Line(t).child IN
    /\ At(t, "kill")
    /\ proc' = [proc EXCEPT ![t] = Onward(t),
            ![c].state = IF @ = "run" THEN "killed" ELSE @]
    /\ Die({c})
    /\ UNCHANGED <<test, run, card, stuck>>

Ended(t) == proc[t].state \in {"exit", "killed"}

(* wait or pthread_join.                                                   *)
Wait(t) ==
    /\ At(t, "wait")
    /\ \A c \in Line(t).children : Ended(c)
    /\ Set(t, Onward(t))
    /\ UNCHANGED <<test, run, card, stuck, late>>

(* pthread_join of a variable that was never set fails or crashes.         *)
JoinUnset(t) ==
    /\ At(t, "join")
    /\ \/ Set(t, Onward(t)) /\ UNCHANGED <<test, run, card, stuck, late>>
       \/ Leave(t, "none")

Exit(t) ==
    /\ At(t, "exit")
    /\ Leave(t, proc[t].verdict)

(* The end of main, or of a thread's function.                             *)
Return(t) ==
    /\ proc[t].state = "run"
    /\ proc[t].at > Len(run[t].code)
    /\ Set(t, [proc[t] EXCEPT !.state = "exit", !.open = FALSE])
    /\ UNCHANGED <<test, run, card, stuck, late>>

Step(t) ==
    /\ t \in DOMAIN run
    /\ \/ CreateDeviceHandle(t)
       \/ CloseHandle(t)
       \/ Take(t)
       \/ Strncpy(t)
       \/ Expect(t)
       \/ Unexpect(t)
       \/ Ioctl(t)
       \/ IoctlMapped(t)
       \/ IsValid(t)
       \/ MapCard(t)
       \/ UnmapCard(t)
       \/ Again(t)
       \/ Passed(t)
       \/ Fork(t)
       \/ Kill(t)
       \/ Wait(t)
       \/ JoinUnset(t)
       \/ Exit(t)
       \/ Return(t)

(* t holds cc_spinlock and sleeps until the card's interrupt; meanwhile    *)
(* other callers take every processor and spin for the lock, with          *)
(* preemption off.  t gets none to wake up on, and nothing runs again.     *)
Starve(t) ==
    /\ t \in DOMAIN run
    /\ Waiting(t)
    /\ Cardinality({u \in DOMAIN run \ {t} : Calling(u)}) >= Processors
    /\ hung' = TRUE
    /\ UNCHANGED <<test, run, proc, card, stuck, late>>

Next ==
    /\ ~hung
    /\ \E t \in 1 .. MaxProc : \/ Step(t) /\ UNCHANGED hung
                               \/ Starve(t)

Spec == Init /\ [][Next]_vars

\* Some process that can go on does.
FairSpec == Spec /\ WF_vars(Next)

-----------------------------------------------------------------------------
TypeOK ==
    /\ test \in Tests
    /\ card \subseteq {JUNK} \cup 0 .. LETTERS - 1
    /\ stuck \in BOOLEAN
    /\ late \in BOOLEAN
    /\ hung \in BOOLEAN
    /\ \A t \in DOMAIN run :
        /\ proc[t].state \in {"new", "run", "exit", "killed"}
        /\ proc[t].verdict \in {"none", "passed", "failed"}
        /\ proc[t].at \in 1 .. Len(run[t].code) + 1
        /\ proc[t].round \in 1 .. MaxRounds[test[1]]
        /\ proc[t].text \subseteq {JUNK} \cup 0 .. LETTERS - 1
        /\ proc[t].part \subseteq {JUNK} \cup 0 .. LETTERS - 1
        /\ proc[t].expected \subseteq 0 .. LETTERS - 1

\* Does process t decrypt a message of more than one chunk of decrypt, or use
\* the card's memory?
Lines(t) == {run[t].code[n] : n \in DOMAIN run[t].code}
Calls(t) == {l \in Lines(t) : l.do \in {"encrypt", "decrypt"}}
Long(t) == \E l \in Calls(t) : l.do = "decrypt" /\ l.size > 32768
Maps(t) == \E l \in Calls(t) : l.mapped = 1

(* However processes and threads interleave and whichever modes they mix,  *)
(* a comparison fails only in a process that decrypts more than 32768      *)
(* bytes, or after a process was killed while it waited for the card.      *)
FailuresAreExplained ==
    \A t \in DOMAIN run :
        proc[t].verdict = "failed" => late \/ (Long(t) /\ ~Maps(t))

(* A process that comes to its end without a failed comparison has all of  *)
(* its message back, each chunk of it, unless a waiting process was killed.*)
(* The benchmarks compare nothing, so nothing else says this of them.      *)
MessageComesBack ==
    \A t \in DOMAIN run :
        proc[t].state = "exit" /\ proc[t].verdict # "failed" /\ ~late =>
            proc[t].text = {0}

(* A program that uses the card's memory never gets to its end, because    *)
(* its second ioctl waits for the lock that the first one kept.            *)
MappedNeverEnds == \A t \in DOMAIN run : Maps(t) => ~Ended(t)

\* The processes that call the card beside each other; the children that
\* main kills do so one after the other.
Killed == {l.child : l \in {m \in Lines(1) : m.do = "kill"}}
Callers == {t \in DOMAIN run \ Killed : Calls(t) # {}}
WithIrq(t) == \E l \in Lines(t) : l.do = "open" /\ l.fd.irq = SET

\* More of them than processors, one of which sleeps under the spinlock.
Crowded == Cardinality(Callers) > Processors /\ \E t \in Callers : WithIrq(t)

(* Every program ends, children and threads included, whatever is killed   *)
(* on the way, unless it uses the card's memory or has more callers than   *)
(* the machine has processors with an interrupt mode among them: the two   *)
(* ways in which the spinlock of the driver can stop a program for ever.   *)
ProgramsEnd ==
    <>(Crowded \/ \A t \in DOMAIN run : Ended(t) \/ proc[t].state = "new" \/ Maps(t))
=============================================================================
