# Verification of linux_project

The repository holds three Linux kernel assignments: a driver that answers
questions about threads (`Assignment_1`, three variants), a driver that moves,
promotes and compacts areas of a process's address space (`Assignment_2`), and
a PCI driver for an encryption card with its user-space library
(`Assignment_3`). This directory models their code, and the programs that test
it, in TLA+; checks the models with TLC on small instances; and proves the
central safety results with TLAPS for all instances.

The crypto card driver is the core: there threads, an interrupt handler and a
device interleave.

## Parts

| Part | Source | State and operations | Modelled by |
|---|---|---|---|
| ioctl path of the card driver | `Assignment_3/drivers/cryptocard.c` 100-340, 405-542 | per-file configuration, `cc_spinlock`, `wq_flag`, registers; SET_KEY, SET_CONFIG, ENCRYPT, DECRYPT, interrupt handler | `CryptoCard` |
| the card | QEMU binary, external | KEY, MMSTATUS, DMA_CMD, DMA_ADDR, INT_STATUS, data memory | `Cipher`, `CryptoCard` |
| library: encrypt, decrypt, keys, handles | `Assignment_3/src/crypter.c` 30-196 | chunk loop, descriptor | `Crypter` |
| library: map_card, unmap_card | `crypter.c` 203-234 | `map_size`, mappings | `CardMapping` |
| programs and benchmarks of the card | `A3_test_cases`, `benchmarks`, `test-cases` | clients of the library; reference cipher | `CardPrograms`, `Gen` |
| thread information, parts 1-3 | `Assignment_1/part{1,2,3}/driver.c` | selector, list of (pid, number) nodes; store, read, three walks | `ThreadInfo` |
| its programs | `test*.c`, `user_prog_1.c`, `multi*.c` | clients | `ThreadInfoTests` |
| btplus | `Assignment_2/btplus.c` | address space; MVE_VMA_TO, MVE_VMA, PROMOTE_VMA, COMPACT_VMA | `Btplus` |
| its programs | `tc1.c` to `tc40.c`, `part*.c` | clients | `BtplusTests` |
| life cycle of all seven drivers | init, exit, probe, remove, open, release of each | resources, module references, open counts | `DeviceLife` |

The parts meet in three places. The library's ioctls are the driver's contract
(`CipherService`, which `CryptoCard` is shown to implement), and the card's
programs are clients of that contract. The test programs of Assignments 1 and 2
run directly on the models of their drivers. `DeviceLife` is about the time
before and after what the other modules describe.

`PROJECT.json` lists the hazards of each part at the line where they bite, with
the properties that cover them, and for every definition the lines it models.

## Modules

**Cipher** — the data. A text is the name of its owner with the number of
places it has been shifted, or garbage; the card shifts by the two bytes of its
KEY register. `KeyWord` is the word the driver writes there (`a<<8|b`), and
`Wanted` what a caller expects.

**CryptoCard** — the driver beside the card. A thread's `pc` walks through
`cryptocard_ioctl` and the transfer routine it selects; `call` holds the
locals. The twelve routines differ only in register, command bits and way of
waiting, so they are one path with guards on `call[t].dma`, `.interrupt` and
`.isMapped`:

    EnterOp -> SpinLock -> ReadConfig -> SetStatus [-> MemcpyToIo]  (MMIO)
                                      -> DmaSetup                   (DMA)
      -> PollFree -> Trigger -> PollDone                            (polling)
                             -> WaitEvent | Interrupted -> ClearFlag
      -> MemcpyBack -> CopyToUser | CopyToUserFault

A mapped call ends after `PollDone` or `ClearFlag`, without an unlock, as in
the code. Separate steps are the accesses between which others can make a
difference: the two stores of SET_KEY, the two reads of the key bytes, the
trigger and the wait, the end of the wait and the reset of `wq_flag`, the
acknowledgement and the wake-up in the interrupt handler. Some accesses are taken
together: `ReadConfig` reads the second key byte and the modes, writes KEY and
copies the user's buffer, so that a SET_CONFIG of another thread on the same file
comes before or after all of these; and two interrupts that are pending at once
are acknowledged by one `IrqAck`. A thread gives up its processor in every
`WaitEvent`, also where the flag is already set and the code
would not sleep. `config` is per open
file; files may be shared. `clean` is a history variable: the call found the
card at rest and was neither hit by a signal, nor by a copy fault, nor by a
store through a mapping into its data. Processors are modelled because the lock
is a spinlock held across a sleep: a thread from `spin_lock` on keeps its
processor (`OnCpu`), except in `wait_event_interruptible`, and needs a free one
to enter or to wake up.

**CipherService** — what the driver promises: each file has a key pair, and an
operation replaces the caller's text by its cipher in one step.
**CryptoCardService** maps `CryptoCard` to it. A call takes effect at
`copy_to_user`, SET_KEY at its first store.

**Crypter** — encrypt and decrypt of the library. One step is one ioctl, with
the driver's contract as its effect; threads of one program share a descriptor.
`new` and `i` are the variables of the chunk loops; `orig`, `used` and
`faulted` are history. What an ioctl does is stated for calls no signal hits.

**CardMapping** — `map_card` and `unmap_card`. An address is a page. `map_card`
is two steps, the return of mmap and the store to the static `map_size`;
`unmap_card` passes that variable as length, whichever thread set it last.
`usual` is the size of a program that uses only one.

**Gen** — the reference cipher of `common/gen.c` over C's `char`: truncation to
eight bits with a sign, and a remainder that may be negative.

**CardPrograms** — the 38 evaluation programs, the six benchmarks and `test1`
as sequences of library calls, in processes and threads. A step is one line or
one ioctl. A message is the set of distances by which its letters are shifted,
so that a message whose chunks were treated differently has two elements.
An ioctl is one step, except that a process may be killed while it waits for
the card. `stuck` is the lock that a mapped call keeps, `late` the interrupt of a
process that died waiting, `hung` that every processor of the machine
(`Processors`, two in `start_vm.sh`) spins for the lock of a process that sleeps
(`Starve`).

**ThreadInfo** — the three drivers of Assignment_1, told apart by `Part`. A
section under `cs614_mutex`, a comparison of part 1's volatile number
(`Compare`), and a turn of one of part 3's walks (`WalkThreads`, `WalkFiles`,
`WalkStacks`) are one step each. The other actions are the kernel's side of a
process: threads are created, exit in two steps (`DropMm`, `Unlist`), files are
opened and closed, processes forked, pids used again. `mine` and the fields
`ever` and `steady` of a walk are history. Tasks that have left the list stay
readable, the leader of a process does not exit, and its file table is not
replaced by a larger one during a walk.

**Btplus** — the address space as a function from pages to contents, the four
ioctls with one step per lookup, mapping, unmapping and half of a page copy
(`CopyFromUser`, `CopyToUser`), beside other threads that map, unmap and store.
`vm_mmap` treats its address as a hint; the copy goes to `to_addr` wherever the
new area is; a fault in mid-copy ends the ioctl with 0. The copy of a promotion
(`PromoteCopy`) ends the caller: it starts at a page that is not mapped, and if
another thread has mapped that page by then, the model assumes that the kernel's
plain access to user memory, or the page-table walk behind it, does so too.
`snap`, `quiet` and `placed` in a call are history.

**ThreadInfoTests**, **BtplusTests** — interpreters for the programs of the
two assignments, given as sequences of calls and checks; the program `ANY`
makes any calls. `tc38.c` and `tc40.c` are judged by a script that compares the
page-table entries they print; `PROMOTED` and `UNPROMOTED` are these
comparisons.

**DeviceLife** — a driver is the sequence `Load` of the resources that its
initialisation gets, with what is undone and where control goes if that fails,
and the sequence `Unload` of its clean-up. insmod and rmmod work through them
while programs are at any point of open and release. `left` is what an earlier
load had left behind, which the load that follows neither owns nor gives back.
The kernel's rules for modules are external: rmmod needs a count of 0, a failed
initialisation frees the module whatever its count, and a device file that was
left behind leads to code that is no longer there. Where a clean-up is handed a
pointer this load never got, the model crashes, goes on, or may do either
(`Release`), as the kernel function at hand does.

**MC...** — the instances. **...Proofs** — the theorems. The inductive
invariants that need many definitions of their own are in **ThreadWalks** (for
`ThreadInfo`) and **CardOutlines** (for `CardPrograms`).

Definitions marked *Mutation of ...* are wrong variants of the definition that
follows them. Nothing refers to them; putting one in the place of its original
makes the property it is paired with in `PROJECT.json` fail.

## Runs

`tlc -config <cfg> <module>` in this directory.

| Run | Instance | What it shows |
|---|---|---|
| quiet | 2 threads, own files, a processor each, all modes of MMIO and DMA, one SET_KEY, fair | every call returns the right cipher, and returns (`EveryCallReturns`); no running transfer is touched; the lock is free only when the card is at rest; no freed DMA buffer is a target; the driver implements the service, its safety (`ImplementsServiceSafely`) and its liveness (`ImplementsService`) |
| faults | 2 threads on one file, its key changes, mapped calls, stores through the mapping, copy faults, signals | the lock may be lost, but `MutualExclusion` and `CleanCallIsCorrect` hold, and so does `IndInv`, the invariant of the proofs |
| starved | 3 threads, 2 processors, interrupts | **violated** `EveryCallReturns` |
| mapped | a mapped call among others | **violated** `EveryCallReturns` |
| killed | a signal hits one thread | **violated** `EveryCallIsCorrect` of the other |
| library | chunked calls beside set_key, close, mapped call, faults; two threads that map and unmap | `ChunksInStep`, `SuccessIsComplete`; `UnmapStays`, `HeldIsMapped`, and `LeakIsExact`: which pages unmap_card leaves behind |
| decrypt | decrypt of long messages | **violated** `DoesAsNamed` |
| programs | every program of the card, all interleavings, kills, exits | a program fails only for one of the named reasons (`FailuresAreExplained`); the message comes back; mapped programs never end; all others do, unless they have more callers than processors and one sleeps (`ProgramsEnd`) |
| answers | three drivers with their programs, and with any calls | which question a read answers, what unlocked walks count, that a read returns; the verdict of every program |
| areas | btplus with its programs, and with one or two threads that make any calls | what moves and failures leave behind, where the searches for a hole and for a huge page end, that ioctls return; the verdict of every program |
| promotion | the programs of btplus | **violated** `PromotesAllocated` |
| life_cycle | seven drivers, two programs, loaded twice, any step failing | references are counted and keep the module, what an absent module leaves registered, when the open count is exact |

The five violated properties are what the repository's tests and comments ask
of the code; `findings` in `PROJECT.json` quotes them.

- *starved*: all processors spin for the lock; its owner has been woken and
  finds none. `MultiProcess/test4.c` runs 50 processes on a two-processor VM.
- *mapped*: a mapped call never unlocks, the next call hangs.
- *killed*: after a signal the driver neither waits for the card nor remembers
  the outstanding interrupt; the next call in an interrupt mode takes the late
  wake-up for its own and returns unprocessed text.
- *decrypt*: above 32768 bytes `decrypt` issues ENCRYPT.
- *promotion*: the run of 2 MB is located from its last page and one page too
  low, so PROMOTE_VMA copies from a page that is not allocated, which ends the
  caller, while the assignment has it promote ranges "which are fully allocated".

### What the code does not do

Some properties of passing runs say how far the code gets. The exceptions they
name are behaviours of the code, some of them against the assignment's text or
tests (`findings` has those as well):

- `Verdicts` of *answers*: `test1.c` and `test13.c` always fail. The first
  compares the return value with the length of the answer, while the driver
  returns the length asked for; so it does for question 2, where the assignment
  wants the length of the command's name. The second expects the thread with the
  largest stack, as does the assignment ("pid of the thread that consumes maximum
  amount of user stack"), while all threads share one `stack_vm`: the answer is
  the reader, unless the stack grows during the walk (theorem `StackIsReaders`).
  `test10.c` may fail: it reads in another thread than the one that stored.
- `AnswersOwnChoice` has tasks that store numbers beyond 7. The drivers accept
  them, and the read that follows returns EINVAL; the assignment wants the store
  itself to return -EINVAL.
- `AnswersGlobal`: while other tasks store, a read of part 1 can miss every
  question and return EINVAL.
- `Verdicts` of *areas*: every promotion of a mapped run of huge-page size ends
  the caller (run *promotion*), and the status that the other promotion
  programs poll for is never filled in. `tc5.c` and `tc15.c` fail, and so do
  the programs that expect a compaction to be refused, and `tc38.c`, which
  expects one to promote. `tc31.c`, `tc35.c` and `tc36.c` are
  decided by a table entry that the driver never writes.
- `HoleIsLowest`: the search of MVE_VMA wants one page more than the area has
  and passes over a hole that fits exactly, where the assignment asks for "the
  first available hole after the passed VMA address range that fits the VMA".
  The property bounds the result by the lowest hole with a page to spare; a
  search that also took exact fits would satisfy it.
- `ProgramsEnd` excepts programs with more callers than processors of which one
  uses an interrupt mode: they may hang as in run *starved*. In the model these
  are MP_test1, 3 and 9; in the real programs, whose tests 4, 7, 8 and 10 have
  50 children or threads in place of two, those as well.
- `LeakIsExact`: unmap_card leaves the last page mapped when the header of 0xa8
  bytes takes the mapping to one page more.
- `AbsentLeaves`, `ReferenceKeepsModule`, `CounterIsExact`: a failed load of
  the Assignment_1 drivers may leave sysfs files and one of btplus the device
  file; the open count is reset after the device file is published, so an open
  before that is not counted (`early`); an open of the card without memory keeps
  its reference. The second load of an Assignment_1 driver after such a failure
  has no kobject of its own, and its rmmod crashes.

### Bounds

- *Card.* Two threads are enough for every conflict over the lock, the flag and
  the registers, one using MMIO and the other DMA. Starvation needs one thread
  more than processors, hence three. Three letters tell a text, its encryption
  and its decryption apart when the key sum is not a multiple of three; the key
  bytes on the heap (`HeapBytes`) and those of SET_KEY are chosen so that wrong
  and torn keys show. Where a run is about liveness only, the alphabet has one
  letter: control does not depend on texts.
- *Library.* Chunks of 2 and 3 bytes and messages up to 5: shorter than, equal
  to and longer than one and two chunks, with and without a rest. The alphabet
  of 7 keeps one shift, two shifts and other keys apart. Pages of 4 bytes with
  a header of 1, and sizes 3, 4, 8 and 9: those that fill their last page with
  and without the header, and one that is refused.
- *Programs of the card.* Sizes, chunk sizes and keys are those of the
  programs. Programs of one process keep their rounds and ioctls (bounds 10
  and 400); the multi-process ones have one round of three chunks, and two
  children or threads in place of 50. Two processors, as in the VM that
  `start_vm.sh` starts.
- *Thread information.* Three tasks; the ten threads of a program become two.
  Three stores, or three changes of the process during a read, reach every
  combination of one entry coming and one leaving behind and before the walk.
- *Areas.* The programs have 48 pages, with 16 KB, 1 MB, 2 MB and 1 GB scaled
  to 2, 5, 8 and 12 pages, which keeps their order and the holes they fit. Any
  calls are made on four layouts of eight pages and two of five: holes that fit
  an area exactly, with a page to spare, and not. A page holds one of two values
  or zero.
- *Life cycle.* Two programs, two loads, two opens that fail for want of memory.

The proofs remove these bounds for the properties they cover, those on rounds,
ioctls and children of the card's programs included. Two things stay: the
contents of a page are one of three values in `Btplus`, and the programs of the
card keep their own sizes and keys.

### Fairness

- *Card*: weak fairness for its completion, for the two steps of the interrupt
  handler and for the steps of a thread that runs. Strong fairness for
  `SpinLock`, because the kernel's queued spinlock serves its waiters in order,
  and for `WaitEvent`, because the scheduler gives free processors to runnable
  threads.
- *Programs of the card*: some process that can take a step does, until the
  machine hangs.
- *answers, areas*: a task in a system call keeps running, and so does a test
  program. In `ANY` nobody is assumed to make calls.
- *life_cycle*: none, its properties are about safety.

Signals, faults, failures and changes of a process are never assumed to happen.
Deadlock checking is off where the system may really stop: programs end, threads
get stuck behind a lost lock, and the bounds on calls run out.

## Proofs

All theorems hold for any values of the constants that satisfy the assumptions
below: any number of threads, tasks, files, keys, processors, sizes, pages and
calls.

**CryptoCardProofs.** `Invariance` proves `Spec => []IndInv`. The properties are
not inductive by themselves. `IndInv` adds, for each thread inside an
operation: it holds the lock; its route matches the modes it read; the
registers hold its command; its DMA buffer is allocated and is the card's
target; the completion of its transfer is in exactly one place (engine,
INT_STATUS, handler, `wq_flag`: `OneToken`); and the text is where it should be
and in the right shape. Whatever depends on an undisturbed card is claimed for
clean calls, or for all calls when `Signalled = {}`; `QuietInv` says that in
the latter case the card is at rest between operations even after the lock was
lost. There is one lemma per action: the threads that do not act are outside
(`OthersOutside`, since the lock admits one) or untouched (`OpInvFramed`), and
for the one that acts every conjunct that the action can disturb has a step.
From it follow

- `TypeCorrect`, `LockExcludes`, `CleanCallsCorrect`, without conditions;
- `QuietHandover`, `QuietDma`, `QuietResults`, if no thread is signalled;
- `QuietTransfers`, if also nobody stores through a mapping, and
  `QuietCallsCorrect`, if also copies do not fault.

`DriverImplementsService`, in the same module: every step of the driver is a
step of `CipherService` or none, where threads have files of their own and
nothing signals, faults or maps (`Undisturbed`). It needs that a thread inside
an operation still has its file's key (`KeyInv`).

**CrypterProofs.** `ChunksStayInStep` and `SuccessCoversMessage`, for all chunk
sizes and lengths, from `ChunkInvariance`: `new` is `i` chunks, the bytes
before it went through the card once, the others not at all.

Its second half is about `CardMapping`. `UnmapsStay` and `HeldMappingsAreWhole`
follow from `MapInvariance`. That an unmap leaves other mappings alone needs
that no two mappings in use start at the same page (`Distinct`), and that in a
program of one size `map_size` is that size whoever stored it (`OneSize`).
`LeaksAreExact` adds `LeakInv`: each unmap adds the same number of pages to
those that are mapped and held by nobody. The arithmetic of pages is in
`PagesOfMonotone` and `PagesOfPositive`.

**CardStepProofs, CardOutlineProofs, CardProgramsProofs.** `ProgramsTyped`,
`FailuresExplained`, `MessagesComeBack` and `MappedProgramsNeverEnd`, for all
45 programs and any number of rounds, ioctls and children. The argument is that
of Hoare's proof outlines. An outline (`Outline` in `CardOutlines`) notes before
each line of a program the data that a process may have there: its message, the
cipher it expects, its key, the card's memory, and whether the lock is lost.
`Rule` says that a line leads from the data before it to those after it, that a
loop's end leads back, and that a comparison comes out, unless the program
decrypts more than one chunk.

- `CardOutlineProofs` gives every program its outline (`SuiteIsSound`). Outlines
  are composed as programs are, from rules for one line, sequence and loop.
  Where a program compares the card's cipher with that of `common/gen.c`, the
  outline rests on two theorems about the latter. `ReferenceEncrypts`:
  encryptMessage shifts by a + b for all key bytes. `ReferenceRoundTrip`:
  decryptMessage undoes it if b is at most 128; beyond, the difference of two
  chars wraps.
- `CardStepProofs` shows that a step of one process keeps all processes in their
  outlines (`StepHolds`). The inductive invariant `ProgramsInv` says so of every
  running process as long as no interrupt came late, and what is left of those
  that have ended (`Explained`). Processes do not disturb each other's data
  because only programs of one process use the card's memory; in the others it
  stays as it was and the lock is never lost. Programs of one process kill
  nobody, so there no interrupt comes late.
- `CardProgramsProofs` puts the two together. The outline of a code that uses
  the card's memory notes nothing at its end: that is why such a program never
  gets there.

`ProgramsInv` names an outline by `CHOOSE` over sets of data that TLC cannot
enumerate, so the run checks its consequences and not the invariant itself.

**ThreadInfoProofs.** The invariants are in `ThreadWalks`, in four layers.

- `ReadInv` gives `OwnChoiceIsAnswered` (parts 2 and 3) and
  `GlobalNumberIsAnswered` (part 1): the node nearest to the head among those of
  a task holds what the task stored last (`Filed`), a read keeps it in its copy
  (`Local`), and in part 1 the questions compared so far are not all that the
  number has been since the read began (`Compared`).
- `GroupInv` gives `CountsArePlausible` for files. A count
  that has come to slot n lies between the slots before n that were open
  throughout and those that were ever open (`FileWalk`). A search over the
  stacks has the reader's own, unless the stack grew (`StackWalk`): that is
  `StackIsReaders`, which explains why `test13.c` fails.
- `SearchInv` gives `StackAnswersAreMembers`: the entry a search is at, and the
  one it has chosen, have been listed since it began, also where they have left
  by now (`SearchWalk`).
- `CountInv` gives `CountsArePlausible` for threads. The walk follows pointers
  of tasks that may have left the list, so a ring alone is not enough. The
  invariant orders the tasks by birth: every list is a ring in that order
  (`Ring`), a task that has left points past none that stays, and the count lies
  between the entries met so far that were listed throughout and those that
  were ever listed (`ThreadWalk`).

What these arguments need of cardinalities is collected in `Counting` and proved
once, in `CountingHolds`.

**BtplusProofs.** `MovesDeliver`, `MovesLoseNothing`, `HolesAreLowest`,
`FailuresChangeNothing` and `PromotionsFindRuns`, with `BtplusTypes`, from
`MoveInvariance`. An ioctl that no other thread has disturbed sees the address
space it began with until it maps its new area (`Same`); the two scans have a
run of pages behind them and have passed nothing that would have done
(`HoleScan`, `RunScan`); while pages are copied, those below the cursor are at
the new address as they were and all others are untouched (`Copying`). Of a
disturbed ioctl only the bounds of its area are kept. `Least` gives the end of
an area, as the least page of another kind.

**DeviceLifeProofs.** `ReferencesAreCounted` and `ReferencesKeepTheModule`, from
`LifeInvariance`: every program past try_module_get holds a reference
(`Exact`), rmmod starts at 0 and none can be had from then on (`Drained`), and
in all drivers but btplus an initialisation that can still fail has not yet
published the device file (`LoadShape`, `Unpublished`). `LifeTyped` and
`OpensAreCounted` need where each initialisation resets the open count
(`CountShape`): nobody is inside at that step unless an open came early, and from
there on the count is the number of programs between open and release
(`CountInv`). `LittleIsLeft` needs what is registered at each step of loading
and unloading, by this load or an earlier one (`HeldInv`), driver by driver.

Assumptions, all about the types and ranges of constants: `LettersAssumption`,
`NoneAssumption` (`Cipher`), `ConstantsAssumption` (`CryptoCard`),
`CrypterAssumption`, `MappingAssumption`, `ThreadInfoAssumption`,
`BtplusAssumption`, `DeviceLifeAssumption`, `ProgramsAssumption`
(`CardPrograms`). Three ranges are not of type only: a process has at least
three file slots, for stdin, stdout and stderr; the header of the card's memory
is at most a page; and a message of several chunks has at least two in the
programs of the card. The assumptions of `ThreadInfoTests` and `BtplusTests`
concern instances only. TLC evaluates each in a run.

### Only model-checked

- Liveness, which is outside the prover: `EveryCallReturns`, the liveness half
  of `ImplementsService`, `ProgramsEnd`, `ReadReturns`, `IoctlReturns`.
- Both `Verdicts`: what each test program of Assignments 1 and 2 comes to. They
  are about concrete programs on concrete address spaces and tasks: there is
  little to generalise over, and TLC covers every execution of the instance.
  What they rest on, the answers of a read and the effects of an ioctl, is
  proved.

## Not modelled

- Lengths in the card driver (`MMDATA_LEN`, `DMA_DATA_LEN`): a text is
  transferred as a whole. Lengths are the subject of `Crypter`.
- Failing `kmalloc` and `dma_alloc_coherent` in the ioctl path and in the store
  of parts 2 and 3, whose results are not checked, and sleeping under the lock.
- SET_KEY and SET_CONFIG dereference user pointers directly; the address is
  taken to be good.
- Interrupts during probe and remove: `CryptoCard` starts and ends loaded, and
  `DeviceLife` has no interrupts. The two hazards there have notes.
- Moves disturbed by another thread: the code copies without a lock and
  promises nothing about stores in between. The model has these behaviours, the
  properties are about the others.
- What `remap_pfn_range` and the page-table writes of a promotion do: the copy
  before them is taken to end the caller.
- In `ThreadInfo`: use of a freed `task_struct` or file table by a walk, and the
  exit of the leader (`part3/driver.c` 184-217).
- The error exits of `create_device_handle` in `common/gen.c` (66-85): opening
  the device and setting its modes and keys succeed.
- The answers to questions 0 to 4 of Assignment_1 are fields of the reader's
  task and not told apart; that the reader is the right one is checked.
- Reads and writes of the page-table test module and of the example character
  device, which share nothing; log messages.
- `crypter1.c`, which is not built; the templates handed out with the
  assignments; the evaluation scripts; the emulator's firmware.
