---------------------------- MODULE BtplusTests ----------------------------
(***************************************************************************)
(* The test programs of Assignment_2 as clients of Btplus.  A program is a *)
(* sequence of calls and checks; it ends at the first check that fails.    *)
(* Sizes are scaled to a few pages, keeping which is larger than which and *)
(* which holes an area fits into.  ANY is the program that makes any calls *)
(* at all, within the bounds of its system.                                *)
(***************************************************************************)
EXTENDS Btplus, Sequences

CONSTANTS
    t0,        \* the thread of the program
    Suite      \* the programs to run on a system

\* 16 KB, 1 MB and 1 GB; a huge page is 2 MB.
MAP == 2
MB == 5
GB == 12

HUGE == 8

ASSUME TestsAssumption ==
    /\ t0 \in Thread /\ HUGE \in MB + 1 .. GB - 1
    /\ DOMAIN Suite = Systems
    /\ \A s \in Systems : s.huge = HUGE => s.threads = {t0} /\ s.top > s.base + GB

VARIABLES
    prog,      \* the program that runs
    ip,        \* its next instruction
    var,       \* its pointers
    verdict    \* "running", "passed" or "failed"

testvars == <<vars, prog, ip, var, verdict>>

ANY == <<"any">>

\* Instructions.  An address is a pointer and an offset in pages.
NULL == <<"NULL", 0>>
ptr == <<"ptr", 0>>
ptr1 == <<"ptr1", 0>>
ptr2 == <<"ptr2", 0>>
new == <<"new", 0>>
Plus(x, k) == <<x[1], x[2] + k>>
MMAP(r, hint, n, prot) == <<"mmap", r[1], hint, n, prot>>
MUNMAP(x, n) == <<"munmap", x, n>>
FILL(x, n) == [i \in 1 .. n |-> <<"store", Plus(x, i - 1)>>]
MVE_VMA_TO(x, y) == <<"MVE_VMA_TO", x, y>>
MVE_VMA(x) == <<"MVE_VMA", x>>
PROMOTE == <<"PROMOTE_VMA">>
COMPACT(x, n) == <<"COMPACT_VMA", x, n>>
SUCCEEDS == <<"returned", 0>>
FAILS == <<"returned", -1>>
READS(x, n) == [i \in 1 .. n |-> <<"reads", Plus(x, i - 1)>>]
SEGV(x) == <<"segv", x>>
SAME(x, y) == <<"same", x, y>>
POLL == <<"poll">>
PROMOTED == <<"promoted">>                 \* some pmd printed has become a huge page's
UNPROMOTED == <<"unpromoted">>             \* the first pmd printed is as before
ENTRY(k, x) == <<"entry", k, x>>           \* mapping[k].new = x >> 12
ENTRY_SEGV(k) == <<"entry segv", k>>       \* *(mapping[k].new << 12) faults
ENTRY_READS(k) == <<"entry reads", k>>     \* *mapping[k].new is what was stored
ENTRY_ANY(k) == <<"entry any", k>>         \* mapping[k].new, where k is not 0

-----------------------------------------------------------------------------
Area == <<MMAP(ptr, NULL, MAP, "rw")>>
AreaAnd(hint, n) == Area \o <<MMAP(ptr1, hint, n, "ro")>>
\* Unmap ptr1 to make a hole, and move ptr to its second page.
IntoHole == <<MUNMAP(ptr1, MB), MVE_VMA_TO(ptr, Plus(ptr1, 1)), SUCCEEDS>>

tc1 == AreaAnd(NULL, MB) \o FILL(ptr, MAP)
       \o <<MVE_VMA_TO(ptr, Plus(ptr1, 1)), FAILS>> \o READS(ptr, MAP)
tc2 == AreaAnd(NULL, MB)
       \o <<MUNMAP(ptr, MAP), MUNMAP(ptr1, MB), MVE_VMA_TO(ptr, Plus(ptr1, 1)), FAILS>>
tc3 == AreaAnd(NULL, MB) \o IntoHole \o <<SEGV(ptr)>>
tc4 == AreaAnd(NULL, MB) \o FILL(ptr, MAP) \o IntoHole \o READS(Plus(ptr1, 1), MAP)
tc5 == <<MMAP(ptr, NULL, GB, "rw"), MMAP(ptr1, NULL, MB, "ro")>> \o FILL(ptr, GB)
       \o <<MUNMAP(ptr1, MB), MVE_VMA_TO(ptr, Plus(ptr1, 1)), FAILS>>

\* Moved twice, the second time into a larger hole.
Twice(hint1, hint2) ==
    AreaAnd(hint1, MB) \o FILL(ptr, MAP) \o IntoHole
    \o <<MMAP(ptr2, hint2, HUGE, "ro"), MUNMAP(ptr2, HUGE),
         MVE_VMA_TO(Plus(ptr1, 1), Plus(ptr2, 1)), SUCCEEDS>>
    \o READS(Plus(ptr2, 1), 1)
tc6 == Twice(NULL, NULL)
tc7 == Twice(Plus(ptr, MAP), Plus(ptr1, MB))
tc8 == <<MMAP(ptr2, NULL, GB, "ro"), MUNMAP(ptr2, GB), MMAP(ptr, Plus(ptr2, 1), MAP, "rw"),
         MMAP(ptr1, NULL, MB, "ro")>>
       \o FILL(ptr, MAP) \o IntoHole
       \o <<MUNMAP(ptr, MAP), MVE_VMA_TO(Plus(ptr1, 1), ptr), SUCCEEDS>> \o READS(ptr, 1)
tc9 == tc4 \o tc4
tc10 == tc4 \o <<MUNMAP(ptr1, MB)>>

Move == <<MVE_VMA(ptr), SUCCEEDS>>
tc11 == Area \o FILL(ptr, MAP) \o Move \o READS(new, MAP)
tc12 == Area \o <<MUNMAP(ptr, MAP), MVE_VMA(ptr), FAILS>>
tc13 == Area \o Move \o <<SEGV(ptr)>>
tc14 == Area \o FILL(ptr, MAP) \o Move \o READS(new, MAP)
tc15 == <<MMAP(ptr, NULL, GB, "rw"), MMAP(ptr1, ptr, GB + 1, "ro")>> \o FILL(ptr, GB)
        \o <<MUNMAP(ptr1, GB + 1)>> \o Move \o <<SAME(new, ptr1)>>
Again == <<MVE_VMA(Plus(new, 1)), SUCCEEDS>> \o READS(new, 1)
tc16 == Area \o FILL(ptr, MAP) \o Move \o Again
\* The second area moved is read-only: its move stops silently.
tc17 == AreaAnd(Plus(ptr, MAP), MB) \o FILL(ptr, MAP) \o Move
        \o <<MVE_VMA(Plus(ptr1, 1)), SUCCEEDS>> \o READS(new, 1)
tc18 == <<MMAP(ptr2, NULL, GB, "ro"), MUNMAP(ptr2, GB), MMAP(ptr, Plus(ptr2, 1), MAP, "rw"),
          MMAP(ptr1, ptr, MAP, "ro")>>
        \o FILL(ptr, MAP) \o <<MUNMAP(ptr1, MAP)>> \o Move
        \o <<MUNMAP(ptr, MAP), MMAP(ptr2, ptr1, MAP, "rw"), MUNMAP(ptr2, MAP)>> \o Again
tc19 == LET turn == AreaAnd(NULL, MB) \o FILL(ptr, MAP) \o <<MUNMAP(ptr1, MB)>> \o Move
                    \o READS(new, MAP)
        IN  turn \o turn
tc20 == AreaAnd(ptr, MB) \o FILL(ptr, MAP) \o <<MUNMAP(ptr1, MB)>> \o Move
        \o READS(new, MAP) \o <<MUNMAP(new, MAP)>>

-----------------------------------------------------------------------------
\* Promotion: dt, a page for results, is mapped next to the area.
Data == <<MMAP(ptr2, NULL, 1, "rw")>>
Large(n) == <<MMAP(ptr, NULL, n, "rw")>> \o Data
\* Mapped once to learn an address, and again one page further up.
Aligned(n) == <<MMAP(ptr, NULL, n, "ro"), MUNMAP(ptr, n), MMAP(ptr, Plus(ptr, 1), n, "rw")>>
Promotion == <<PROMOTE, SUCCEEDS, POLL>>

tc21 == Aligned(2 * HUGE) \o Data \o FILL(ptr, 2 * HUGE) \o Promotion
        \o READS(ptr, 2 * HUGE) \o <<MUNMAP(ptr, 2 * HUGE)>>
tc22 == Aligned(2 * HUGE) \o Data \o Promotion \o <<MUNMAP(ptr, 2 * HUGE)>>
tc23 == Aligned(4) \o Data \o FILL(ptr, 4) \o Promotion \o READS(ptr, 4) \o <<MUNMAP(ptr, 4)>>
tc24 == Data \o <<MMAP(ptr, NULL, HUGE + 1, "rw")>> \o FILL(ptr, HUGE + 1)
        \o <<MMAP(ptr1, NULL, HUGE + 1, "rw")>> \o FILL(ptr1, HUGE + 1) \o Promotion
        \o READS(ptr, HUGE + 1) \o READS(ptr1, HUGE + 1)
tc25 == Large(GB) \o FILL(ptr, GB) \o <<PROMOTE, SUCCEEDS, MUNMAP(Plus(ptr, 6), 1), POLL>>
        \o READS(ptr, 6)
tc26 == Large(2 * HUGE) \o FILL(ptr, 2 * HUGE) \o Promotion \o <<MUNMAP(Plus(ptr, 4), 1)>>
tc27 == Large(2 * HUGE) \o FILL(ptr, 2 * HUGE) \o Promotion
        \o <<MUNMAP(Plus(ptr, 2), 4), MUNMAP(Plus(ptr, HUGE + 2), 4)>>
tc28 == Large(2 * HUGE) \o <<PROMOTE, SUCCEEDS>> \o FILL(ptr, 2) \o <<POLL>>
        \o FILL(Plus(ptr, HUGE), 2) \o <<POLL>>
Neighbours == <<MMAP(ptr, NULL, 6, "rw"), MMAP(ptr1, ptr, 6, "ro")>> \o Data
tc29 == Neighbours \o <<PROMOTE, SUCCEEDS>> \o FILL(ptr, 6) \o <<POLL>> \o FILL(ptr, 6)
tc30 == Neighbours \o <<PROMOTE, SUCCEEDS>> \o FILL(ptr, 6) \o <<POLL>> \o FILL(ptr, 6)

\* Compaction of an area of SIZE pages.
SIZE == 4
Compact(x, n) == <<COMPACT(x, n), SUCCEEDS>>
tc31 == Aligned(SIZE) \o FILL(Plus(ptr, SIZE - 1), 1) \o Compact(ptr, SIZE)
        \o <<ENTRY(SIZE - 1, ptr)>>
tc32 == Aligned(SIZE) \o <<COMPACT(ptr, SIZE), FAILS>>
tc33 == <<MMAP(ptr, NULL, SIZE, "rw")>> \o FILL(ptr, SIZE)
        \o <<MUNMAP(ptr, SIZE), COMPACT(ptr, SIZE), FAILS>>
tc34 == Aligned(SIZE) \o FILL(ptr, SIZE) \o <<COMPACT(ptr, 2 * SIZE), FAILS>>
tc35 == Aligned(2 * GB) \o FILL(ptr, GB) \o Compact(Plus(ptr, GB), GB) \o <<ENTRY_ANY(GB + 1)>>
tc36 == <<MMAP(ptr, NULL, SIZE, "rw")>> \o FILL(Plus(ptr, 3), 1) \o Compact(Plus(ptr, 2), 2)
        \o <<ENTRY(3, Plus(ptr, 2))>>
tc37 == Aligned(2 * GB) \o FILL(Plus(ptr, 2 * GB - 1), 1) \o Compact(ptr, 2 * GB)
        \o <<ENTRY_SEGV(0)>>
tc38 == Aligned(2 * HUGE) \o Data \o FILL(ptr, 1) \o FILL(Plus(ptr, 2), 1)
        \o Compact(ptr, 2 * HUGE) \o <<PROMOTED>>
tc39 == Aligned(SIZE) \o FILL(ptr, 1) \o FILL(Plus(ptr, 3), 1) \o Compact(ptr, SIZE)
        \o <<MUNMAP(ptr, SIZE)>>
tc40 == Aligned(2 * HUGE) \o Data \o FILL(ptr, 1) \o FILL(Plus(ptr, 2), 1)
        \o Compact(ptr, 2 * HUGE) \o <<UNPROMOTED>>

\* The sample programs.  part2 only prints what it polls.
Samples == <<MMAP(ptr, NULL, 1, "rw"), MMAP(ptr1, NULL, 1, "rw"), MMAP(ptr2, NULL, 1, "rw")>>
Unmapped == <<MUNMAP(ptr, 1), MUNMAP(ptr1, 1), MUNMAP(ptr2, 1)>>
part1_1 == Samples \o FILL(ptr1, 1) \o <<MVE_VMA_TO(ptr1, Plus(ptr1, HUGE)), SUCCEEDS>>
           \o READS(Plus(ptr1, HUGE), 1) \o Unmapped
part1_2 == Samples \o FILL(ptr1, 1) \o <<MVE_VMA(ptr1), SUCCEEDS>> \o READS(new, 1) \o Unmapped
part2 == <<MMAP(ptr, NULL, 2 * HUGE, "rw"), PROMOTE, SUCCEEDS>> \o FILL(ptr, 2 * HUGE)
         \o <<MUNMAP(ptr, 2 * HUGE)>>
part3 == <<MMAP(ptr, NULL, SIZE, "rw")>> \o FILL(ptr, 1) \o FILL(Plus(ptr, 2), 1)
         \o Compact(ptr, SIZE) \o <<ENTRY_READS(0), MUNMAP(ptr, SIZE)>>

Passing == {part1_1, part1_2, part3, tc1, tc2, tc3, tc4, tc6, tc7, tc8, tc9, tc10, tc11,
            tc12, tc13, tc14, tc16, tc17, tc18, tc19, tc20, tc37, tc39, tc40}
Failing == {part2, tc5, tc15, tc21, tc22, tc23, tc24, tc25, tc26, tc27, tc28, tc29,
            tc30, tc32, tc33, tc34, tc38}
Either == {tc31, tc35, tc36}   \* decided by an entry that was never written

-----------------------------------------------------------------------------
\* sysfs_show fills in nothing, so what is polled stays as the program set it.
SysfsShow(set) == set

\* The ranges whose pmd an ioctl that returned has changed: COMPACT_VMA writes
\* its table only, and PROMOTE_VMA does not return from its copy.
ChangedPmds == {}

At(x) == IF x = NULL THEN 0 ELSE var[x[1]] + x[2]

TestInit ==
    /\ Init
    /\ prog \in Suite[sys]
    /\ ip = 1
    /\ var = [r \in {"ptr", "ptr1", "ptr2"} |-> 0]
    /\ verdict = "running"

\* Pointers are assigned by mmap; new is what the struct of MVE_VMA holds.
Address(x) == IF x[1] = "new" THEN to_addr[t0] + x[2] ELSE At(x)

Check(ok) ==
    /\ verdict' = IF ok THEN verdict ELSE "failed"
    /\ UNCHANGED <<vars, var>>

Call(action) == action /\ UNCHANGED <<var, verdict>>

\* Entries other than that at index 0 hold what was on the stack.
Execute(i) ==
    CASE i[1] = "mmap" ->
           \E p \in UnmappedAreas(At(i[3]), i[4]) :
              /\ Mmap(t0, p, i[4], i[5])
              /\ var' = [var EXCEPT ![i[2]] = p]
              /\ UNCHANGED verdict
      [] i[1] = "munmap" ->
           IF \E q \in Pages(Address(i[2]), i[3]) : Mapped(q)
           THEN Call(Munmap(t0, Address(i[2]), i[3]))
           ELSE Check(TRUE)
      [] i[1] = "store" -> Call(Store(t0, Address(i[2]), 7))
      [] i[1] = "MVE_VMA_TO" -> Call(MveVmaTo(t0, Address(i[2]), Address(i[3]), "ok"))
      [] i[1] = "MVE_VMA" -> Call(MveVma(t0, Address(i[2]), "ok"))
      [] i[1] = "PROMOTE_VMA" -> Call(PromoteVma(t0))
      [] i[1] = "COMPACT_VMA" -> Call(CompactVma(t0, Address(i[2]), i[3], "ok"))
      [] i[1] = "returned" -> Check(ret[t0] = i[2])
      [] i[1] = "reads" ->
           Check(Mapped(Address(i[2])) /\ space[Address(i[2])] \in [prot : {"ro", "rw"}, val : {7}])
      [] i[1] = "segv" -> Check(~Mapped(Address(i[2])))
      [] i[1] = "same" -> Check(Address(i[2]) = Address(i[3]))
      [] i[1] = "poll" -> Check(SysfsShow(1) = 0)
      [] i[1] = "promoted" -> Check(ChangedPmds # {})
      [] i[1] = "unpromoted" -> Check(0 \notin ChangedPmds)
      [] i[1] \in {"entry", "entry any"} -> \E luck \in BOOLEAN : Check(luck)
      [] i[1] = "entry reads" ->
           Check(\E p \in Page : /\ table.to = p * PAGE_SIZE
                                 /\ Mapped(p) /\ space[p].val = 7)
      [] i[1] = "entry segv" -> Check(~Mapped(table.to))

Run ==
    /\ prog # ANY /\ pc[t0] = "user" /\ verdict = "running"
    /\ IF ip <= Len(prog)
       THEN Execute(prog[ip]) /\ ip' = ip + 1
       ELSE verdict' = "passed" /\ UNCHANGED <<vars, ip, var>>
    /\ UNCHANGED prog

Killed ==
    /\ prog # ANY /\ pc[t0] = "oops" /\ verdict = "running"
    /\ verdict' = "failed"
    /\ UNCHANGED <<vars, prog, ip, var>>

Work == Run \/ Killed

AnyCall(t) ==
    /\ prog = ANY
    /\ Ioctl(t) \/ Program(t)
    /\ UNCHANGED <<prog, ip, var, verdict>>

Serve(t) == Running(t) /\ UNCHANGED <<prog, ip, var, verdict>>

TestNext == Work \/ \E t \in Threads : AnyCall(t) \/ Serve(t)

\* A thread keeps running, in the kernel and in a test program.
TestSpec ==
    /\ TestInit /\ [][TestNext]_testvars
    /\ WF_testvars(Work)
    /\ \A t \in Thread : WF_testvars(Serve(t))

\* Every program of the suite fails or passes as the driver's code has it: the
\* moves pass but for tc5 and tc15, every promotion fails, a compaction that
\* ought to be refused is not, and one that ought to promote (tc38) does not.
Verdicts ==
    /\ prog \in Passing => verdict # "failed"
    /\ prog \in Failing => verdict # "passed"
=============================================================================
