------------------------------- MODULE Btplus -------------------------------
(***************************************************************************)
(* The driver of Assignment_2: ioctls that move an area of the caller's    *)
(* address space to a given address (MVE_VMA_TO) or to the next hole above *)
(* it (MVE_VMA), promote pages to huge pages and compact a range.          *)
(*                                                                         *)
(* Addresses are page numbers; the program's addresses are page aligned.   *)
(* A page is mapped (mtree_load finds an area) or NONE; an area is a       *)
(* longest run of mapped pages of one protection, as neighbouring areas    *)
(* merge.  No ioctl holds a lock on the address space, so every lookup,    *)
(* mapping and page copy is a step of its own, between which the other     *)
(* threads of the process map, unmap and store.                            *)
(***************************************************************************)
EXTENDS Integers, FiniteSets, FiniteSetsExt

CONSTANTS
    Thread,      \* threads that share the address space
    Systems,     \* address spaces and what is done with them, see below
    NONE

PAGE_SIZE == 4096

\* Contents of a page; it starts as 0.
Values == {7, 8}
Contents(prots) == [prot : prots, val : Values \cup {0}]

ASSUME BtplusAssumption ==
    /\ NONE \notin Contents({"none", "ro", "rw"}) /\ NONE \notin Int
    /\ \A s \in Systems :
        /\ s.threads \subseteq Thread
        /\ s.top \in Nat /\ s.base \in 1 .. s.top /\ s.huge \in 1 .. s.top
        /\ s.prots \subseteq {"none", "ro", "rw"}
        /\ s.layout \in [1 .. s.top -> Contents(s.prots) \cup {NONE}]
        /\ s.users \subseteq {"ok", "readonly", "unreadable"}
        /\ s.topdown \in BOOLEAN
        /\ s.calls \in Nat /\ s.changes \in Nat

VARIABLES
    sys,         \* the system, an element of Systems
    space,       \* mm->mm_mt and the contents of the pages
    pc,          \* where each thread is in device_ioctl
    call,        \* its locals, and the history of the call
    ret,         \* what its last ioctl returned
    to_addr,     \* struct address of MVE_VMA: the address given back
    table,       \* the entry at index 0 of the mapping table of COMPACT_VMA
    calls, changes

vars == <<sys, space, pc, call, ret, to_addr, table, calls, changes>>

Threads == sys.threads     \* the threads there are
Top == sys.top             \* the last page a program can map, 0x7fffffffffff >> 12
Base == sys.base           \* mmap_base: pages above are mapped only where a hint says so
Huge == sys.huge           \* pages of a huge page, 512
Prots == sys.prots         \* protections in use
Users == sys.users         \* what the caller's struct allows, see Begin
TopDown == sys.topdown     \* the kernel maps at the highest free range, else at any
MaxCalls == sys.calls      \* bound: ioctls made
MaxChanges == sys.changes  \* bound: mmap, munmap and stores of the program itself
Page == 1 .. Top

Mapped(p) == p \in Page /\ space[p] # NONE
Pages(p, n) == p .. p + n - 1
Free(p, n) == Pages(p, n) \subseteq Page /\ \A q \in Pages(p, n) : ~Mapped(q)

\* The page behind the area of p: the first of another protection.
AreaEnd(p) ==
    Min({q \in p .. Top + 1 : q > Top \/ ~Mapped(q) \/ space[q].prot # space[p].prot})

\* snap is the address space when the ioctl began, quiet that no other thread
\* has changed it since, placed where vm_mmap put the new area.
NoCall == [cmd |-> "none", from |-> 0, to |-> 0, size |-> 0, prot |-> "none",
           at |-> 0, j |-> 0, buff |-> 0, user |-> "ok",
           snap |-> NONE, quiet |-> TRUE, placed |-> NONE]

Init ==
    /\ sys \in Systems
    /\ space = sys.layout
    /\ pc = [t \in Thread |-> "user"]
    /\ call = [t \in Thread |-> NoCall]
    /\ ret = [t \in Thread |-> 0]
    /\ to_addr = [t \in Thread |-> NONE]
    /\ table = NONE
    /\ calls = 0 /\ changes = 0

-----------------------------------------------------------------------------
Go(t, label, c) ==
    /\ pc' = [pc EXCEPT ![t] = label]
    /\ call' = [call EXCEPT ![t] = c]
    /\ UNCHANGED <<ret, to_addr, table>>

Return(t, r) ==
    /\ pc' = [pc EXCEPT ![t] = "user"]
    /\ call' = [call EXCEPT ![t] = NoCall]
    /\ ret' = [ret EXCEPT ![t] = r]

Fail(t, r) == Return(t, r) /\ UNCHANGED <<to_addr, table>>

Idle == UNCHANGED <<sys, space, calls, changes>>

Enter(t) ==
    /\ pc[t] = "user" /\ calls < MaxCalls
    /\ calls' = calls + 1
    /\ UNCHANGED <<sys, space, changes>>

\* user says what copying from and to the caller's struct does: "unreadable",
\* "readonly" (read but not written) or "ok".
Begin(cmd, from, to, user) ==
    [NoCall EXCEPT !.cmd = cmd, !.from = from, !.to = to, !.user = user, !.snap = space]

\* MVE_VMA_TO: both addresses are looked up before anything else is done.
MveVmaTo(t, from, to, user) ==
    /\ Enter(t)
    /\ CASE user = "unreadable" -> Fail(t, 0)
         [] user # "unreadable" /\ (~Mapped(from) \/ Mapped(to)) -> Fail(t, -1)
         [] OTHER -> Go(t, "find", Begin("MVE_VMA_TO", from, to, user))

MveVma(t, from, user) ==
    /\ Enter(t)
    /\ CASE user = "unreadable" -> Fail(t, 0)
         [] user # "unreadable" /\ ~Mapped(from) -> Fail(t, -1)
         [] OTHER -> Go(t, "find", Begin("MVE_VMA", from, 0, user))

\* find_vma, and what is read of the area.
FindVma(t) ==
    LET c == call[t] IN
    /\ pc[t] = "find"
    /\ IF ~Mapped(c.from)
       THEN Fail(t, -1)
       ELSE LET end == AreaEnd(c.from)
                d == [c EXCEPT !.size = end - c.from, !.prot = space[c.from].prot]
            IN  IF c.cmd = "MVE_VMA_TO"
                THEN Go(t, "mmap", d)
                ELSE Go(t, "hole", [d EXCEPT !.at = end])
    /\ Idle

\* Mutations of FindHole: a mapped page does not restart the count; it is not
\* stepped over.
FindHoleNoReset(t) ==
    LET c == call[t]
        free == IF Mapped(c.at) THEN c.j ELSE c.j + 1
    IN  /\ pc[t] = "hole"
        /\ CASE c.at > Top -> Fail(t, -1)
             [] c.at <= Top /\ free = c.size + 1 ->
                  Go(t, "recheck", [c EXCEPT !.to = c.at - c.size, !.at = 0, !.j = 0])
             [] OTHER -> Go(t, "hole", [c EXCEPT !.at = @ + 1, !.j = free])
        /\ Idle

FindHoleStuck(t) ==
    LET c == call[t]
        free == IF Mapped(c.at) THEN 0 ELSE c.j + 1
    IN  /\ pc[t] = "hole"
        /\ CASE c.at > Top -> Fail(t, -1)
             [] c.at <= Top /\ free = c.size + 1 ->
                  Go(t, "recheck", [c EXCEPT !.to = c.at - c.size, !.at = 0, !.j = 0])
             [] c.at <= Top /\ free = 0 -> Go(t, "hole", [c EXCEPT !.j = 0])
             [] OTHER -> Go(t, "hole", [c EXCEPT !.at = @ + 1, !.j = free])
        /\ Idle

\* MVE_VMA wants size + 1 free pages in a row and leaves the last one free.
FindHole(t) ==
    LET c == call[t]
        free == IF Mapped(c.at) THEN 0 ELSE c.j + 1
    IN  /\ pc[t] = "hole"
        /\ CASE c.at > Top -> Fail(t, -1)
             [] c.at <= Top /\ free = c.size + 1 ->
                  Go(t, "recheck", [c EXCEPT !.to = c.at - c.size, !.at = 0, !.j = 0])
             [] OTHER -> Go(t, "hole", [c EXCEPT !.at = @ + 1, !.j = free])
        /\ Idle

Recheck(t) ==
    /\ pc[t] = "recheck"
    /\ IF Mapped(call[t].to) THEN Fail(t, -1) ELSE Go(t, "mmap", call[t])
    /\ Idle

\* vm_mmap without MAP_FIXED: to_addr is a hint, taken when all of the range
\* is free; else the kernel chooses.
UnmappedAreas(hint, n) ==
    LET any == {p \in 1 .. Base - n + 1 : Free(p, n)}
    IN  IF hint \in Page /\ Free(hint, n) THEN {hint}
        ELSE IF TopDown /\ any # {} THEN {Max(any)} ELSE any

MapAt(p, n, prot) ==
    [q \in Page |-> IF q \in Pages(p, n) THEN [prot |-> prot, val |-> 0] ELSE space[q]]
Unmap(p, n) == [q \in Page |-> IF q \in Pages(p, n) THEN NONE ELSE space[q]]

\* The history: what t does disturbs the calls of all others.
Disturb(c, t) == [u \in Thread |-> IF u = t THEN c[u] ELSE [c[u] EXCEPT !.quiet = FALSE]]

Step(t, label, c) ==
    /\ pc' = [pc EXCEPT ![t] = label]
    /\ call' = Disturb([call EXCEPT ![t] = c], t)
    /\ UNCHANGED <<sys, ret, to_addr, table, calls, changes>>

VmMmap(t) ==
    LET c == call[t]
        areas == UnmappedAreas(c.to, c.size)
    IN  /\ pc[t] = "mmap"
        /\ \/ /\ areas = {}
              /\ Fail(t, -1) /\ Idle
           \/ \E p \in areas :
                 /\ space' = MapAt(p, c.size, c.prot)
                 /\ Step(t, "read", [c EXCEPT !.placed = p])

\* Mutation of CopyFromUser: a fault is reported, with the new area left behind.
CopyFromUserFails(t) ==
    LET c == call[t]
        p == c.from + c.at
    IN  /\ pc[t] = "read"
        /\ IF Mapped(p) /\ space[p].prot # "none"
           THEN Go(t, "write", [c EXCEPT !.buff = space[p].val])
           ELSE Fail(t, -1)
        /\ Idle

\* The copy uses to_addr, not the address that vm_mmap returned; a fault ends
\* the ioctl with 0 and leaves the new area behind.
CopyFromUser(t) ==
    LET c == call[t]
        p == c.from + c.at
    IN  /\ pc[t] = "read"
        /\ IF Mapped(p) /\ space[p].prot # "none"
           THEN Go(t, "write", [c EXCEPT !.buff = space[p].val])
           ELSE Fail(t, 0)
        /\ Idle

\* Mutation of CopyToUser: only the first page is copied.
CopyToUserFirst(t) ==
    LET c == call[t]
        p == c.to + c.at
    IN  /\ pc[t] = "write"
        /\ \/ /\ Mapped(p) /\ space[p].prot = "rw"
              /\ space' = [space EXCEPT ![p].val = c.buff]
              /\ Step(t, "munmap", [c EXCEPT !.at = @ + 1, !.buff = 0])
           \/ /\ ~(Mapped(p) /\ space[p].prot = "rw")
              /\ Fail(t, 0) /\ Idle

CopyToUser(t) ==
    LET c == call[t]
        p == c.to + c.at
        last == c.at + 1 = c.size
    IN  /\ pc[t] = "write"
        /\ \/ /\ Mapped(p) /\ space[p].prot = "rw"
              /\ space' = [space EXCEPT ![p].val = c.buff]
              /\ Step(t, IF last THEN "munmap" ELSE "read",
                      [c EXCEPT !.at = @ + 1, !.buff = 0])
           \/ /\ ~(Mapped(p) /\ space[p].prot = "rw")
              /\ Fail(t, 0) /\ Idle

\* Mutation of VmMunmap: the last page of the area stays mapped.
VmMunmapShort(t) ==
    LET c == call[t] IN
    /\ pc[t] = "munmap"
    /\ space' = Unmap(c.from, c.size - 1)
    /\ Step(t, "result", c)

VmMunmap(t) ==
    LET c == call[t] IN
    /\ pc[t] = "munmap"
    /\ space' = Unmap(c.from, c.size)
    /\ Step(t, "result", c)

\* MVE_VMA reports the new address, and -1 if that cannot be written.
Result(t) ==
    LET c == call[t] IN
    /\ pc[t] = "result"
    /\ IF c.cmd = "MVE_VMA" /\ c.user = "readonly"
       THEN Fail(t, -1)
       ELSE /\ Return(t, 0)
            /\ to_addr' = [to_addr EXCEPT ![t] = IF c.cmd = "MVE_VMA" THEN c.to ELSE @]
            /\ UNCHANGED table
    /\ Idle

-----------------------------------------------------------------------------
(* PROMOTE_VMA looks for the first Huge mapped pages in a row and copies   *)
(* as many, beginning one page before them.                                *)
PromoteVma(t) ==
    /\ Enter(t)
    /\ Go(t, "promote", Begin("PROMOTE_VMA", 0, 0, "ok"))

\* Mutation of PromoteScan: a hole does not restart the count.
PromoteScanNoReset(t) ==
    LET c == call[t]
        run == IF Mapped(c.at) THEN c.j + 1 ELSE c.j
    IN  /\ pc[t] = "promote"
        /\ CASE c.at > Top -> Fail(t, 0)
             [] c.at <= Top /\ run = Huge ->
                  Go(t, "copy", [c EXCEPT !.from = c.at - Huge, !.j = 0])
             [] OTHER -> Go(t, "promote", [c EXCEPT !.at = @ + 1, !.j = run])
        /\ Idle

PromoteScan(t) ==
    LET c == call[t]
        run == IF Mapped(c.at) THEN c.j + 1 ELSE 0
    IN  /\ pc[t] = "promote"
        /\ CASE c.at > Top -> Fail(t, 0)
             [] c.at <= Top /\ run = Huge ->
                  Go(t, "copy", [c EXCEPT !.from = c.at - Huge, !.j = 0])
             [] OTHER -> Go(t, "promote", [c EXCEPT !.at = @ + 1, !.j = run])
        /\ Idle

\* The memcpy is no copy_from_user: a page that is not mapped kills the caller.
\* Assumed of the machine: were the page mapped by now, the kernel's access to a
\* user page, or the page table walk on the copy's own address, ends it as well.
PromoteCopy(t) ==
    /\ pc[t] = "copy"
    /\ Go(t, "oops", NoCall)
    /\ Idle

-----------------------------------------------------------------------------
(* COMPACT_VMA.  i stops at the first hole of the range, j at the last     *)
(* mapped page above i, and the loop ends if j >= i.  Until then only the  *)
(* entry at index 0 is written, with byte addresses, and again behind the  *)
(* loop; past that test the copy from the hole at i would fault.           *)
Hole(from, end) == Min({i \in from .. end : i = end \/ ~Mapped(i)})
Last(i, end) == Max({j \in i .. end : j = i \/ Mapped(j)})

CompactVma(t, from, length, user) ==
    /\ Enter(t)
    /\ \/ /\ user # "ok"
          /\ Fail(t, 0)
       \/ /\ user = "ok"
          /\ LET i == Hole(from, from + length)
                 j == Last(i, from + length)
             IN  IF j >= i
                 THEN /\ Return(t, 0)
                      /\ table' = [from |-> from * PAGE_SIZE, to |-> from * PAGE_SIZE]
                      /\ UNCHANGED to_addr
                 ELSE Fail(t, 0)

-----------------------------------------------------------------------------
(* What the program does itself.                                           *)
Change(t) ==
    /\ pc[t] = "user" /\ changes < MaxChanges
    /\ changes' = changes + 1
    /\ call' = Disturb(call, t)
    /\ UNCHANGED <<sys, pc, ret, to_addr, table, calls>>

Mmap(t, p, n, prot) == Change(t) /\ space' = MapAt(p, n, prot)

Munmap(t, p, n) ==
    /\ Change(t)
    /\ \E q \in Pages(p, n) : Mapped(q)
    /\ space' = Unmap(p, n)

Store(t, p, v) ==
    /\ Change(t)
    /\ Mapped(p) /\ space[p].prot = "rw"
    /\ space' = [space EXCEPT ![p].val = v]

-----------------------------------------------------------------------------
Ioctl(t) ==
    \/ \E from, to \in Page, user \in Users : MveVmaTo(t, from, to, user)
    \/ \E from \in Page, user \in Users : MveVma(t, from, user)
    \/ PromoteVma(t)
    \/ \E from \in Page, user \in Users :
          \E length \in 0 .. Top - from : CompactVma(t, from, length, user)

Running(t) ==
    \/ FindVma(t)
    \/ FindHole(t)
    \/ Recheck(t)
    \/ VmMmap(t)
    \/ CopyFromUser(t)
    \/ CopyToUser(t)
    \/ VmMunmap(t)
    \/ Result(t)
    \/ PromoteScan(t)
    \/ PromoteCopy(t)

Program(t) ==
    \/ \E n \in 1 .. 2, prot \in Prots : \E p \in UnmappedAreas(0, n) : Mmap(t, p, n, prot)
    \/ \E p \in Page, n \in 1 .. 2 : Munmap(t, p, n)
    \/ \E p \in Page, v \in Values : Store(t, p, v)

Next == \E t \in Threads : Ioctl(t) \/ Running(t) \/ Program(t)

Spec == Init /\ [][Next]_vars

\* A thread in the kernel keeps running.
FairSpec == Spec /\ \A t \in Thread : WF_vars(Running(t))

-----------------------------------------------------------------------------
Moving(t) == pc[t] \in {"read", "write", "munmap", "result"}
Undisturbed(t) == call[t].quiet /\ call[t].placed = call[t].to
Leaves(t) == pc[t] # "user" /\ pc'[t] = "user"
Old(c) == Pages(c.from, c.size)
New(c) == Pages(c.to, c.size)

\* What the address space is after a move.
Moved(c) ==
    [p \in Page |-> CASE p \in Old(c) -> NONE
                      [] p \in New(c) -> c.snap[c.from + p - c.to]
                      [] OTHER -> c.snap[p]]

TypeOK ==
    /\ sys \in Systems
    /\ space \in [Page -> Contents(Prots) \cup {NONE}]
    /\ pc \in [Thread -> {"user", "find", "hole", "recheck", "mmap", "read", "write",
                          "munmap", "result", "promote", "copy", "oops"}]
    /\ \A t \in Thread : Moving(t) => Old(call[t]) \subseteq Page /\ New(call[t]) \subseteq Int

\* A move into a hole that holds the whole area, undisturbed by other threads,
\* unmaps the old pages, has their contents and protection at the new address,
\* and leaves every other page as it was.
MoveDelivers ==
    \A t \in Thread : pc[t] = "result" /\ Undisturbed(t) => space = Moved(call[t])

\* At every step of such a move, and so wherever it stops on a fault, each page
\* of the program is still there or already at its new address.
NothingLost ==
    \A t \in Thread : Moving(t) /\ Undisturbed(t) =>
        LET c == call[t] IN
        \A p \in Page : c.snap[p] # NONE =>
            \/ space[p] = c.snap[p]
            \/ p \in Old(c) /\ space[c.to + p - c.from] = c.snap[p]

\* Undisturbed, MVE_VMA goes to free pages above the area, to none higher than
\* the lowest range with a page to spare, and fails only when there is no such
\* range.  (The search passes over a range that the area fills to the last page.)
HoleIsLowest ==
    [][\A t \in Thread : LET c == call[t]
                             end == AreaEnd(c.from)
                             roomy == {h \in end .. Top : Free(h, c.size + 1)}
                         IN  pc[t] = "hole" /\ c.quiet =>
          /\ pc'[t] = "user" => roomy = {}
          /\ pc'[t] = "recheck" => /\ end <= call'[t].to /\ Free(call'[t].to, c.size)
                                   /\ \A h \in roomy : call'[t].to <= h]_vars

\* A failure reported by an undisturbed ioctl that did not get to unmapping
\* has changed nothing.
FailureChangesNothing ==
    [][\A t \in Thread :
          Leaves(t) /\ ret'[t] = -1 /\ call[t].quiet /\ pc[t] # "result" =>
              space' = call[t].snap]_vars

\* Undisturbed, the search of PROMOTE_VMA ends at the last of Huge mapped pages
\* in a row, and returns without a promotion only when there are none.
PromotionFindsRun ==
    [][\A t \in Thread : pc[t] = "promote" /\ call[t].quiet =>
          LET run(p) == \A q \in Pages(p, Huge) : Mapped(q) IN
          /\ pc'[t] = "copy" => run(call[t].at - Huge + 1)
          /\ pc'[t] = "user" => \A p \in Page : ~run(p)]_vars

\* PROMOTE_VMA promotes ranges "which are fully allocated": undisturbed, every
\* page it is about to copy is mapped.  The code copies from one page too low.
PromotesAllocated ==
    \A t \in Thread : pc[t] = "copy" /\ call[t].quiet =>
        \A q \in Pages(call[t].from, Huge) : Mapped(q)

\* Every ioctl comes to an end.
IoctlReturns ==
    \A t \in Thread : pc[t] # "user" ~> pc[t] \in {"user", "oops"}
=============================================================================
