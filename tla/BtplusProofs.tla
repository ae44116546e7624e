---------------------------- MODULE BtplusProofs ----------------------------
(***************************************************************************)
(* Moves, searches and promotions of the btplus driver, for any number of  *)
(* threads, any address space and any number of ioctls.                    *)
(*                                                                         *)
(* A quiet ioctl is one no other thread has disturbed.  Until it maps its  *)
(* new area it sees the address space it began with (Same).  Its two scans *)
(* keep a run of pages behind them (HoleScan, RunScan) and have passed     *)
(* nothing that would have done.  While it copies, the pages below         *)
(* to + at are those of the old area, and all others are untouched         *)
(* (Copying).  Of a disturbed ioctl only the bounds of its area are known. *)
(***************************************************************************)
EXTENDS Btplus, WellFoundedInduction, TLAPS

\* The locals of an ioctl.
Shape(c) ==
    /\ DOMAIN c = {"cmd", "from", "to", "size", "prot", "at", "j", "buff", "user",
                   "snap", "quiet", "placed"}
    /\ c.from \in Int /\ c.to \in Int /\ c.size \in Int /\ c.at \in Int /\ c.j \in Int
    /\ c.quiet \in BOOLEAN

Labels == {"user", "find", "hole", "recheck", "mmap", "read", "write", "munmap",
           "result", "promote", "copy", "oops"}

Types ==
    /\ sys \in Systems
    /\ space \in [Page -> Contents(Prots) \cup {NONE}]
    /\ pc \in [Thread -> Labels]
    /\ DOMAIN call = Thread /\ \A t \in Thread : Shape(call[t])
    /\ DOMAIN ret = Thread

\* The area is inside the address space.
Area(c) ==
    /\ c.from \in Page /\ c.size >= 1 /\ c.from + c.size <= Top + 1
    /\ c.prot \in Prots

\* Its pages, as they were when the ioctl began.
Pieces(c) ==
    \A p \in Old(c) : /\ c.snap[p] \in Contents(Prots)
                      /\ c.snap[p].prot = c.prot

\* The page behind it is not part of it.
Bounded(c) ==
    \/ c.from + c.size > Top
    \/ ~Mapped(c.from + c.size)
    \/ space[c.from + c.size].prot # c.prot

Same(c) == c.quiet => space = c.snap

\* The search has j free pages behind it, and passed no hole.
HoleScan(c) ==
    /\ c.at - c.j >= c.from + c.size /\ c.at <= Top + 1
    /\ \A q \in c.at - c.j .. c.at - 1 : ~Mapped(q)
    /\ \A h \in c.from + c.size .. c.at - c.j - 1 : ~Free(h, c.size + 1)

\* The search for a huge page has j mapped pages behind it, before them one
\* that is not, and passed no run.
RunScan(c) ==
    /\ c.at <= Top + 1
    /\ \A q \in c.at - c.j .. c.at - 1 : Mapped(q)
    /\ ~Mapped(c.at - c.j - 1)
    /\ \A p \in Page : p < c.at - c.j => \E q \in Pages(p, Huge) : ~Mapped(q)

\* The destination was free.
Room(c) == New(c) \subseteq Page /\ \A p \in New(c) : c.snap[p] = NONE

\* The pages below to + at have been copied.
Copying(c) ==
    \A p \in Page :
        space[p] = IF p \notin New(c) THEN c.snap[p]
                   ELSE IF p < c.to + c.at THEN c.snap[c.from + p - c.to]
                   ELSE [prot |-> c.prot, val |-> 0]

Clear(c) == c.quiet /\ c.placed = c.to

\* What is known of an ioctl at label l.
Local(l, c) ==
    /\ l = "find" => c.from \in Page /\ c.at = 0 /\ c.j = 0 /\ Same(c)
    /\ l \in {"hole", "recheck", "mmap", "read", "write", "munmap", "result"} => Area(c)
    /\ l \in {"hole", "recheck", "mmap"} => Same(c) /\ (c.quiet => Pieces(c))
    /\ l = "hole" => c.j \in 0 .. c.size /\ (c.quiet => Bounded(c) /\ HoleScan(c))
    /\ l \in {"recheck", "mmap"} => c.at = 0
    /\ l \in {"read", "write"} => c.at \in 0 .. c.size - 1
    /\ l = "munmap" => c.at = c.size
    /\ l \in {"read", "write", "munmap", "result"} /\ Clear(c) => Pieces(c) /\ Room(c)
    /\ l \in {"read", "write", "munmap"} /\ Clear(c) => Copying(c)
    /\ l = "write" /\ Clear(c) => c.buff = c.snap[c.from + c.at].val
    /\ l = "write" => c.buff \in Values \cup {0}
    /\ l = "result" /\ Clear(c) => space = Moved(c)
    /\ l = "promote" => Same(c) /\ c.j \in 0 .. Huge - 1 /\ (c.quiet => RunScan(c))

MoveInv == Types /\ \A t \in Thread : Local(pc[t], call[t])

-----------------------------------------------------------------------------
\* The locals at the beginning.
LEMMA BeginFields ==
    ASSUME NEW cmd, NEW from \in Int, NEW to \in Int, NEW user,
           NEW d, d = Begin(cmd, from, to, user)
    PROVE  /\ Shape(d)
           /\ d.from = from /\ d.to = to /\ d.at = 0 /\ d.j = 0
           /\ d.quiet /\ d.snap = space
  BY DEF Shape, Begin, NoCall

\* ... and outside of an ioctl.
LEMMA NoCallFields == Shape(NoCall)
  BY DEF Shape, NoCall

-----------------------------------------------------------------------------
(* Systems, pages and areas.                                               *)

\* What BtplusAssumption says of the system at hand.
LEMMA SystemFacts ==
    ASSUME sys \in Systems
    PROVE  /\ Threads \subseteq Thread
           /\ Top \in Nat /\ Base \in 1 .. Top /\ Huge \in 1 .. Top
           /\ sys.layout \in [Page -> Contents(Prots) \cup {NONE}]
  BY Zenon, BtplusAssumption DEF Threads, Top, Base, Huge, Page, Prots

\* A page is its protection and its contents, and is not NONE.
LEMMA PageFacts ==
    ASSUME sys \in Systems, NEW r \in Contents(Prots)
    PROVE  /\ r = [prot |-> r.prot, val |-> r.val]
           /\ r.prot \in Prots /\ r.val \in Values \cup {0}
           /\ r # NONE
  <1>1. Prots \subseteq {"none", "ro", "rw"}
    BY Zenon, BtplusAssumption DEF Prots
  <1>2. r \in Contents({"none", "ro", "rw"})
    BY Zenon, <1>1 DEF Contents
  <1> QED BY Zenon, <1>2, BtplusAssumption DEF Contents

\* A set of numbers has a least element ...
LEMMA Least ==
    ASSUME NEW T, T \subseteq Nat, T # {}
    PROVE  \E x \in T : \A y \in T : x <= y
  <1>1. \E R : /\ IsWellFoundedOn(R, Nat)
               /\ \A x, y \in Nat : x < y => <<x, y>> \in R
    <2>1. IsWellFoundedOn(OpToRel(<, Nat), Nat)
      BY Zenon, NatLessThanWellFounded
    <2>2. \A x, y \in Nat : x < y => <<x, y>> \in OpToRel(<, Nat)
      BY Zenon DEF OpToRel
    <2> QED BY Zenon, <2>1, <2>2
  <1>2. SUFFICES ASSUME NEW R, IsWellFoundedOn(R, Nat),
                        \A x, y \in Nat : x < y => <<x, y>> \in R
                 PROVE  \E x \in T : \A y \in T : x <= y
    BY <1>1, Zenon
  <1>3. \A S, U : IsWellFoundedOn(R, S) /\ U \subseteq S /\ U # {}
                    => \E x \in U : \A y \in U : ~(<<y, x>> \in R)
    BY Zenon, WFMin
  <1>4. \E x \in T : \A y \in T : ~(<<y, x>> \in R)
    BY <1>2, <1>3, Zenon
  <1>5. PICK x \in T : \A y \in T : ~(<<y, x>> \in R)
    BY Zenon, <1>4
  <1>6. \A y \in T : ~(y < x)
    BY <1>2, <1>5, Zenon
  <1> QED BY <1>6

\* Min is that element.
LEMMA MinFacts ==
    ASSUME NEW T, T \subseteq Nat, T # {}
    PROVE  Min(T) \in T /\ \A y \in T : Min(T) <= y
  BY Zenon, Least DEF Min

\* ... and, below a bound, a greatest.
LEMMA MaxFacts ==
    ASSUME NEW k \in Int, NEW T, T \subseteq 1 .. k, T # {}
    PROVE  Max(T) \in T
  <1> DEFINE U == {k - x : x \in T}
  <1>1. U \subseteq Nat
    <2>1. \A x \in T : k - x \in Nat
      OBVIOUS
    <2> QED BY Zenon, <2>1
  <1>2. U # {}
    BY Zenon
  <1>3. PICK u \in U : \A v \in U : u <= v
    BY Zenon, <1>1, <1>2, Least
  <1>4. PICK x \in T : u = k - x
    BY Zenon
  <1>5. \A y \in T : k - x <= k - y
    BY Zenon, <1>3, <1>4
  <1>6. \A y \in T : x >= y
    <2>1. \A y \in T : y \in Int
      OBVIOUS
    <2> QED BY <1>5, <2>1
  <1> QED BY Zenon, <1>6 DEF Max

\* AreaEnd is where the run of pages with p's protection ends.
LEMMA AreaEndFacts ==
    ASSUME Types, NEW p \in Page, Mapped(p)
    PROVE  /\ AreaEnd(p) \in p + 1 .. Top + 1
           /\ \A q \in p .. AreaEnd(p) - 1 :
                  Mapped(q) /\ space[q].prot = space[p].prot
           /\ \/ AreaEnd(p) > Top
              \/ ~Mapped(AreaEnd(p))
              \/ space[AreaEnd(p)].prot # space[p].prot
  <1> DEFINE Ends(q) == q > Top \/ ~Mapped(q) \/ space[q].prot # space[p].prot
             T == {q \in p .. Top + 1 : Ends(q)}
  <1>1. Top \in Nat /\ p \in Nat /\ p <= Top
    BY SystemFacts DEF Types, Page
  <1>2. Top + 1 \in T /\ T \subseteq Nat
    BY <1>1
  <1>3. Min(T) \in T /\ \A y \in T : Min(T) <= y
    BY Zenon, <1>2, MinFacts
  <1>4. AreaEnd(p) = Min(T)
    BY Zenon DEF AreaEnd
  <1> HIDE DEF Ends
  <1>5. PICK e \in p .. Top + 1 : e = AreaEnd(p) /\ Ends(e) /\ \A y \in T : e <= y
    BY Zenon, <1>3, <1>4
  <1>6. \A q \in p .. e - 1 : ~Ends(q)
    BY <1>1, <1>5
  <1>7. ~Ends(p)
    BY <1>1 DEF Ends
  <1>8. e # p
    BY Zenon, <1>5, <1>7
  <1> QED BY <1>1, <1>5, <1>6, <1>8 DEF Ends

\* Any page with these properties is AreaEnd.
LEMMA AreaEndUnique ==
    ASSUME Types, NEW p \in Page, NEW e \in p + 1 .. Top + 1,
           \A q \in p .. e - 1 : Mapped(q) /\ space[q].prot = space[p].prot,
           e > Top \/ ~Mapped(e) \/ space[e].prot # space[p].prot
    PROVE  AreaEnd(p) = e
  <1>1. Top \in Nat /\ p \in Nat /\ p <= Top
    BY SystemFacts DEF Types, Page
  <1>2. Mapped(p)
    BY <1>1
  <1> DEFINE a == AreaEnd(p)
  <1>3. /\ a \in p + 1 .. Top + 1
        /\ \A q \in p .. a - 1 : Mapped(q) /\ space[q].prot = space[p].prot
        /\ a > Top \/ ~Mapped(a) \/ space[a].prot # space[p].prot
    BY Zenon, <1>2, AreaEndFacts
  <1> HIDE DEF a
  <1>4. ~(a < e)
    BY <1>1, <1>3
  <1>5. ~(e < a)
    BY <1>1, <1>3
  <1>6. a = e
    BY <1>1, <1>3, <1>4, <1>5
  <1> QED BY Zenon, <1>6 DEF a

\* vm_mmap puts an area where everything is free.
LEMMA MappedWhereFree ==
    ASSUME Types, NEW hint \in Int, NEW n \in Int, n >= 1,
           NEW p \in UnmappedAreas(hint, n)
    PROVE  p \in Page /\ Free(p, n)
  <1> DEFINE any == {q \in 1 .. Base - n + 1 : Free(q, n)}
  <1>1. Top \in Nat /\ Base \in 1 .. Top
    BY Zenon, SystemFacts DEF Types
  <1>2. any # {} => Max(any) \in any
    BY <1>1, MaxFacts
  <1>3. Free(p, n)
    BY Zenon, <1>2 DEF UnmappedAreas
  <1>4. p \in Int
    BY <1>1, <1>2 DEF UnmappedAreas
  <1> QED BY <1>3, <1>4 DEF Free, Pages, Page

-----------------------------------------------------------------------------
(* The shapes of a step, with the threads that do not take it.             *)

\* A step that leaves the address space alone.
LEMMA GoKeeps ==
    ASSUME MoveInv, NEW t \in Thread, NEW l \in Labels, NEW d,
           Shape(d), Local(l, d), Go(t, l, d), UNCHANGED <<sys, space>>
    PROVE  MoveInv'
  <1>1. /\ pc' = [pc EXCEPT ![t] = l] /\ call' = [call EXCEPT ![t] = d]
        /\ UNCHANGED <<sys, space, ret>>
    BY Zenon DEF Go
  <1>2. Types'
    BY Zenon, <1>1 DEF MoveInv, Types, Page, Top, Prots
  <1>3. ASSUME NEW u \in Thread
        PROVE  Local(pc[u], call[u])'
    <2>1. \A m, c : Local(m, c)' <=> Local(m, c)
      BY <1>1 DEF Local, Same, Area, Pieces, Bounded, HoleScan, RunScan, Room, Copying,
         Clear, Old, New, Moved, Mapped, Free, Pages, Page, Top, Huge, Prots
    <2>2. Local(pc'[u], call'[u])
      BY Zenon, <1>1 DEF MoveInv, Types
    <2> QED BY Zenon, <2>1, <2>2
  <1> QED BY Zenon, <1>2, <1>3 DEF MoveInv

\* The end of an ioctl.
LEMMA ReturnKeeps ==
    ASSUME MoveInv, NEW t \in Thread, NEW r, Return(t, r), UNCHANGED <<sys, space>>
    PROVE  MoveInv'
  <1>1. /\ pc' = [pc EXCEPT ![t] = "user"] /\ call' = [call EXCEPT ![t] = NoCall]
        /\ ret' = [ret EXCEPT ![t] = r]
    BY Zenon DEF Return
  <1>2. Types'
    BY Zenon, <1>1, NoCallFields DEF MoveInv, Types, Page, Top, Prots, Labels
  <1>3. ASSUME NEW u \in Thread
        PROVE  Local(pc[u], call[u])'
    <2>1. \A m, c : Local(m, c)' <=> Local(m, c)
      BY DEF Local, Same, Area, Pieces, Bounded, HoleScan, RunScan, Room, Copying,
         Clear, Old, New, Moved, Mapped, Free, Pages, Page, Top, Huge, Prots
    <2>2. Local("user", NoCall)
      BY Zenon DEF Local
    <2>3. Local(pc'[u], call'[u])
      BY Zenon, <1>1, <2>2 DEF MoveInv, Types
    <2> QED BY Zenon, <2>1, <2>3
  <1> QED BY Zenon, <1>2, <1>3 DEF MoveInv

\* A step that changes it, and so disturbs the others.
LEMMA DisturbKeeps ==
    ASSUME MoveInv, NEW t \in Thread, NEW l \in Labels, NEW d,
           Shape(d), Local(l, d)',
           space' \in [Page -> Contents(Prots) \cup {NONE}],
           pc' = [pc EXCEPT ![t] = l],
           DOMAIN call' = Thread, call'[t] = d,
           \A u \in Thread \ {t} : call'[u] = [call[u] EXCEPT !.quiet = FALSE],
           UNCHANGED <<sys, ret>>
    PROVE  MoveInv'
  <1>1. \A u \in Thread \ {t} : pc'[u] = pc[u] /\ Shape(call[u]) /\ Local(pc[u], call[u])
    BY Zenon DEF MoveInv, Types
  <1>2. ASSUME NEW u \in Thread \ {t}
        PROVE  Shape(call'[u]) /\ Local(pc[u], call[u])'
    <2>1. PICK c : c = call[u] /\ Shape(c) /\ Local(pc[u], c)
      BY Zenon, <1>1
    <2>2. PICK e : e = [c EXCEPT !.quiet = FALSE]
      BY Zenon
    <2>3. call'[u] = e
      BY Zenon, <2>1, <2>2
    <2>4. /\ Shape(e) /\ e.quiet = FALSE
          /\ e.from = c.from /\ e.size = c.size /\ e.prot = c.prot /\ e.at = c.at
          /\ e.j = c.j /\ e.buff = c.buff
      BY Zenon, <2>1, <2>2 DEF Shape
    <2>5. Local(pc[u], e)
      BY Zenon, <2>1, <2>4 DEF Local, Same, Area, Clear
    <2>6. \A m : Local(m, e)' <=> Local(m, e)
      BY <2>4 DEF Local, Same, Area, Clear, Page, Top, Huge, Prots
    <2>7. pc'[u] = pc[u]
      BY Zenon, <1>1
    <2> QED BY Zenon, <2>3, <2>4, <2>5, <2>6, <2>7
  <1>3. Local(pc[t], call[t])'
    <2>1. pc'[t] = l
      BY Zenon DEF MoveInv, Types
    <2> QED BY Zenon, <2>1
  <1>4. Types'
    BY Zenon, <1>2 DEF MoveInv, Types, Page, Top, Prots
  <1> QED BY Zenon, <1>2, <1>3, <1>4 DEF MoveInv

\* The same for a step of an ioctl.
LEMMA ChangeKeeps ==
    ASSUME MoveInv, NEW t \in Thread, NEW l \in Labels, NEW d,
           Shape(d), Local(l, d)',
           space' \in [Page -> Contents(Prots) \cup {NONE}],
           pc' = [pc EXCEPT ![t] = l],
           call' = Disturb([call EXCEPT ![t] = d], t),
           UNCHANGED <<sys, ret>>
    PROVE  MoveInv'
  <1>1. /\ DOMAIN call' = Thread
        /\ call'[t] = d
        /\ \A u \in Thread \ {t} : call'[u] = [call[u] EXCEPT !.quiet = FALSE]
    BY Zenon DEF MoveInv, Types, Disturb
  <1> QED BY Zenon, <1>1, DisturbKeeps

-----------------------------------------------------------------------------
(* The actions.                                                            *)

\* The invariant holds at the beginning.
LEMMA InitInv == Init => MoveInv
  <1> SUFFICES ASSUME Init PROVE MoveInv
    BY Zenon
  <1>1. Types
    BY Zenon, SystemFacts, NoCallFields DEF Init, Types, Labels
  <1>2. \A t \in Thread : Local(pc[t], call[t])
    BY Zenon DEF Init, Local
  <1> QED BY Zenon, <1>1, <1>2 DEF MoveInv

\* MVE_VMA_TO begins, or is refused.
LEMMA MveVmaToKeeps ==
    ASSUME MoveInv, NEW t \in Thread, NEW from \in Page, NEW to \in Page, NEW user,
           MveVmaTo(t, from, to, user)
    PROVE  MoveInv'
  <1>1. UNCHANGED <<sys, space>>
    BY Zenon DEF MveVmaTo, Enter
  <1>2. ASSUME NEW r, Fail(t, r)
        PROVE  MoveInv'
    BY Zenon, <1>1, <1>2, ReturnKeeps DEF Fail
  <1>3. CASE Go(t, "find", Begin("MVE_VMA_TO", from, to, user))
    <2>1. PICK d : d = Begin("MVE_VMA_TO", from, to, user)
      BY Zenon
    <2>2. Shape(d) /\ d.from = from /\ d.at = 0 /\ d.j = 0 /\ d.snap = space
      BY <2>1, BeginFields DEF Page
    <2>3. Local("find", d)
      BY Zenon, <2>2 DEF Local, Same
    <2> QED BY Zenon, <1>1, <1>3, <2>1, <2>2, <2>3, GoKeeps DEF Labels
  <1> QED BY Zenon, <1>2, <1>3 DEF MveVmaTo

\* MVE_VMA begins, or is refused.
LEMMA MveVmaKeeps ==
    ASSUME MoveInv, NEW t \in Thread, NEW from \in Page, NEW user,
           MveVma(t, from, user)
    PROVE  MoveInv'
  <1>1. UNCHANGED <<sys, space>>
    BY Zenon DEF MveVma, Enter
  <1>2. ASSUME NEW r, Fail(t, r)
        PROVE  MoveInv'
    BY Zenon, <1>1, <1>2, ReturnKeeps DEF Fail
  <1>3. CASE Go(t, "find", Begin("MVE_VMA", from, 0, user))
    <2>1. PICK d : d = Begin("MVE_VMA", from, 0, user)
      BY Zenon
    <2>2. Shape(d) /\ d.from = from /\ d.at = 0 /\ d.j = 0 /\ d.snap = space
      BY <2>1, BeginFields DEF Page
    <2>3. Local("find", d)
      BY Zenon, <2>2 DEF Local, Same
    <2> QED BY Zenon, <1>1, <1>3, <2>1, <2>2, <2>3, GoKeeps DEF Labels
  <1> QED BY Zenon, <1>2, <1>3 DEF MveVma

\* PROMOTE_VMA begins.
LEMMA PromoteVmaKeeps ==
    ASSUME MoveInv, NEW t \in Thread, PromoteVma(t)
    PROVE  MoveInv'
  <1>1. UNCHANGED <<sys, space>> /\ Go(t, "promote", Begin("PROMOTE_VMA", 0, 0, "ok"))
    BY Zenon DEF PromoteVma, Enter
  <1>2. PICK d : d = Begin("PROMOTE_VMA", 0, 0, "ok")
    BY Zenon
  <1>3. Shape(d) /\ d.at = 0 /\ d.j = 0 /\ d.snap = space
    BY <1>2, BeginFields
  <1>4. Top \in Nat /\ Huge \in 1 .. Top
    BY Zenon, SystemFacts DEF MoveInv, Types
  <1>5. RunScan(d)
    BY <1>3, <1>4 DEF RunScan, Mapped, Page
  <1>6. Local("promote", d)
    BY <1>3, <1>4, <1>5 DEF Local, Same
  <1> QED BY Zenon, <1>1, <1>2, <1>3, <1>6, GoKeeps DEF Labels

\* COMPACT_VMA returns at once.
LEMMA CompactVmaKeeps ==
    ASSUME MoveInv, NEW t \in Thread, NEW from, NEW length, NEW user,
           CompactVma(t, from, length, user)
    PROVE  MoveInv'
  <1>1. UNCHANGED <<sys, space>> /\ Return(t, 0)
    BY Zenon DEF CompactVma, Enter, Fail
  <1> QED BY Zenon, <1>1, ReturnKeeps

\* find_vma measures the area.
LEMMA FindVmaKeeps ==
    ASSUME MoveInv, NEW t \in Thread, FindVma(t)
    PROVE  MoveInv'
  <1>1. PICK c : c = call[t]
    BY Zenon
  <1>2. /\ UNCHANGED <<sys, space>> /\ pc[t] = "find"
        /\ Types /\ Shape(c) /\ Local("find", c)
    BY Zenon, <1>1 DEF FindVma, Idle, MoveInv, Types
  <1>3. CASE Fail(t, -1)
    BY Zenon, <1>2, <1>3, ReturnKeeps DEF Fail
  <1>4. CASE Mapped(c.from)
    <2>1. PICK end : end = AreaEnd(c.from)
      BY Zenon
    <2>2. c.from \in Page /\ c.at = 0 /\ c.j = 0 /\ Same(c)
      BY Zenon, <1>2 DEF Local
    <2>3. /\ end \in c.from + 1 .. Top + 1
          /\ \A q \in c.from .. end - 1 : Mapped(q) /\ space[q].prot = space[c.from].prot
          /\ end > Top \/ ~Mapped(end) \/ space[end].prot # space[c.from].prot
      BY Zenon, <1>2, <1>4, <2>1, <2>2, AreaEndFacts
    <2>4. Top \in Nat /\ c.from \in Int /\ end \in Int
      BY <1>2, <2>3, SystemFacts DEF Types, Shape
    <2>5. PICK d : d = [c EXCEPT !.size = end - c.from, !.prot = space[c.from].prot]
      BY Zenon
    <2>6. /\ Shape(d) /\ d.size = end - c.from /\ d.prot = space[c.from].prot
          /\ d.from = c.from /\ d.at = c.at /\ d.j = c.j /\ d.snap = c.snap
          /\ d.quiet = c.quiet
      BY <1>2, <2>4, <2>5 DEF Shape
    <2>7. Area(d)
      <3>1. space[c.from] \in Contents(Prots)
        BY Zenon, <1>2, <1>4, <2>2 DEF Types, Mapped
      <3>2. d.prot \in Prots
        BY Zenon, <1>2, <2>6, <3>1, PageFacts DEF Types
      <3> QED BY <2>2, <2>3, <2>4, <2>6, <3>2 DEF Area
    <2>8. Same(d)
      BY Zenon, <2>2, <2>6 DEF Same
    <2>9. d.quiet => Pieces(d)
      <3>1. \A q \in c.from .. end - 1 : space[q] \in Contents(Prots)
        BY Zenon, <1>2, <2>3 DEF Types, Mapped
      <3>2. Old(d) = c.from .. end - 1
        BY <2>4, <2>6 DEF Old, Pages
      <3> QED BY Zenon, <2>3, <2>6, <2>8, <3>1, <3>2 DEF Pieces, Same
    <2>10. CASE Go(t, "mmap", d)
      <3>1. Local("mmap", d)
        BY Zenon, <2>2, <2>6, <2>7, <2>8, <2>9 DEF Local
      <3> QED BY Zenon, <1>2, <2>6, <2>10, <3>1, GoKeeps DEF Labels
    <2>11. CASE Go(t, "hole", [d EXCEPT !.at = end])
      <3>1. PICK e : e = [d EXCEPT !.at = end]
        BY Zenon
      <3>2. /\ Shape(e) /\ e.at = end /\ e.size = d.size /\ e.prot = d.prot
            /\ e.from = d.from /\ e.j = d.j /\ e.snap = d.snap /\ e.quiet = d.quiet
        BY Zenon, <2>4, <2>6, <3>1 DEF Shape
      <3>3. Area(e) /\ Same(e) /\ (e.quiet => Pieces(e))
        BY Zenon, <2>7, <2>8, <2>9, <3>2 DEF Area, Same, Pieces, Old
      <3>4. e.from + e.size = end /\ e.j = 0
        BY <2>2, <2>4, <2>6, <3>2
      <3>5. Bounded(e) /\ HoleScan(e)
        BY <2>3, <2>4, <2>6, <3>2, <3>4 DEF Bounded, HoleScan
      <3>6. e.j \in 0 .. e.size
        BY <2>3, <2>4, <2>6, <3>2, <3>4
      <3>7. Local("hole", e)
        BY Zenon, <3>3, <3>5, <3>6 DEF Local
      <3> QED BY Zenon, <1>2, <2>11, <3>1, <3>2, <3>7, GoKeeps DEF Labels
    <2> QED BY Zenon, <1>1, <1>4, <2>1, <2>5, <2>10, <2>11 DEF FindVma
  <1> QED BY Zenon, <1>1, <1>3, <1>4 DEF FindVma

\* The search for a hole goes on, ends or fails.
LEMMA FindHoleKeeps ==
    ASSUME MoveInv, NEW t \in Thread, FindHole(t)
    PROVE  MoveInv'
  <1>1. PICK c : c = call[t]
    BY Zenon
  <1>2. /\ UNCHANGED <<sys, space>> /\ pc[t] = "hole"
        /\ Types /\ Shape(c) /\ Local("hole", c)
    BY Zenon, <1>1 DEF FindHole, Idle, MoveInv, Types
  <1>3. /\ Area(c) /\ Same(c) /\ c.j \in 0 .. c.size
        /\ c.quiet => Pieces(c) /\ Bounded(c) /\ HoleScan(c)
    BY Zenon, <1>2 DEF Local
  <1>4. /\ Top \in Nat /\ c.at \in Int /\ c.j \in Int /\ c.size \in Int /\ c.from \in Int
        /\ c.from >= 1 /\ c.size >= 1
    BY <1>2, <1>3, SystemFacts DEF Types, Shape, Area, Page
  <1>5. PICK free : free = IF Mapped(c.at) THEN 0 ELSE c.j + 1
    BY Zenon
  <1>6. CASE Fail(t, -1)
    BY Zenon, <1>2, <1>6, ReturnKeeps DEF Fail
  <1>7. CASE /\ c.at <= Top /\ free = c.size + 1
             /\ Go(t, "recheck", [c EXCEPT !.to = c.at - c.size, !.at = 0, !.j = 0])
    <2>1. PICK d : d = [c EXCEPT !.to = c.at - c.size, !.at = 0, !.j = 0]
      BY Zenon
    <2>2. /\ Shape(d) /\ d.at = 0 /\ d.size = c.size /\ d.prot = c.prot
          /\ d.from = c.from /\ d.snap = c.snap /\ d.quiet = c.quiet
      BY <1>2, <1>4, <2>1 DEF Shape
    <2>3. Area(d) /\ Same(d) /\ (d.quiet => Pieces(d))
      BY Zenon, <1>3, <2>2 DEF Area, Same, Pieces, Old
    <2>4. Local("recheck", d)
      BY Zenon, <2>2, <2>3 DEF Local
    <2> QED BY Zenon, <1>2, <1>7, <2>1, <2>2, <2>4, GoKeeps DEF Labels
  <1>8. CASE /\ c.at <= Top /\ free # c.size + 1
             /\ Go(t, "hole", [c EXCEPT !.at = @ + 1, !.j = free])
    <2>1. PICK d : d = [c EXCEPT !.at = @ + 1, !.j = free]
      BY Zenon
    <2>2. free \in 0 .. c.size
      BY <1>3, <1>4, <1>5, <1>8
    <2>3. /\ Shape(d) /\ d.at = c.at + 1 /\ d.j = free /\ d.size = c.size
          /\ d.prot = c.prot /\ d.from = c.from /\ d.snap = c.snap /\ d.quiet = c.quiet
      BY <1>2, <1>4, <2>1, <2>2 DEF Shape
    <2>4. /\ Area(d) /\ Same(d) /\ d.j \in 0 .. d.size
          /\ d.quiet => Pieces(d) /\ Bounded(d)
      BY Zenon, <1>3, <2>2, <2>3 DEF Area, Same, Pieces, Old, Bounded
    <2>5. ASSUME d.quiet PROVE HoleScan(d)
      <3>1. /\ c.at - c.j >= c.from + c.size
            /\ \A q \in c.at - c.j .. c.at - 1 : ~Mapped(q)
            /\ \A h \in c.from + c.size .. c.at - c.j - 1 : ~Free(h, c.size + 1)
        BY Zenon, <1>3, <2>3, <2>5 DEF HoleScan
      <3>2. CASE Mapped(c.at)
        <4>1. free = 0
          BY Zenon, <1>5, <3>2
        <4>2. \A h \in c.from + c.size .. c.at : ~Free(h, c.size + 1)
          <5>1. \A h \in c.at - c.j .. c.at : c.at \in Pages(h, c.size + 1)
            BY <1>3, <1>4 DEF Pages
          <5> QED BY <1>3, <1>4, <3>1, <3>2, <5>1 DEF Free
        <4> QED BY <1>4, <1>3, <1>8, <2>3, <3>1, <4>1, <4>2 DEF HoleScan
      <3>3. CASE ~Mapped(c.at)
        <4>1. free = c.j + 1
          BY Zenon, <1>5, <3>3
        <4>2. \A q \in c.at - c.j .. c.at : ~Mapped(q)
          BY <1>4, <3>1, <3>3
        <4> QED BY <1>4, <1>8, <2>3, <3>1, <4>1, <4>2 DEF HoleScan
      <3> QED BY Zenon, <3>2, <3>3
    <2>6. Local("hole", d)
      BY Zenon, <2>4, <2>5 DEF Local
    <2> QED BY Zenon, <1>2, <1>8, <2>1, <2>3, <2>6, GoKeeps DEF Labels
  <1> QED BY <1>1, <1>4, <1>5, <1>6, <1>7, <1>8 DEF FindHole

\* The hole is looked at again.
LEMMA RecheckKeeps ==
    ASSUME MoveInv, NEW t \in Thread, Recheck(t)
    PROVE  MoveInv'
  <1>1. PICK c : c = call[t]
    BY Zenon
  <1>2. /\ UNCHANGED <<sys, space>>
        /\ Shape(c) /\ Local("recheck", c)
    BY Zenon, <1>1 DEF Recheck, Idle, MoveInv, Types
  <1>3. CASE Fail(t, -1)
    BY Zenon, <1>2, <1>3, ReturnKeeps DEF Fail
  <1>4. CASE Go(t, "mmap", c)
    <2>1. Local("mmap", c)
      BY Zenon, <1>2 DEF Local
    <2> QED BY Zenon, <1>2, <1>4, <2>1, GoKeeps DEF Labels
  <1> QED BY Zenon, <1>1, <1>3, <1>4 DEF Recheck

\* The address space keeps its type when pages are mapped ...
LEMMA MapAtType ==
    ASSUME Types, NEW p, NEW n, NEW prot \in Prots
    PROVE  MapAt(p, n, prot) \in [Page -> Contents(Prots) \cup {NONE}]
  BY Zenon DEF Types, MapAt, Contents

\* ... unmapped ...
LEMMA UnmapType ==
    ASSUME Types, NEW p, NEW n
    PROVE  Unmap(p, n) \in [Page -> Contents(Prots) \cup {NONE}]
  BY Zenon DEF Types, Unmap

\* ... or stored to.
LEMMA StoreFacts ==
    ASSUME Types, NEW p \in Page, Mapped(p), NEW v \in Values \cup {0}
    PROVE  /\ [space EXCEPT ![p].val = v] \in [Page -> Contents(Prots) \cup {NONE}]
           /\ [space EXCEPT ![p].val = v][p] = [prot |-> space[p].prot, val |-> v]
           /\ \A q \in Page \ {p} : [space EXCEPT ![p].val = v][q] = space[q]
  <1>1. PICK r \in Contents(Prots) : r = space[p]
    BY Zenon DEF Types, Mapped
  <1>2. r = [prot |-> r.prot, val |-> r.val] /\ r.prot \in Prots
    BY Zenon, <1>1, PageFacts DEF Types
  <1>3. [r EXCEPT !.val = v] = [prot |-> r.prot, val |-> v]
    BY <1>1, <1>2 DEF Contents
  <1>4. [prot |-> r.prot, val |-> v] \in Contents(Prots)
    BY Zenon, <1>2 DEF Contents
  <1>5. [space EXCEPT ![p].val = v] = [space EXCEPT ![p] = [r EXCEPT !.val = v]]
    BY Zenon, <1>1
  <1>6. [space EXCEPT ![p].val = v] = [space EXCEPT ![p] = [prot |-> r.prot, val |-> v]]
    BY Zenon, <1>3, <1>5
  <1> QED BY Zenon, <1>1, <1>4, <1>6 DEF Types

\* vm_mmap finds room, perhaps elsewhere, or fails.
LEMMA VmMmapKeeps ==
    ASSUME MoveInv, NEW t \in Thread, VmMmap(t)
    PROVE  MoveInv'
  <1>1. PICK c : c = call[t]
    BY Zenon
  <1>2. Types /\ Shape(c) /\ Local("mmap", c)
    BY Zenon, <1>1 DEF VmMmap, MoveInv, Types
  <1>3. Area(c) /\ Same(c) /\ (c.quiet => Pieces(c)) /\ c.at = 0
    BY Zenon, <1>2 DEF Local
  <1>4. CASE Fail(t, -1) /\ Idle
    BY Zenon, <1>4, ReturnKeeps DEF Fail, Idle
  <1>5. CASE \E p \in UnmappedAreas(c.to, c.size) :
               /\ space' = MapAt(p, c.size, c.prot)
               /\ Step(t, "read", [c EXCEPT !.placed = p])
    <2>1. PICK p \in UnmappedAreas(c.to, c.size) :
               /\ space' = MapAt(p, c.size, c.prot)
               /\ Step(t, "read", [c EXCEPT !.placed = p])
      BY Zenon, <1>5
    <2>2. /\ Top \in Nat /\ c.to \in Int /\ c.size \in Int /\ c.size >= 1
          /\ c.from \in Int /\ c.prot \in Prots
      BY Zenon, <1>2, <1>3, SystemFacts DEF Types, Shape, Area
    <2>3. p \in Page /\ Free(p, c.size)
      BY Zenon, <1>2, <2>2, MappedWhereFree
    <2>4. PICK d : d = [c EXCEPT !.placed = p]
      BY Zenon
    <2>5. /\ Shape(d) /\ d.placed = p /\ d.to = c.to /\ d.at = 0 /\ d.size = c.size
          /\ d.prot = c.prot /\ d.from = c.from /\ d.snap = c.snap /\ d.quiet = c.quiet
      BY Zenon, <1>2, <1>3, <2>4 DEF Shape
    <2>6. space' \in [Page -> Contents(Prots) \cup {NONE}] /\ sys' = sys
      BY Zenon, <1>2, <2>1, <2>2, MapAtType DEF Step
    <2>7. Area(d)' /\ d.at \in 0 .. d.size - 1
      BY <1>3, <2>2, <2>5, <2>6 DEF Area, Page, Top, Prots
    <2>8. ASSUME Clear(d)
          PROVE  Pieces(d)' /\ Room(d)' /\ Copying(d)'
      <3>1. p = c.to /\ d.quiet /\ space = c.snap /\ Pieces(c)
        BY Zenon, <1>3, <2>5, <2>8 DEF Clear, Same
      <3>2. Pieces(d)'
        BY Zenon, <2>5, <2>6, <3>1 DEF Pieces, Old, Prots
      <3>3. New(d) \subseteq Page /\ \A q \in New(d) : d.snap[q] = NONE
        BY Zenon, <2>3, <2>5, <3>1 DEF New, Free, Mapped
      <3>4. Room(d)'
        BY Zenon, <2>6, <3>3 DEF Room, New, Page, Top
      <3>5. \A q \in Page : space'[q] = IF q \in New(d) THEN [prot |-> c.prot, val |-> 0]
                                        ELSE space[q]
        BY Zenon, <2>1, <2>5, <3>1 DEF MapAt, New
      <3>6. \A q \in New(d) : ~(q < d.to + d.at)
        BY <2>2, <2>5 DEF New, Pages
      <3>7. Copying(d)'
        BY <2>5, <2>6, <3>1, <3>5, <3>6 DEF Copying, New, Page, Top
      <3> QED BY Zenon, <3>2, <3>4, <3>7
    <2>9. Local("read", d)'
      BY Zenon, <2>7, <2>8 DEF Local, Clear
    <2>10. /\ pc' = [pc EXCEPT ![t] = "read"]
           /\ call' = Disturb([call EXCEPT ![t] = d], t)
           /\ UNCHANGED <<sys, ret>>
      BY Zenon, <2>1, <2>4 DEF Step
    <2> QED BY Zenon, <2>5, <2>6, <2>9, <2>10, ChangeKeeps DEF Labels
  <1> QED BY Zenon, <1>1, <1>4, <1>5 DEF VmMmap

\* A page is read.
LEMMA CopyFromUserKeeps ==
    ASSUME MoveInv, NEW t \in Thread, CopyFromUser(t)
    PROVE  MoveInv'
  <1>1. PICK c : c = call[t]
    BY Zenon
  <1>2. /\ Types /\ Shape(c) /\ Local("read", c) /\ UNCHANGED <<sys, space>>
    BY Zenon, <1>1 DEF CopyFromUser, Idle, MoveInv, Types
  <1>3. PICK p : p = c.from + c.at
    BY Zenon
  <1>4. CASE Fail(t, 0)
    BY Zenon, <1>2, <1>4, ReturnKeeps DEF Fail
  <1>5. CASE Mapped(p) /\ Go(t, "write", [c EXCEPT !.buff = space[p].val])
    <2>1. PICK d : d = [c EXCEPT !.buff = space[p].val]
      BY Zenon
    <2>2. /\ Shape(d) /\ d.buff = space[p].val /\ d.to = c.to /\ d.at = c.at
          /\ d.size = c.size /\ d.prot = c.prot /\ d.from = c.from /\ d.snap = c.snap
          /\ d.quiet = c.quiet /\ d.placed = c.placed
      BY Zenon, <1>2, <2>1 DEF Shape
    <2>3. space[p] \in Contents(Prots)
      BY Zenon, <1>2, <1>5 DEF Types, Mapped
    <2>4. d.buff \in Values \cup {0}
      BY Zenon, <1>2, <2>2, <2>3, PageFacts DEF Types
    <2>5. Area(d) /\ d.at \in 0 .. d.size - 1
      BY Zenon, <1>2, <2>2 DEF Local, Area
    <2>6. ASSUME Clear(d)
          PROVE  Pieces(d) /\ Room(d) /\ Copying(d)
      BY <1>2, <2>2, <2>6 DEF Local, Clear, Pieces, Room, Copying, Old, New
    <2>7. ASSUME Clear(d)
          PROVE  d.buff = d.snap[d.from + d.at].val
      <3>1. p \in Page /\ p \in Old(d) /\ d.from + d.at = p
        BY <1>2, <1>3, <1>5, <2>2, <2>5 DEF Old, Pages, Mapped, Shape
      <3>2. p \notin New(d)
        BY Zenon, <1>2, <2>3, <2>6, <2>7, <3>1, PageFacts DEF Pieces, Room, Types
      <3>3. space[p] = d.snap[p]
        BY Zenon, <2>6, <2>7, <3>1, <3>2 DEF Copying
      <3> QED BY Zenon, <2>2, <3>1, <3>3
    <2>8. Local("write", d)
      BY Zenon, <2>4, <2>5, <2>6, <2>7 DEF Local
    <2> QED BY Zenon, <1>2, <1>5, <2>1, <2>2, <2>8, GoKeeps DEF Labels
  <1> QED BY Zenon, <1>1, <1>3, <1>4, <1>5 DEF CopyFromUser

\* A page is written.
LEMMA CopyToUserKeeps ==
    ASSUME MoveInv, NEW t \in Thread, CopyToUser(t)
    PROVE  MoveInv'
  <1>1. PICK c : c = call[t]
    BY Zenon
  <1>2. Types /\ Shape(c) /\ Local("write", c)
    BY Zenon, <1>1 DEF CopyToUser, MoveInv, Types
  <1>3. CASE Fail(t, 0) /\ Idle
    BY Zenon, <1>3, ReturnKeeps DEF Fail, Idle
  <1>4. PICK p : p = c.to + c.at
    BY Zenon
  <1>5. PICK l : l = IF c.at + 1 = c.size THEN "munmap" ELSE "read"
    BY Zenon
  <1>6. CASE /\ Mapped(p)
             /\ space' = [space EXCEPT ![p].val = c.buff]
             /\ Step(t, l, [c EXCEPT !.at = @ + 1, !.buff = 0])
    <2>1. PICK d : d = [c EXCEPT !.at = @ + 1, !.buff = 0]
      BY Zenon
    <2>2. /\ Top \in Nat /\ c.at \in 0 .. c.size - 1 /\ c.size \in Int /\ c.to \in Int
          /\ c.from \in Int /\ p \in Page
      BY Zenon, <1>2, <1>6, SystemFacts DEF Types, Shape, Local, Mapped
    <2>3. /\ Shape(d) /\ d.to = c.to /\ d.at = c.at + 1 /\ d.size = c.size
          /\ d.prot = c.prot /\ d.from = c.from /\ d.snap = c.snap
          /\ d.quiet = c.quiet /\ d.placed = c.placed
      BY <1>2, <2>1, <2>2 DEF Shape
    <2>4. /\ space' \in [Page -> Contents(Prots) \cup {NONE}]
          /\ space'[p] = [prot |-> space[p].prot, val |-> c.buff]
          /\ \A q \in Page \ {p} : space'[q] = space[q]
      <3>1. c.buff \in Values \cup {0}
        BY Zenon, <1>2 DEF Local
      <3> QED BY <1>2, <1>6, <2>2, <3>1, StoreFacts
    <2>5. sys' = sys
      BY Zenon, <1>6 DEF Step
    <2>6. Area(d)'
      BY Zenon, <1>2, <2>3, <2>5 DEF Local, Area, Page, Top, Prots
    <2>7. ASSUME Clear(d)
          PROVE  Pieces(d)' /\ Room(d)' /\ Copying(d)'
      <3>1. Clear(c) /\ Pieces(c) /\ Room(c) /\ Copying(c)
            /\ c.buff = c.snap[c.from + c.at].val
        BY Zenon, <1>2, <2>3, <2>7 DEF Local, Clear
      <3>2. Pieces(d)' /\ Room(d)'
        BY Zenon, <2>3, <2>5, <3>1 DEF Pieces, Room, Old, New, Prots, Page, Top
      <3>3. p \in New(c) /\ ~(p < c.to + c.at) /\ c.from + c.at \in Old(c)
            /\ c.from + p - c.to = c.from + c.at
        BY <1>4, <2>2 DEF New, Old, Pages
      <3>4. space[p] = [prot |-> c.prot, val |-> 0]
        BY Zenon, <2>2, <3>1, <3>3 DEF Copying
      <3>5. PICK r \in Contents(Prots) : r = c.snap[c.from + c.at] /\ r.prot = c.prot
        BY Zenon, <3>1, <3>3 DEF Pieces
      <3>6. space'[p] = r
        <4>1. space[p].prot = c.prot
          BY <3>4
        <4>2. r = [prot |-> r.prot, val |-> r.val]
          BY Zenon, <1>2, PageFacts DEF Types
        <4> QED BY Zenon, <2>4, <3>1, <3>5, <4>1, <4>2
      <3>7. ASSUME NEW q \in Page
            PROVE  space'[q] = IF q \notin New(d) THEN d.snap[q]
                               ELSE IF q < d.to + d.at THEN d.snap[d.from + q - d.to]
                               ELSE [prot |-> d.prot, val |-> 0]
        <4>1. New(d) = New(c)
          BY Zenon, <2>3 DEF New
        <4>2. q \in Int /\ p \in Int
          BY <2>2 DEF Page
        <4>3. CASE q = p
          BY <1>4, <2>2, <2>3, <3>3, <3>5, <3>6, <4>1, <4>2, <4>3
        <4>4. CASE q # p
          <5>1. space'[q] = space[q]
            BY Zenon, <2>4, <4>4
          <5>2. q < c.to + c.at <=> q < d.to + d.at
            BY <1>4, <2>2, <2>3, <4>2, <4>4
          <5> QED BY Zenon, <2>3, <3>1, <4>1, <5>1, <5>2 DEF Copying
        <4> QED BY Zenon, <4>3, <4>4
      <3>8. Copying(d)'
        BY Zenon, <2>5, <3>7 DEF Copying, New, Page, Top
      <3> QED BY Zenon, <3>2, <3>8
    <2>8. \/ l = "munmap" /\ d.at = d.size
          \/ l = "read" /\ d.at \in 0 .. d.size - 1
      BY <1>5, <2>2, <2>3
    <2>9. Local(l, d)'
      BY Zenon, <2>6, <2>7, <2>8 DEF Local, Clear
    <2>10. /\ pc' = [pc EXCEPT ![t] = l]
           /\ call' = Disturb([call EXCEPT ![t] = d], t)
           /\ UNCHANGED <<sys, ret>>
      BY Zenon, <1>6, <2>1 DEF Step
    <2>11. l \in Labels
      BY Zenon, <2>8 DEF Labels
    <2> QED BY Zenon, <2>3, <2>4, <2>9, <2>10, <2>11, ChangeKeeps
  <1> QED BY Zenon, <1>1, <1>3, <1>4, <1>5, <1>6 DEF CopyToUser

\* The old area goes.
LEMMA VmMunmapKeeps ==
    ASSUME MoveInv, NEW t \in Thread, VmMunmap(t)
    PROVE  MoveInv'
  <1>1. PICK c : c = call[t]
    BY Zenon
  <1>2. /\ Types /\ Shape(c) /\ Local("munmap", c)
        /\ space' = Unmap(c.from, c.size) /\ Step(t, "result", c)
    BY Zenon, <1>1 DEF VmMunmap, MoveInv, Types
  <1>3. space' \in [Page -> Contents(Prots) \cup {NONE}] /\ sys' = sys
    BY Zenon, <1>2, UnmapType DEF Step
  <1>4. Area(c)'
    BY Zenon, <1>2, <1>3 DEF Local, Area, Page, Top, Prots
  <1>5. ASSUME Clear(c)
        PROVE  Pieces(c)' /\ Room(c)' /\ space' = Moved(c)'
    <2>1. Pieces(c) /\ Room(c) /\ Copying(c) /\ c.at = c.size
      BY Zenon, <1>2, <1>5 DEF Local
    <2>2. Pieces(c)' /\ Room(c)'
      BY Zenon, <1>3, <2>1 DEF Pieces, Room, Old, New, Prots, Page, Top
    <2>3. ASSUME NEW q \in Page
          PROVE  space'[q] = CASE q \in Old(c) -> NONE
                               [] q \in New(c) -> c.snap[c.from + q - c.to]
                               [] OTHER -> c.snap[q]
      <3>1. space'[q] = IF q \in Old(c) THEN NONE ELSE space[q]
        BY Zenon, <1>2 DEF Unmap, Old
      <3>2. q \in New(c) => q < c.to + c.at
        BY <1>2, <2>1 DEF New, Pages, Shape
      <3>3. q \in New(c) => q \notin Old(c)
        BY Zenon, <1>2, <2>1, PageFacts DEF Pieces, Room, Types
      <3> QED BY Zenon, <2>1, <3>1, <3>2, <3>3 DEF Copying
    <2>4. space' = Moved(c)
      BY Zenon, <1>3, <2>3 DEF Moved
    <2> QED BY Zenon, <1>3, <2>2, <2>4 DEF Moved, Page, Top, Old, New
  <1>6. Local("result", c)'
    BY Zenon, <1>4, <1>5 DEF Local, Clear
  <1>7. /\ pc' = [pc EXCEPT ![t] = "result"]
        /\ call' = Disturb([call EXCEPT ![t] = c], t)
        /\ UNCHANGED <<sys, ret>>
    BY Zenon, <1>2 DEF Step
  <1> QED BY Zenon, <1>2, <1>3, <1>6, <1>7, ChangeKeeps DEF Labels

\* The end of a move.
LEMMA ResultKeeps ==
    ASSUME MoveInv, NEW t \in Thread, Result(t)
    PROVE  MoveInv'
  <1>1. UNCHANGED <<sys, space>> /\ (Return(t, -1) \/ Return(t, 0))
    BY Zenon DEF Result, Idle, Fail
  <1> QED BY Zenon, <1>1, ReturnKeeps

\* The search for a huge page goes on, ends or fails.
LEMMA PromoteScanKeeps ==
    ASSUME MoveInv, NEW t \in Thread, PromoteScan(t)
    PROVE  MoveInv'
  <1>1. PICK c : c = call[t]
    BY Zenon
  <1>2. /\ UNCHANGED <<sys, space>>
        /\ Types /\ Shape(c) /\ Local("promote", c)
    BY Zenon, <1>1 DEF PromoteScan, Idle, MoveInv, Types
  <1>3. Same(c) /\ c.j \in 0 .. Huge - 1 /\ (c.quiet => RunScan(c))
    BY Zenon, <1>2 DEF Local
  <1>4. Top \in Nat /\ Huge \in 1 .. Top /\ c.at \in Int /\ c.j \in Int
    BY Zenon, <1>2, SystemFacts DEF Types, Shape
  <1>5. PICK run : run = IF Mapped(c.at) THEN c.j + 1 ELSE 0
    BY Zenon
  <1>6. CASE Fail(t, 0)
    BY Zenon, <1>2, <1>6, ReturnKeeps DEF Fail
  <1>7. CASE Go(t, "copy", [c EXCEPT !.from = c.at - Huge, !.j = 0])
    <2>1. PICK d : d = [c EXCEPT !.from = c.at - Huge, !.j = 0]
      BY Zenon
    <2>2. Shape(d)
      BY <1>2, <1>4, <2>1 DEF Shape
    <2>3. Local("copy", d)
      BY Zenon DEF Local
    <2> QED BY Zenon, <1>2, <1>7, <2>1, <2>2, <2>3, GoKeeps DEF Labels
  <1>8. CASE /\ c.at <= Top /\ run # Huge
             /\ Go(t, "promote", [c EXCEPT !.at = @ + 1, !.j = run])
    <2>1. PICK d : d = [c EXCEPT !.at = @ + 1, !.j = run]
      BY Zenon
    <2>2. run \in 0 .. Huge - 1
      BY <1>3, <1>4, <1>5, <1>8
    <2>3. /\ Shape(d) /\ d.at = c.at + 1 /\ d.j = run
          /\ d.snap = c.snap /\ d.quiet = c.quiet
      BY <1>2, <1>4, <2>1, <2>2 DEF Shape
    <2>4. ASSUME d.quiet PROVE RunScan(d)
      <3>1. /\ \A q \in c.at - c.j .. c.at - 1 : Mapped(q)
            /\ ~Mapped(c.at - c.j - 1)
            /\ \A p \in Page : p < c.at - c.j => \E q \in Pages(p, Huge) : ~Mapped(q)
        BY Zenon, <1>3, <2>3, <2>4 DEF RunScan
      <3>2. CASE Mapped(c.at)
        <4>1. run = c.j + 1
          BY Zenon, <1>5, <3>2
        <4>2. \A q \in c.at - c.j .. c.at : Mapped(q)
          BY <1>4, <3>1, <3>2
        <4> QED BY <1>4, <1>8, <2>3, <3>1, <4>1, <4>2 DEF RunScan
      <3>3. CASE ~Mapped(c.at)
        <4>1. run = 0
          BY Zenon, <1>5, <3>3
        <4>2. \A p \in Page : p < c.at + 1 => \E q \in Pages(p, Huge) : ~Mapped(q)
          <5>1. \A p \in c.at - c.j .. c.at : c.at \in Pages(p, Huge)
            BY <1>3, <1>4 DEF Pages
          <5> QED BY <1>4, <3>1, <3>3, <5>1 DEF Page
        <4> QED BY <1>4, <1>8, <2>3, <3>3, <4>1, <4>2 DEF RunScan
      <3> QED BY Zenon, <3>2, <3>3
    <2>5. Local("promote", d)
      BY Zenon, <1>3, <2>2, <2>3, <2>4 DEF Local, Same
    <2> QED BY Zenon, <1>2, <1>8, <2>1, <2>3, <2>5, GoKeeps DEF Labels
  <1> QED BY <1>1, <1>4, <1>5, <1>6, <1>7, <1>8 DEF PromoteScan

\* The end of a promotion.
LEMMA PromoteCopyKeeps ==
    ASSUME MoveInv, NEW t \in Thread, PromoteCopy(t)
    PROVE  MoveInv'
  <1>1. Local("oops", NoCall)
    BY Zenon DEF Local
  <1> QED BY Zenon, <1>1, NoCallFields, GoKeeps DEF PromoteCopy, Idle, Labels

\* The program changes its address space itself.
LEMMA ProgramKeeps ==
    ASSUME MoveInv, NEW t \in Thread, Program(t)
    PROVE  MoveInv'
  <1>1. Types /\ Shape(call[t])
    BY Zenon DEF MoveInv, Types
  <1>2. /\ pc[t] = "user" /\ pc' = pc /\ call' = Disturb(call, t)
        /\ UNCHANGED <<sys, ret>>
    BY Zenon DEF Program, Mmap, Munmap, Store, Change
  <1>3. space' \in [Page -> Contents(Prots) \cup {NONE}]
    <2>1. ASSUME NEW n \in 1 .. 2, NEW prot \in Prots, NEW p \in UnmappedAreas(0, n),
                 Mmap(t, p, n, prot)
          PROVE  space' \in [Page -> Contents(Prots) \cup {NONE}]
      BY Zenon, <1>1, <2>1, MapAtType DEF Mmap
    <2>2. ASSUME NEW p \in Page, NEW n \in 1 .. 2, Munmap(t, p, n)
          PROVE  space' \in [Page -> Contents(Prots) \cup {NONE}]
      BY Zenon, <1>1, <2>2, UnmapType DEF Munmap
    <2>3. ASSUME NEW p \in Page, NEW v \in Values, Store(t, p, v)
          PROVE  space' \in [Page -> Contents(Prots) \cup {NONE}]
      BY Zenon, <1>1, <2>3, StoreFacts DEF Store
    <2> QED BY Zenon, <2>1, <2>2, <2>3 DEF Program
  <1>4. pc' = [pc EXCEPT ![t] = "user"]
    BY Zenon, <1>1, <1>2 DEF Types
  <1>5. PICK d : d = call[t]
    BY Zenon
  <1>6. Local("user", d)'
    BY Zenon DEF Local
  <1>7. /\ DOMAIN call' = Thread
        /\ call'[t] = d
        /\ \A u \in Thread \ {t} : call'[u] = [call[u] EXCEPT !.quiet = FALSE]
    BY Zenon, <1>2, <1>5 DEF Disturb
  <1>8. Shape(d) /\ "user" \in Labels
    BY Zenon, <1>1, <1>5 DEF Labels
  <1>9. UNCHANGED <<sys, ret>>
    BY Zenon, <1>2
  <1> QED BY Zenon, <1>3, <1>4, <1>6, <1>7, <1>8, <1>9, DisturbKeeps

\* Every step keeps the invariant.
LEMMA NextKeeps == MoveInv /\ [Next]_vars => MoveInv'
  <1> SUFFICES ASSUME MoveInv, [Next]_vars PROVE MoveInv'
    BY Zenon
  <1>1. CASE UNCHANGED vars
    <2>1. UNCHANGED <<sys, space, pc, call, ret>>
      BY Zenon, <1>1 DEF vars
    <2>2. Types'
      BY Zenon, <2>1 DEF MoveInv, Types, Page, Top, Prots
    <2>3. \A m, c : Local(m, c)' <=> Local(m, c)
      BY <2>1 DEF Local, Same, Area, Pieces, Bounded, HoleScan, RunScan, Room, Copying,
         Clear, Old, New, Moved, Mapped, Free, Pages, Page, Top, Huge, Prots
    <2>4. \A t \in Thread : Local(pc'[t], call'[t])
      BY Zenon, <2>1 DEF MoveInv
    <2> QED BY Zenon, <2>2, <2>3, <2>4 DEF MoveInv
  <1>2. ASSUME NEW t \in Thread, Ioctl(t) PROVE MoveInv'
    BY Zenon, <1>2, MveVmaToKeeps, MveVmaKeeps, PromoteVmaKeeps, CompactVmaKeeps DEF Ioctl
  <1>3. ASSUME NEW t \in Thread, Running(t) PROVE MoveInv'
    BY Zenon, <1>3, FindVmaKeeps, FindHoleKeeps, RecheckKeeps, VmMmapKeeps, CopyFromUserKeeps,
       CopyToUserKeeps, VmMunmapKeeps, ResultKeeps, PromoteScanKeeps, PromoteCopyKeeps
       DEF Running
  <1>4. Threads \subseteq Thread
    BY Zenon, SystemFacts DEF MoveInv, Types
  <1> QED BY Zenon, <1>1, <1>2, <1>3, <1>4, ProgramKeeps DEF Next

\* The invariant holds throughout, for every address space and any threads.
THEOREM MoveInvariance == Spec => []MoveInv
  BY InitInv, NextKeeps, PTL DEF Spec

-----------------------------------------------------------------------------
(* What follows.                                                           *)

\* Every variable keeps its type.
THEOREM BtplusTypes == Spec => []TypeOK
  <1>1. MoveInv => TypeOK
    <2> SUFFICES ASSUME MoveInv PROVE TypeOK
      BY Zenon
    <2>1. ASSUME NEW t \in Thread, Moving(t)
          PROVE  Old(call[t]) \subseteq Page /\ New(call[t]) \subseteq Int
      <3>1. Area(call[t]) /\ Shape(call[t]) /\ Top \in Nat
        BY Zenon, <2>1, SystemFacts DEF MoveInv, Types, Moving, Local
      <3> QED BY <3>1 DEF Area, Shape, Old, New, Pages, Page
    <2> QED BY Zenon, <2>1 DEF TypeOK, MoveInv, Types, Labels
  <1> QED BY <1>1, MoveInvariance, PTL

\* A move into a hole that holds the whole area, undisturbed by other threads,
\* delivers every page and changes no other (MVE_VMA_TO and MVE_VMA).
THEOREM MovesDeliver == Spec => []MoveDelivers
  <1>1. MoveInv => MoveDelivers
    BY Zenon DEF MoveInv, Local, MoveDelivers, Undisturbed, Clear
  <1> QED BY <1>1, MoveInvariance, PTL

\* At every step of such a move no page of the program is lost.
THEOREM MovesLoseNothing == Spec => []NothingLost
  <1>1. MoveInv => NothingLost
    <2> SUFFICES ASSUME MoveInv, NEW t \in Thread, Moving(t), Undisturbed(t),
                        NEW p \in Page, call[t].snap[p] # NONE
                 PROVE  \/ space[p] = call[t].snap[p]
                        \/ /\ p \in Old(call[t])
                           /\ space[call[t].to + p - call[t].from] = call[t].snap[p]
      BY Zenon DEF NothingLost
    <2>1. PICK c : c = call[t]
      BY Zenon
    <2>2. Types /\ Shape(c) /\ Clear(c) /\ Local(pc[t], c)
      BY Zenon, <2>1 DEF MoveInv, Types, Undisturbed, Clear
    <2>3. Pieces(c) /\ Room(c)
      BY Zenon, <2>2 DEF Moving, Local
    <2>4. p \notin New(c)
      BY Zenon, <2>1, <2>3 DEF Room
    <2>5. CASE pc[t] \in {"read", "write", "munmap"}
      <3>1. Copying(c)
        BY Zenon, <2>2, <2>5 DEF Local
      <3> QED BY Zenon, <2>1, <2>4, <3>1 DEF Copying
    <2>6. CASE pc[t] = "result"
      <3>1. space = Moved(c)
        BY Zenon, <2>2, <2>6 DEF Local
      <3>2. CASE p \notin Old(c)
        BY Zenon, <2>1, <2>4, <3>1, <3>2 DEF Moved
      <3>3. CASE p \in Old(c)
        <4>1. PICK q : q = c.to + p - c.from
          BY Zenon
        <4>2. p \in Int /\ c.to \in Int /\ c.from \in Int /\ c.size \in Int
          BY <2>2, SystemFacts DEF Shape, Page, Types
        <4>3. q \in New(c) /\ c.from + q - c.to = p
          BY <3>3, <4>1, <4>2 DEF New, Old, Pages
        <4>4. q \in Page /\ q \notin Old(c)
          BY Zenon, <2>2, <2>3, <4>3, PageFacts DEF Room, Pieces, Types
        <4>5. space[q] = c.snap[p]
          BY Zenon, <3>1, <4>3, <4>4 DEF Moved
        <4> QED BY Zenon, <2>1, <3>3, <4>1, <4>5
      <3> QED BY Zenon, <3>2, <3>3
    <2> QED BY Zenon, <2>5, <2>6 DEF Moving
  <1> QED BY <1>1, MoveInvariance, PTL

\* What a step does to the ioctl of t is done by t.
LEMMA OwnSteps ==
    ASSUME MoveInv, Next, NEW t \in Thread, pc'[t] # pc[t]
    PROVE  Ioctl(t) \/ Running(t)
  <1>1. PICK u \in Threads : Ioctl(u) \/ Running(u) \/ Program(u)
    BY Zenon DEF Next
  <1>2. u \in Thread /\ pc \in [Thread -> Labels]
    BY Zenon, SystemFacts DEF MoveInv, Types
  <1>3. ASSUME NEW l, pc' = [pc EXCEPT ![u] = l]
        PROVE  u = t
    BY Zenon, <1>2, <1>3
  <1>4. ~Program(u)
    BY Zenon, <1>2 DEF Program, Mmap, Munmap, Store, Change
  <1>5. ASSUME Running(u) PROVE u = t
    BY Zenon, <1>3, <1>5 DEF Running, FindVma, FindHole, Recheck, VmMmap, CopyFromUser, CopyToUser,
       VmMunmap, Result, PromoteScan, PromoteCopy, Go, Step, Fail, Return
  <1>6. ASSUME Ioctl(u) PROVE u = t
    BY Zenon, <1>3, <1>6 DEF Ioctl, MveVmaTo, MveVma, PromoteVma, CompactVma, Go, Fail, Return
  <1> QED BY Zenon, <1>1, <1>4, <1>5, <1>6

\* A failure reported by an undisturbed ioctl that did not get to unmapping has
\* changed nothing.
THEOREM FailuresChangeNothing == Spec => FailureChangesNothing
  <1>1. MoveInv /\ [Next]_vars =>
            [\A t \in Thread :
                Leaves(t) /\ ret'[t] = -1 /\ call[t].quiet /\ pc[t] # "result" =>
                    space' = call[t].snap]_vars
    <2> SUFFICES ASSUME MoveInv, Next, NEW t \in Thread, Leaves(t), ret'[t] = -1,
                        call[t].quiet, pc[t] # "result"
                 PROVE  space' = call[t].snap
      BY Zenon
    <2>1. pc[t] # "user" /\ pc'[t] = "user" /\ DOMAIN ret = Thread /\ pc \in [Thread -> Labels]
      BY Zenon DEF Leaves, MoveInv, Types
    <2>2. Running(t)
      BY Zenon, <2>1, OwnSteps DEF Ioctl, MveVmaTo, MveVma, PromoteVma, CompactVma, Enter
    <2>3. Local(pc[t], call[t])
      BY Zenon DEF MoveInv
    <2>4. CASE pc[t] \in {"find", "hole", "recheck", "mmap"}
      <3>1. space = call[t].snap
        BY Zenon, <2>3, <2>4 DEF Local, Same
      <3>2. space' = space
        BY Zenon, <2>1, <2>2, <2>4 DEF Running, FindVma, FindHole, Recheck, VmMmap, CopyFromUser,
           CopyToUser, VmMunmap, Result, PromoteScan, PromoteCopy, Idle, Step
      <3> QED BY Zenon, <3>1, <3>2
    <2>5. CASE pc[t] \in {"read", "write", "munmap", "promote", "copy"}
      <3>1. ret'[t] = 0
        BY Zenon, <2>1, <2>2, <2>5 DEF Running, FindVma, FindHole, Recheck, VmMmap, CopyFromUser,
           CopyToUser, VmMunmap, Result, PromoteScan, PromoteCopy, Go, Fail, Return, Step
      <3> QED BY <3>1
    <2>6. pc[t] # "oops"
      BY Zenon, <2>2 DEF Running, FindVma, FindHole, Recheck, VmMmap, CopyFromUser, CopyToUser,
         VmMunmap, Result, PromoteScan, PromoteCopy
    <2> QED BY Zenon, <2>1, <2>4, <2>5, <2>6 DEF Labels
  <1> QED BY <1>1, MoveInvariance, PTL DEF Spec, FailureChangesNothing

\* Undisturbed, MVE_VMA finds free pages no higher than the lowest hole with a
\* page to spare, and fails only where there is no such hole.
THEOREM HolesAreLowest == Spec => HoleIsLowest
  <1> DEFINE Holes(c) == {h \in AreaEnd(c.from) .. Top : Free(h, c.size + 1)}
             Found(t) ==
                 LET c == call[t]
                     end == AreaEnd(c.from)
                     roomy == {h \in end .. Top : Free(h, c.size + 1)}
                 IN  pc[t] = "hole" /\ c.quiet =>
                     /\ pc'[t] = "user" => roomy = {}
                     /\ pc'[t] = "recheck" =>
                           /\ end <= call'[t].to /\ Free(call'[t].to, c.size)
                           /\ \A h \in roomy : call'[t].to <= h
  <1>1. ASSUME MoveInv, Next, NEW t \in Thread
        PROVE  Found(t)
    <2> SUFFICES ASSUME pc[t] = "hole", call[t].quiet, pc'[t] \in {"user", "recheck"}
                 PROVE  Found(t)
      BY Zenon
    <2>1. FindHole(t)
      <3>1. Running(t)
        BY Zenon, <1>1, OwnSteps DEF Ioctl, MveVmaTo, MveVma, PromoteVma, CompactVma, Enter
      <3> QED BY Zenon, <3>1 DEF Running, FindVma, Recheck, VmMmap, CopyFromUser, CopyToUser,
           VmMunmap, Result, PromoteScan, PromoteCopy
    <2>2. PICK c : c = call[t]
      BY Zenon
    <2>3. Types /\ Shape(c) /\ Local("hole", c) /\ c.quiet
      BY Zenon, <1>1, <2>2 DEF MoveInv, Types
    <2>4. /\ Area(c) /\ space = c.snap /\ Pieces(c) /\ Bounded(c) /\ HoleScan(c)
          /\ c.j \in 0 .. c.size
      BY Zenon, <2>3 DEF Local, Same
    <2>5. /\ Top \in Nat /\ c.at \in Int /\ c.j \in Int /\ c.size \in Int /\ c.from \in Int
          /\ c.from >= 1 /\ c.size >= 1 /\ c.from + c.size <= Top + 1
      BY <2>3, <2>4, SystemFacts DEF Types, Shape, Area, Page
    <2>6. AreaEnd(c.from) = c.from + c.size
      <3>1. \A q \in c.from .. c.from + c.size - 1 :
                q \in Page /\ space[q] \in Contents(Prots) /\ space[q].prot = c.prot
        BY <2>4, <2>5 DEF Pieces, Old, Pages, Page
      <3>2. \A q \in c.from .. c.from + c.size - 1 : Mapped(q)
        BY Zenon, <2>3, <3>1, PageFacts DEF Mapped, Types
      <3>3. c.from \in c.from .. c.from + c.size - 1
        BY <2>5
      <3>4. space[c.from].prot = c.prot /\ c.from \in Page
        BY Zenon, <3>1, <3>3
      <3>5. c.from + c.size \in c.from + 1 .. Top + 1
        BY <2>5
      <3>6. PICK e : e = c.from + c.size
        BY Zenon
      <3>7. \/ e > Top
            \/ ~Mapped(e)
            \/ space[e].prot # space[c.from].prot
        BY Zenon, <2>4, <3>4, <3>6 DEF Bounded
      <3>8. \A q \in c.from .. e - 1 : Mapped(q) /\ space[q].prot = space[c.from].prot
        BY <2>5, <3>1, <3>2, <3>4, <3>6
      <3>9. c.from \in Page /\ e \in c.from + 1 .. Top + 1
        BY Zenon, <3>4, <3>5, <3>6
      <3>10. AreaEnd(c.from) = e
        BY Zenon, <2>3, <3>7, <3>8, <3>9, AreaEndUnique
      <3> QED BY Zenon, <3>6, <3>10
    <2>7. \A h \in Holes(c) : h \in Int /\ h >= c.at - c.j /\ h + c.size <= Top
      <3> SUFFICES ASSUME NEW h \in Holes(c)
                   PROVE  h \in Int /\ h >= c.at - c.j /\ h + c.size <= Top
        BY Zenon
      <3>1. h \in c.from + c.size .. Top /\ Free(h, c.size + 1)
        BY Zenon, <2>6
      <3>2. ~(h <= c.at - c.j - 1)
        BY <2>4, <2>5, <3>1 DEF HoleScan
      <3>3. h + c.size \in Pages(h, c.size + 1)
        BY <2>5, <3>1 DEF Pages
      <3>4. h + c.size \in Page
        BY Zenon, <3>1, <3>3 DEF Free
      <3> QED BY <2>5, <3>1, <3>2, <3>4 DEF Page
    <2>8. CASE pc'[t] = "user"
      <3>1. c.at > Top
        BY Zenon, <1>1, <2>1, <2>2, <2>8 DEF FindHole, Go, MoveInv, Types
      <3>2. Holes(c) = {}
        BY <2>4, <2>5, <2>7, <3>1
      <3> QED BY Zenon, <2>2, <2>8, <3>2
    <2>9. CASE pc'[t] = "recheck"
      <3>1. PICK free : free = IF Mapped(c.at) THEN 0 ELSE c.j + 1
        BY Zenon
      <3>2. /\ c.at <= Top /\ free = c.size + 1
            /\ Go(t, "recheck", [c EXCEPT !.to = c.at - c.size, !.at = 0, !.j = 0])
        BY Zenon, <1>1, <2>1, <2>2, <2>5, <2>9, <3>1 DEF FindHole, Go, Fail, Return, MoveInv, Types
      <3>3. ~Mapped(c.at) /\ c.j = c.size
        BY <2>5, <3>1, <3>2
      <3>4. call'[t].to = c.at - c.size
        <4>1. PICK d : d = [c EXCEPT !.to = c.at - c.size, !.at = 0, !.j = 0]
          BY Zenon
        <4>2. d.to = c.at - c.size
          BY Zenon, <2>3, <4>1 DEF Shape
        <4>3. call'[t] = d
          BY Zenon, <1>1, <3>2, <4>1 DEF Go, MoveInv, Types
        <4> QED BY Zenon, <4>2, <4>3
      <3>5. Free(c.at - c.size, c.size)
        BY <2>4, <2>5, <3>2, <3>3 DEF HoleScan, Free, Pages, Page
      <3>6. AreaEnd(c.from) <= c.at - c.size
        BY <2>4, <2>5, <2>6, <3>3 DEF HoleScan
      <3>7. \A h \in Holes(c) : c.at - c.size <= h
        BY Zenon, <2>5, <2>7, <3>3
      <3>8. AreaEnd(c.from) <= call'[t].to /\ Free(call'[t].to, c.size)
        BY Zenon, <3>4, <3>5, <3>6
      <3>9. \A h \in Holes(c) : call'[t].to <= h
        BY Zenon, <3>4, <3>7
      <3> QED BY Zenon, <2>2, <2>9, <3>8, <3>9
    <2> QED BY Zenon, <2>8, <2>9
  <1>2. MoveInv /\ [Next]_vars => [\A t \in Thread : Found(t)]_vars
    BY Zenon, <1>1
  <1> QED BY <1>2, MoveInvariance, PTL DEF Spec, HoleIsLowest

\* Undisturbed, the search of PROMOTE_VMA ends at the last of Huge mapped pages in
\* a row, and returns only where there are none.
THEOREM PromotionsFindRuns == Spec => PromotionFindsRun
  <1> DEFINE Whole(p) == \A q \in Pages(p, Huge) : Mapped(q)
             Outcome(t) == pc[t] = "promote" /\ call[t].quiet =>
                 /\ pc'[t] = "copy" => Whole(call[t].at - Huge + 1)
                 /\ pc'[t] = "user" => \A p \in Page : ~Whole(p)
  <1>1. ASSUME MoveInv, Next, NEW t \in Thread
        PROVE  Outcome(t)
    <2> SUFFICES ASSUME pc[t] = "promote", call[t].quiet, pc'[t] \in {"user", "copy"}
                 PROVE  Outcome(t)
      BY Zenon
    <2>1. PromoteScan(t)
      <3>1. Running(t)
        BY Zenon, <1>1, OwnSteps DEF Ioctl, MveVmaTo, MveVma, PromoteVma, CompactVma, Enter
      <3> QED BY Zenon, <3>1 DEF Running, FindVma, FindHole, Recheck, VmMmap, CopyFromUser,
           CopyToUser, VmMunmap, Result, PromoteCopy
    <2>2. PICK c : c = call[t]
      BY Zenon
    <2>3. Types /\ Shape(c) /\ c.j \in 0 .. Huge - 1 /\ RunScan(c)
      BY Zenon, <1>1, <2>2 DEF MoveInv, Types, Local
    <2>4. Top \in Nat /\ Huge \in 1 .. Top /\ c.at \in Int /\ c.j \in Int
      BY Zenon, <2>3, SystemFacts DEF Types, Shape
    <2>5. CASE pc'[t] = "user"
      <3>1. c.at > Top
        BY Zenon, <1>1, <2>1, <2>2, <2>5 DEF PromoteScan, Go, MoveInv, Types
      <3>2. ASSUME NEW p \in Page, p >= c.at - c.j
            PROVE  ~Whole(p)
        <4>1. p + Huge - 1 \in Pages(p, Huge) /\ p + Huge - 1 > Top
          BY <2>3, <2>4, <3>1, <3>2 DEF Pages, Page
        <4>2. ~Mapped(p + Huge - 1)
          BY <2>4, <4>1 DEF Mapped, Page
        <4> QED BY Zenon, <4>1, <4>2
      <3>3. ASSUME NEW p \in Page, p < c.at - c.j
            PROVE  ~Whole(p)
        BY Zenon, <2>3, <3>3 DEF RunScan
      <3> QED BY <2>4, <2>5, <3>2, <3>3 DEF Page
    <2>6. CASE pc'[t] = "copy"
      <3>1. PICK run : run = IF Mapped(c.at) THEN c.j + 1 ELSE 0
        BY Zenon
      <3>2. /\ c.at <= Top /\ run = Huge
            /\ Go(t, "copy", [c EXCEPT !.from = c.at - Huge, !.j = 0])
        BY Zenon, <1>1, <2>1, <2>2, <2>4, <2>6, <3>1 DEF PromoteScan, Go, Fail, Return, MoveInv, Types
      <3>3. Mapped(c.at) /\ c.j = Huge - 1
        BY <2>4, <3>1, <3>2
      <3>4. Whole(c.at - Huge + 1)
        BY <2>3, <2>4, <3>3 DEF RunScan, Pages
      <3> QED BY Zenon, <2>2, <2>6, <3>4
    <2> QED BY Zenon, <2>5, <2>6
  <1>2. MoveInv /\ [Next]_vars => [\A t \in Thread : Outcome(t)]_vars
    BY Zenon, <1>1
  <1> QED BY <1>2, MoveInvariance, PTL DEF Spec, PromotionFindsRun
=============================================================================
