---------------------------- MODULE CardMapping ----------------------------
(***************************************************************************)
(* map_card and unmap_card of src/crypter.c: the card's memory in the      *)
(* address space of a program.  map_card asks mmap for 0xa8 bytes more     *)
(* than its argument and hands out the address behind them; unmap_card     *)
(* gives munmap that address less 0xa8, and as length the argument of the  *)
(* last map_card of the whole program, in the static variable map_size.    *)
(*                                                                         *)
(* An address is a page number: every mapping starts on a page, 0xa8 below *)
(* the address the program holds.                                          *)
(***************************************************************************)
EXTENDS Integers, FiniteSets

CONSTANTS
    Mapper,      \* threads of the program
    Page,        \* bytes of a page
    Header,      \* 0xa8
    Limit,       \* the largest length mmap is asked for: 0x100000
    Sizes,       \* the sizes the program passes
    Top,         \* pages of the address space that may be mapped
    MaxMaps      \* bound: how often a thread calls map_card

Place == 0 .. Top - 1

ASSUME MappingAssumption ==
    /\ Page \in Nat \ {0}
    /\ Header \in 1 .. Page
    /\ Limit \in Nat
    /\ Sizes \subseteq Nat \ {0}
    /\ Top \in Nat
    /\ MaxMaps \in Nat

NONE == -1

VARIABLES
    mpc,         \* "user", or between mmap and the store to map_size
    size,       \* the argument of the thread's map_card
    held,       \* the mappings each thread holds, as [at, size]
    space,      \* for each page, the first page of its mapping, or NONE
    map_size,   \* the static variable
    maps,       \* map_card calls so far
    usual,      \* the size the program uses, 0 if it uses several
    unmaps,     \* history: unmap_card calls so far
    exceeded,   \* history: a call was given too large a length
    strayed     \* history: a call unmapped pages of another mapping

past == <<unmaps, exceeded, strayed>>
mapvars == <<mpc, size, held, space, map_size, maps, usual, past>>

MapInit ==
    /\ mpc = [t \in Mapper |-> "user"]
    /\ size = [t \in Mapper |-> 0]
    /\ held = [t \in Mapper |-> {}]
    /\ space = [p \in Place |-> NONE]
    /\ map_size = 0
    /\ maps = [t \in Mapper |-> 0]
    /\ usual \in Sizes \cup {0}
    /\ unmaps = 0
    /\ exceeded = FALSE
    /\ strayed = FALSE

-----------------------------------------------------------------------------
\* The pages that n bytes from the start of a page take.
PagesOf(n) == (n + Page - 1) \div Page
PagesAt(at, n) == at .. at + PagesOf(n) - 1

Room(n) ==
    {at \in Place : PagesAt(at, n) \subseteq {p \in Place : space[p] = NONE}}

(* map_card: an argument that is too large, or no room left.               *)
MapCardFails(t) ==
    /\ mpc[t] = "user"
    /\ maps[t] < MaxMaps
    /\ \E s \in Sizes :
        /\ usual \in {0, s}
        /\ s > Limit - Header \/ Room(s + Header) = {}
    /\ maps' = [maps EXCEPT ![t] = @ + 1]
    /\ UNCHANGED <<mpc, size, held, space, map_size, usual, past>>

\* Mutation of MapCard: mmap is asked for the bare size.
MapCardBare(t) ==
    /\ mpc[t] = "user"
    /\ maps[t] < MaxMaps
    /\ \E s \in Sizes : \E at \in Room(s) :
        /\ usual \in {0, s}
        /\ s <= Limit - Header
        /\ space' = [p \in Place |->
                IF p \in PagesAt(at, s) THEN at ELSE space[p]]
        /\ held' = [held EXCEPT ![t] = @ \cup {[at |-> at, size |-> s]}]
        /\ size' = [size EXCEPT ![t] = s]
    /\ mpc' = [mpc EXCEPT ![t] = "mapped"]
    /\ maps' = [maps EXCEPT ![t] = @ + 1]
    /\ UNCHANGED <<map_size, usual, past>>

(* map_card up to the return of mmap, which may choose any free range.     *)
MapCard(t) ==
    /\ mpc[t] = "user"
    /\ maps[t] < MaxMaps
    /\ \E s \in Sizes : \E at \in Room(s + Header) :
        /\ usual \in {0, s}
        /\ s <= Limit - Header
        /\ space' = [p \in Place |->
                IF p \in PagesAt(at, s + Header) THEN at ELSE space[p]]
        /\ held' = [held EXCEPT ![t] = @ \cup {[at |-> at, size |-> s]}]
        /\ size' = [size EXCEPT ![t] = s]
    /\ mpc' = [mpc EXCEPT ![t] = "mapped"]
    /\ maps' = [maps EXCEPT ![t] = @ + 1]
    /\ UNCHANGED <<map_size, usual, past>>

\* Mutation of SetMapSize: the length that mmap was given is kept.
SetMapSizeWhole(t) ==
    /\ mpc[t] = "mapped"
    /\ map_size' = size[t] + Header
    /\ mpc' = [mpc EXCEPT ![t] = "user"]
    /\ UNCHANGED <<size, held, space, maps, usual, past>>

(* ... and its store to map_size.                                          *)
SetMapSize(t) ==
    /\ mpc[t] = "mapped"
    /\ map_size' = size[t]
    /\ mpc' = [mpc EXCEPT ![t] = "user"]
    /\ UNCHANGED <<size, held, space, maps, usual, past>>

\* Mutation of Gone: one page too many.
GoneLong(at) == PagesAt(at, map_size + Page)

\* The pages that munmap takes away for the mapping at this page.
Gone(at) == PagesAt(at, map_size)

(* unmap_card of an address the thread holds.  Its pages go, whichever     *)
(* mapping they belong to.                                                 *)
UnmapCard(t) ==
    /\ mpc[t] = "user"
    /\ \E m \in held[t] :
        /\ exceeded' = (exceeded \/ map_size > m.size)
        /\ held' = [held EXCEPT ![t] = @ \ {m}]
        /\ space' = [p \in Place |->
                IF p \in Gone(m.at) THEN NONE ELSE space[p]]
        /\ strayed' = (strayed \/
                \E p \in Place \cap Gone(m.at) : space[p] \notin {NONE, m.at})
    /\ unmaps' = unmaps + 1
    /\ UNCHANGED <<mpc, size, map_size, maps, usual>>

MapNext ==
    \E t \in Mapper :
        MapCardFails(t) \/ MapCard(t) \/ SetMapSize(t) \/ UnmapCard(t)

MapSpec == MapInit /\ [][MapNext]_mapvars

-----------------------------------------------------------------------------
MapTypeOK ==
    /\ mpc \in [Mapper -> {"user", "mapped"}]
    /\ size \in [Mapper -> Sizes \cup {0}]
    /\ held \in [Mapper -> SUBSET [at : Place, size : Sizes]]
    /\ space \in [Place -> Place \cup {NONE}]
    /\ map_size \in Sizes \cup {0}
    /\ maps \in [Mapper -> 0 .. MaxMaps]
    /\ usual \in Sizes \cup {0}
    /\ unmaps \in Nat
    /\ exceeded \in BOOLEAN
    /\ strayed \in BOOLEAN

(* While unmap_card is given no larger a length than its mapping has, as   *)
(* in every program that uses one size, it takes away pages of that        *)
(* mapping only, though the length comes from another call, perhaps of     *)
(* another thread.                                                         *)
UnmapStays ==
    /\ usual # 0 => ~exceeded
    /\ ~exceeded => ~strayed

(* ... so what a thread holds is mapped, all of it, by its own mmap.       *)
HeldIsMapped ==
    ~exceeded =>
        \A t \in Mapper : \A m \in held[t] :
            \A p \in PagesAt(m.at, m.size + Header) :
                p \in Place /\ space[p] = m.at

\* Pages that nobody holds and that are still mapped.
Leaked ==
    {p \in Place : space[p] # NONE /\
        ~ \E t \in Mapper : \E m \in held[t] : p \in PagesAt(m.at, m.size + Header)}

(* With one size, each unmap_card leaves exactly the pages behind that the *)
(* header needs beyond the size: none or one, the latter for the sizes of  *)
(* whole pages that the programs use.                                      *)
LeakIsExact ==
    usual # 0 =>
        Cardinality(Leaked) = unmaps * (PagesOf(usual + Header) - PagesOf(usual))
=============================================================================
