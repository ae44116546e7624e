-------------------------- MODULE DeviceLifeProofs --------------------------
(***************************************************************************)
(* References and module unloading, for any number of programs, any set of *)
(* failing resources and any number of loads.                              *)
(*                                                                         *)
(* References are counted right because every program that is inside a     *)
(* loaded module past try_module_get holds one (Exact), and rmmod starts   *)
(* only at a count of 0, from where none can be had (Drained).  That no    *)
(* load is given up under a program needs the order of the initialisation: *)
(* but for btplus, a step that returns an error comes no later than the    *)
(* one that publishes the device file (LoadShape), and until then no       *)
(* program is inside (Unpublished).  The counter of open files is right    *)
(* because nobody is inside at its reset, unless early, and the reset is   *)
(* skipped only where the character device is given up too (CountInv,      *)
(* CountShape).  Little is left registered because a clean-up undoes every *)
(* step of its initialisation (CleanupIsComplete), and what is held is     *)
(* always what an earlier load left, the steps so far may have got, or     *)
(* those to come give back (HeldInv).                                      *)
(***************************************************************************)
EXTENDS DeviceLife, FiniteSetTheorems, TLAPS

\* The step that publishes the device file, and the one that removes it.
DeviceAt ==
    IF driver \in {"part1", "part2", "part3"} THEN 5
    ELSE IF driver = "cryptocard" THEN 6 ELSE 3
DeviceGone ==
    IF driver \in {"part1", "part2", "part3"} THEN 4
    ELSE IF driver = "simplecdev" THEN 2 ELSE 1

\* The seven drivers.
Known == driver \in {"part1", "part2", "part3", "btplus", "ptextract", "simplecdev",
                     "cryptocard"}

\* What the argument needs of the i-th step of an initialisation.
LoadShapeAt(i) ==
    /\ Load[i].then \in Int
    /\ i < DeviceAt => Load[i].get # "device"
    /\ Load[i].then = 0 /\ Load[i].get # "counter" => i <= DeviceAt \/ FailsLate
    /\ Load[i].then # 0 => Load[i].then > i \/ (Load[i].then = -1 /\ i < DeviceAt)

\* Every clean-up removes the device file.
LEMMA UnloadShape ==
    Known => DeviceGone \in 1 .. Len(Unload) /\ Unload[DeviceGone] = "device"
  BY DEF Known, DeviceGone, Unload, cs614_driver_exit_1, cs614_driver_exit_2,
     cs614_driver_exit_3, cs614_sysfs_exit, btplus_cleanup, ptextract_cleanup,
     simplecdev_cleanup, cryptocard_remove, chardev_exit

\* The steps of each initialisation, spelt out,
StepsParts ==
    /\ Len(Load) = 7
    /\ Load[1] = Get("kobject", {}, 3)
    /\ Load[2] = Get("attribute", {"kobject"}, 3)
    /\ Load[3] = Get("chrdev", {}, 0)
    /\ Load[4] = Get("class", {"chrdev"}, 0)
    /\ Load[5] = Get("device", {"class", "chrdev"}, 0)
    /\ Load[6] = Get("d_buf", {}, 7)
    /\ Load[7] = Get("counter", {}, 0)
StepsBtplus ==
    /\ Len(Load) = 6
    /\ Load[1] = Get("chrdev", {}, 0)
    /\ Load[2] = Get("class", {"chrdev"}, 0)
    /\ Load[3] = Get("device", {"class", "chrdev"}, 0)
    /\ Load[4] = Get("counter", {}, 0)
    /\ Load[5] = Get("kobject", {}, 0)
    /\ Load[6] = Get("attribute", {"kobject", "class", "chrdev"}, 0)
StepsPtextract ==
    /\ Len(Load) = 4
    /\ Load[1] = Get("chrdev", {}, 0)
    /\ Load[2] = Get("class", {"chrdev"}, 0)
    /\ Load[3] = Get("device", {"class", "chrdev"}, 0)
    /\ Load[4] = Get("counter", {}, 0)
StepsSimplecdev ==
    /\ Len(Load) = 5
    /\ Load[1] = Get("chrdev", {}, 0)
    /\ Load[2] = Get("class", {"chrdev"}, 0)
    /\ Load[3] = Get("device", {"class", "chrdev"}, 0)
    /\ Load[4] = Get("d_buf", {}, 5)
    /\ Load[5] = Get("counter", {}, 0)
StepsCryptocard ==
    /\ Len(Load) = 9
    /\ Load[1] = Get("region", {}, 2)
    /\ Load[2] = Get("mmregion", {}, -1)
    /\ Load[3] = Get("ccbar0", {}, -1)
    /\ Load[4] = Get("chrdev", {}, 8)
    /\ Load[5] = Get("class", {"chrdev"}, 8)
    /\ Load[6] = Get("device", {"class", "chrdev"}, 8)
    /\ Load[7] = Get("counter", {}, 8)
    /\ Load[8] = Get("vectors", {}, 9)
    /\ Load[9] = Get("irq", {}, 10)

\* ... which Load gives.
LEMMA LoadSteps ==
    /\ driver \in {"part1", "part2", "part3"} => StepsParts
    /\ driver = "btplus" => StepsBtplus
    /\ driver = "ptextract" => StepsPtextract
    /\ driver = "simplecdev" => StepsSimplecdev
    /\ driver = "cryptocard" => StepsCryptocard
  <1>1. driver \in {"part1", "part2", "part3"} => StepsParts
    BY DEF Load, cs614_driver_init_1, cs614_driver_init_2, cs614_driver_init_3,
       cs614_sysfs_init, chardev_setup, StepsParts
  <1>2. driver = "btplus" => StepsBtplus
    BY DEF Load, btplus_init, chardev_setup, StepsBtplus
  <1>3. driver = "ptextract" => StepsPtextract
    BY DEF Load, ptextract_init, chardev_setup, StepsPtextract
  <1>4. driver = "simplecdev" => StepsSimplecdev
    BY DEF Load, simplecdev_init, chardev_setup, StepsSimplecdev
  <1>5. driver = "cryptocard" => StepsCryptocard
    BY DEF Load, cryptocard_probe, cryptocard_chardev_setup, chardev_setup, StepsCryptocard
  <1> QED BY Zenon, <1>1, <1>2, <1>3, <1>4, <1>5

\* Before the device file no step gets it; but for btplus, no step that returns
\* an error comes later; control only moves forwards, or the probe dies early.
LEMMA LoadShape ==
    Known => Len(Load) \in Nat /\ \A i \in 1 .. Len(Load) : LoadShapeAt(i)
  <1> USE DEF Get, LoadShapeAt, DeviceAt, FailsLate
  <1>1. CASE driver \in {"part1", "part2", "part3"}
    <2>1. StepsParts
      BY Zenon, <1>1, LoadSteps
    <2> QED BY <1>1, <2>1 DEF StepsParts
  <1>2. CASE driver = "btplus"
    <2>1. StepsBtplus
      BY Zenon, <1>2, LoadSteps
    <2> QED BY <1>2, <2>1 DEF StepsBtplus
  <1>3. CASE driver = "ptextract"
    <2>1. StepsPtextract
      BY Zenon, <1>3, LoadSteps
    <2> QED BY <1>3, <2>1 DEF StepsPtextract
  <1>4. CASE driver = "simplecdev"
    <2>1. StepsSimplecdev
      BY Zenon, <1>4, LoadSteps
    <2> QED BY <1>4, <2>1 DEF StepsSimplecdev
  <1>5. CASE driver = "cryptocard"
    <2>1. StepsCryptocard
      BY Zenon, <1>5, LoadSteps
    <2> QED BY <1>5, <2>1 DEF StepsCryptocard
  <1> QED BY Zenon, <1>1, <1>2, <1>3, <1>4, <1>5 DEF Known

-----------------------------------------------------------------------------
\* The types, and that the next step is one of the sequence.
Types ==
    /\ Known
    /\ mod \in {"absent", "coming", "live", "going"}
    /\ at \in Int
    /\ client \in [Client -> {"closed", "entered", "open", "leaving", "left"}]
    /\ got \subseteq Client
    /\ refs \in Nat /\ lost \in Nat
    /\ mod = "coming" /\ ~oops => at >= 1
    /\ mod = "going" => at >= 1

\* In a loaded module the programs past try_module_get are those with a
\* reference, and the count is theirs.
Exact ==
    /\ \A c \in got : client[c] \in {"open", "leaving"}
    /\ mod \in {"coming", "live"} =>
        /\ refs = Cardinality(got) + lost
        /\ \A c \in Client : client[c] \in {"open", "leaving"} => c \in got

\* No references where the module is leaving, or is not there.
Drained ==
    /\ mod = "going" => got = {} /\ refs = 0 /\ lost = 0
    /\ mod = "absent" /\ ~(FailsLate /\ aborted) => got = {}

\* No program is inside before the device file exists.
Unpublished ==
    ~FailsLate =>
        /\ "device" \notin left
        /\ mod = "absent" => "device" \notin held
        /\ mod = "going" /\ at > DeviceGone => "device" \notin held
        /\ mod = "coming" /\ at <= DeviceAt =>
            "device" \notin held /\ \A c \in Client : client[c] = "closed"

LifeInv == Types /\ Exact /\ Drained /\ Unpublished

\* Cardinalities of the programs that hold a reference.
LEMMA GotCounted ==
    ASSUME got \subseteq Client
    PROVE  /\ Cardinality(got) \in Nat
           /\ Cardinality(got) = 0 <=> got = {}
           /\ \A c \in Client \ got : Cardinality(got \cup {c}) = Cardinality(got) + 1
           /\ \A c \in got : Cardinality(got \ {c}) = Cardinality(got) - 1
  <1>1. IsFiniteSet(got)
    BY Zenon, FS_Subset, DeviceLifeAssumption
  <1> QED BY Zenon, <1>1, FS_CardinalityType, FS_EmptySet, FS_AddElement, FS_RemoveElement

\* Nothing is loaded and nobody inside at the start.
LEMMA InitHolds == Init => LifeInv
  BY FS_EmptySet, DeviceLifeAssumption
     DEF Init, LifeInv, Types, Known, Exact, Drained, Unpublished

\* Every step of loading, unloading, open and release keeps the types.
LEMMA NextKeepsTypes == LifeInv /\ Next => Types'
  <1> SUFFICES ASSUME LifeInv, Next PROVE Types'
    BY Zenon
  <1> USE DEF LifeInv, Types, Known, module, counts
  <1>1. CASE Insmod
    BY <1>1 DEF Insmod
  <1>2. CASE Obtain
    BY <1>2 DEF Obtain, Next
  <1>3. CASE Miss
    <2>1. LoadShapeAt(at)
      BY <1>3, LoadShape DEF Miss, Next
    <2> DEFINE t == Load[at].then
    <2>2. /\ t \in Int
          /\ at \in Int /\ at >= 1
          /\ t = 0 \/ t = -1 \/ t > at
      BY Zenon, <1>3, <2>1 DEF Miss, LoadShapeAt, Next
    <2>3. /\ mod' = IF t = 0 THEN "absent" ELSE "coming"
          /\ at' = IF t = 0 THEN 0 ELSE t
          /\ t = -1 => oops'
          /\ UNCHANGED <<driver, client, got, refs, lost>>
      BY Zenon, <1>3 DEF Miss
    <2> HIDE DEF t
    <2> QED BY <2>2, <2>3
  <1>4. CASE Loaded
    BY <1>4 DEF Loaded
  <1>5. CASE Rmmod
    BY <1>5 DEF Rmmod
  <1>6. CASE Release
    BY <1>6 DEF Release
  <1>7. CASE Unloaded
    BY <1>7 DEF Unloaded
  <1>8. ASSUME NEW c \in Client, Enter(c) PROVE Types'
    BY Zenon, <1>8 DEF Enter, Next
  <1>9. ASSUME NEW c \in Client, TryModuleGet(c) PROVE Types'
    BY <1>9 DEF TryModuleGet
  <1>10. ASSUME NEW c \in Client, OpenFails(c) PROVE Types'
    BY <1>10 DEF OpenFails
  <1>11. ASSUME NEW c \in Client, Leave(c) \/ Return(c) PROVE Types'
    BY Zenon, <1>11 DEF Leave, Return
  <1>12. ASSUME NEW c \in Client, ModulePut(c) PROVE Types'
    BY <1>12 DEF ModulePut
  <1>13. ASSUME NEW c \in Client, Crash(c) PROVE Types'
    BY Zenon, <1>13 DEF Crash, Next
  <1> QED BY Zenon, <1>1, <1>2, <1>3, <1>4, <1>5, <1>6, <1>7, <1>8, <1>9, <1>10, <1>11, <1>12,
             <1>13 DEF Next, Loading, Unloading

\* ... the count of references, which TryModuleGet, OpenFails and ModulePut move.
LEMMA NextKeepsExact == LifeInv /\ Next => Exact'
  <1> SUFFICES ASSUME LifeInv, Next PROVE Exact'
    BY Zenon
  <1>1. /\ Cardinality(got) \in Nat
        /\ Cardinality(got) = 0 <=> got = {}
        /\ \A c \in Client \ got : Cardinality(got \cup {c}) = Cardinality(got) + 1
        /\ \A c \in got : Cardinality(got \ {c}) = Cardinality(got) - 1
    BY Zenon, GotCounted DEF LifeInv, Types
  <1> USE DEF LifeInv, Types, Exact, module, counts
  <1>2. CASE Insmod
    <2>1. got = {}
      BY Zenon, <1>2 DEF Insmod
    <2> QED BY <1>1, <1>2, <2>1 DEF Insmod
  <1>3. CASE Obtain \/ Miss \/ Loaded \/ Rmmod \/ Release \/ Unloaded
    <2>1. /\ UNCHANGED <<refs, client, got, lost>>
          /\ mod' \in {"coming", "live"} => mod \in {"coming", "live"}
      BY Zenon, <1>3 DEF Obtain, Miss, Loaded, Rmmod, Release, Unloaded
    <2> QED BY Zenon, <2>1
  <1>4. ASSUME NEW c \in Client, Enter(c) \/ Return(c) PROVE Exact'
    <2>1. /\ UNCHANGED <<refs, got, lost, mod>>
          /\ c \notin got
          /\ \/ client' = client
             \/ \E x \in {"entered", "closed"} : client' = [client EXCEPT ![c] = x]
      BY Zenon, <1>4 DEF Enter, Return
    <2> QED BY Zenon, <2>1
  <1>5. ASSUME NEW c \in Client, TryModuleGet(c) PROVE Exact'
    <2>1. c \notin got
      BY Zenon, <1>5 DEF TryModuleGet
    <2>2. CASE mod = "going"
      BY Zenon, <1>5, <2>1, <2>2 DEF TryModuleGet, Drained
    <2>3. CASE mod # "going"
      BY <1>1, <1>5, <2>1, <2>3 DEF TryModuleGet
    <2> QED BY Zenon, <2>2, <2>3
  <1>6. ASSUME NEW c \in Client, OpenFails(c) PROVE Exact'
    BY <1>1, <1>6 DEF OpenFails
  <1>7. ASSUME NEW c \in Client, Leave(c) PROVE Exact'
    BY Zenon, <1>7 DEF Leave
  <1>8. ASSUME NEW c \in Client, ModulePut(c) PROVE Exact'
    <2>1. CASE mod \in {"coming", "live"}
      <3>1. c \in got
        BY Zenon, <1>8, <2>1 DEF ModulePut
      <3>2. refs > 0 /\ Cardinality(got \ {c}) = Cardinality(got) - 1
        BY <1>1, <2>1, <3>1
      <3> QED BY <1>1, <1>8, <2>1, <3>1, <3>2 DEF ModulePut
    <2>2. CASE mod \notin {"coming", "live"}
      BY Zenon, <1>8, <2>2 DEF ModulePut
    <2> QED BY Zenon, <2>1, <2>2
  <1>9. ASSUME NEW c \in Client, Crash(c) PROVE Exact'
    BY Zenon, <1>9 DEF Crash
  <1> QED BY Zenon, <1>2, <1>3, <1>4, <1>5, <1>6, <1>7, <1>8, <1>9 DEF Next, Loading, Unloading

\* ... that a module being unloaded has no references, as Rmmod found it.
LEMMA NextKeepsDrained == LifeInv /\ Next => Drained'
  <1> SUFFICES ASSUME LifeInv, Next PROVE Drained'
    BY Zenon
  <1> USE DEF LifeInv, Types, Drained, FailsLate, module, counts
  <1>1. CASE Insmod
    BY Zenon, <1>1 DEF Insmod
  <1>2. CASE Obtain \/ Loaded \/ Release
    <2>1. /\ UNCHANGED <<driver, refs, got, lost, aborted>>
          /\ mod' = mod \/ mod' = "live"
      BY Zenon, <1>2 DEF Obtain, Loaded, Release
    <2> QED BY Zenon, <2>1
  <1>3. CASE Miss
    <2>1. LoadShapeAt(at)
      BY <1>3, LoadShape DEF Miss, Next
    <2>2. Load[at].then = 0 /\ ~FailsLate => at <= DeviceAt
      BY Zenon, <1>3, <2>1, DeviceLifeAssumption DEF Miss, LoadShapeAt
    <2>3. Load[at].then = 0 /\ ~FailsLate => got = {}
      BY Zenon, <1>3, <2>2 DEF Miss, Unpublished, Exact
    <2>4. Load[at].then # 0 => mod' = "coming"
      BY Zenon, <1>3 DEF Miss
    <2>5. Load[at].then = 0 => mod' = "absent" /\ aborted'
      BY Zenon, <1>3 DEF Miss
    <2>6. UNCHANGED <<driver, got>>
      BY Zenon, <1>3 DEF Miss
    <2> QED BY Zenon, <2>3, <2>4, <2>5, <2>6
  <1>4. CASE Rmmod
    BY <1>4, GotCounted DEF Rmmod, Exact
  <1>5. CASE Unloaded
    BY Zenon, <1>5 DEF Unloaded
  <1>6. ASSUME NEW c \in Client,
               Enter(c) \/ Leave(c) \/ Return(c) \/ Crash(c)
        PROVE  Drained'
    <2>1. UNCHANGED <<driver, mod, refs, got, lost, aborted>>
      BY Zenon, <1>6 DEF Enter, Leave, Return, Crash
    <2> QED BY Zenon, <2>1
  <1>7. ASSUME NEW c \in Client, TryModuleGet(c) \/ OpenFails(c) \/ ModulePut(c)
        PROVE  Drained'
    <2>1. /\ UNCHANGED <<driver, mod, aborted>>
          /\ mod # "absent"
      BY Zenon, <1>7 DEF TryModuleGet, OpenFails, ModulePut, Present
    <2>2. mod = "going" => got' = {} /\ refs' = 0 /\ lost' = 0
      BY <1>7 DEF TryModuleGet, OpenFails, ModulePut
    <2> QED BY Zenon, <2>1, <2>2
  <1> QED BY Zenon, <1>1, <1>2, <1>3, <1>4, <1>5, <1>6, <1>7 DEF Next, Loading, Unloading

\* ... and that nobody is inside before the device file is there.
LEMMA NextKeepsUnpublished == LifeInv /\ Next => Unpublished'
  <1> SUFFICES ASSUME LifeInv, Next, ~FailsLate PROVE Unpublished'
    BY Zenon DEF Unpublished, FailsLate, Next, Insmod, Loading, Obtain, Miss, Loaded, Rmmod,
       Unloading, Release, Unloaded, Enter, TryModuleGet, OpenFails, Leave, ModulePut,
       Return, Crash, module, counts
  <1> USE DEF LifeInv, Types, Unpublished, module, counts
  <1>1. driver' = driver
    BY Zenon DEF Next, Insmod, Loading, Obtain, Miss, Loaded, Rmmod,
       Unloading, Release, Unloaded, Enter, TryModuleGet, OpenFails, Leave, ModulePut,
       Return, Crash
  <1>2. DeviceAt' = DeviceAt /\ DeviceGone' = DeviceGone
    BY Zenon, <1>1 DEF DeviceAt, DeviceGone
  <1>3. DeviceAt \in Nat /\ DeviceGone \in Nat \ {0}
    BY DEF DeviceAt, DeviceGone
  <1>4. CASE Insmod
    BY Zenon, <1>2, <1>4 DEF Insmod
  <1>5. CASE Obtain
    <2>1. LoadShapeAt(at)
      BY <1>5, LoadShape DEF Obtain, Next
    <2>2. at + 1 <= DeviceAt => at <= DeviceAt /\ Load[at].get # "device"
      BY <1>3, <2>1 DEF LoadShapeAt
    <2>3. /\ mod' = "coming" /\ mod = "coming" /\ at' = at + 1 /\ client' = client
          /\ left' = left
          /\ "device" \in held' => "device" \in held \/ Load[at].get = "device"
      BY Zenon, <1>5 DEF Obtain
    <2> QED BY Zenon, <1>2, <2>2, <2>3
  <1>6. CASE Miss
    <2>1. LoadShapeAt(at)
      BY <1>6, LoadShape DEF Miss, Next
    <2>2. LET t == Load[at].then IN
          /\ t = 0 => at <= DeviceAt
          /\ t # 0 /\ t <= DeviceAt => at <= DeviceAt
      BY <1>3, <1>6, <2>1, DeviceLifeAssumption DEF LoadShapeAt, Miss
    <2>3. LET t == Load[at].then IN
          /\ mod = "coming" /\ client' = client /\ left' = left
          /\ t = 0 => mod' = "absent"
          /\ t # 0 => mod' = "coming" /\ at' = t
          /\ "device" \in held' => "device" \in held
      BY Zenon, <1>6 DEF Miss
    <2> QED BY Zenon, <1>2, <2>2, <2>3
  <1>7. CASE Loaded \/ Rmmod
    BY <1>2, <1>3, <1>7 DEF Loaded, Rmmod
  <1>8. CASE Release
    <2>1. DeviceGone \in 1 .. Len(Unload) /\ Unload[DeviceGone] = "device"
      BY Zenon, UnloadShape
    <2>2. /\ mod = "going" /\ mod' = "going" /\ at' = at + 1 /\ left' = left
          /\ "device" \in held' => "device" \in held /\ Unload[at] # "device"
      BY Zenon, <1>8 DEF Release
    <2>3. at + 1 > DeviceGone => at > DeviceGone \/ at = DeviceGone
      BY <1>3
    <2> QED BY Zenon, <1>2, <2>1, <2>2, <2>3
  <1>9. CASE Unloaded
    <2>1. DeviceGone \in 1 .. Len(Unload) /\ Len(Unload) \in Nat
      BY UnloadShape
    <2>2. /\ mod = "going" /\ at > Len(Unload) /\ held' = held /\ mod' = "absent"
          /\ left' = left
      BY Zenon, <1>9 DEF Unloaded
    <2>3. at > DeviceGone
      BY <2>1, <2>2
    <2> QED BY Zenon, <2>2, <2>3
  <1>10. ASSUME NEW c \in Client, Enter(c) PROVE Unpublished'
    <2>1. "device" \in held /\ UNCHANGED <<mod, at, held, left>>
      BY Zenon, <1>10 DEF Enter
    <2> QED BY Zenon, <1>2, <2>1
  <1>11. ASSUME NEW c \in Client,
                TryModuleGet(c) \/ OpenFails(c) \/ Leave(c) \/ ModulePut(c) \/ Return(c)
         PROVE  Unpublished'
    <2>1. client[c] # "closed" /\ UNCHANGED <<mod, at, held, left>>
      BY Zenon, <1>11 DEF TryModuleGet, OpenFails, Leave, ModulePut, Return
    <2> QED BY Zenon, <1>2, <2>1
  <1>12. ASSUME NEW c \in Client, Crash(c) PROVE Unpublished'
    BY Zenon, <1>2, <1>12 DEF Crash
  <1> QED BY Zenon, <1>4, <1>5, <1>6, <1>7, <1>8, <1>9, <1>10, <1>11, <1>12
          DEF Next, Loading, Unloading

-----------------------------------------------------------------------------
\* The inductive invariant of loading, unloading, open and release.
THEOREM LifeInvariance == Spec => []LifeInv
  <1>1. LifeInv /\ [Next]_vars => LifeInv'
    <2>1. LifeInv /\ UNCHANGED vars => LifeInv'
      BY DEF LifeInv, Types, Known, Exact, Drained, Unpublished, FailsLate, DeviceAt,
         DeviceGone, vars
    <2> QED BY Zenon, <2>1, NextKeepsTypes, NextKeepsExact, NextKeepsDrained, NextKeepsUnpublished
            DEF LifeInv
  <1> QED BY <1>1, InitHolds, PTL DEF Spec

\* The reference count of a loaded module is the number of programs that took a
\* reference and have not given it back, plus the opens that failed with one.
THEOREM ReferencesAreCounted == Spec => []RefsCoverOpens
  <1>1. LifeInv => RefsCoverOpens
    BY FS_EmptySet DEF LifeInv, Types, Exact, Drained, RefsCoverOpens
  <1> QED BY <1>1, LifeInvariance, PTL

\* While a program holds a reference the module is there and not on its way out,
\* except where an initialisation fails after the device was published.
THEOREM ReferencesKeepTheModule == Spec => []ReferenceKeepsModule
  <1>1. LifeInv => ReferenceKeepsModule
    BY Zenon DEF LifeInv, Types, Drained, ReferenceKeepsModule
  <1> QED BY <1>1, LifeInvariance, PTL
-----------------------------------------------------------------------------
(* The types of the rest, and the count of open files.                     *)

\* The step of an initialisation that resets the count.
CounterAt ==
    CASE driver \in {"part1", "part2", "part3", "cryptocard"} -> 7
      [] driver \in {"btplus", "ptextract"} -> 4
      [] OTHER -> 5

\* What the count needs of the i-th step: there is one reset, and a failure that
\* skips it is one without a character device.
CountShapeAt(i) ==
    /\ Load[i].get = "counter" => i = CounterAt
    /\ Load[i].get \in Resources /\ Load[i].undo \subseteq Resources
    /\ Load[i].then <= Len(Load) + 1
    /\ i <= CounterAt /\ Load[i].then > CounterAt /\ Load[i].get # "counter" =>
           "chrdev" \in {Load[i].get} \cup Load[i].undo

\* ... which all drivers have, and the reset is one of their steps.
LEMMA CountShape ==
    Known => /\ CounterAt \in 1 .. Len(Load) /\ Load[CounterAt].get = "counter"
             /\ \A i \in 1 .. Len(Load) : CountShapeAt(i)
  <1> USE DEF Get, CountShapeAt, CounterAt, Resources
  <1>1. CASE driver \in {"part1", "part2", "part3"}
    <2>1. StepsParts
      BY Zenon, <1>1, LoadSteps
    <2> QED BY <1>1, <2>1 DEF StepsParts
  <1>2. CASE driver = "btplus"
    <2>1. StepsBtplus
      BY Zenon, <1>2, LoadSteps
    <2> QED BY <1>2, <2>1 DEF StepsBtplus
  <1>3. CASE driver = "ptextract"
    <2>1. StepsPtextract
      BY Zenon, <1>3, LoadSteps
    <2> QED BY <1>3, <2>1 DEF StepsPtextract
  <1>4. CASE driver = "simplecdev"
    <2>1. StepsSimplecdev
      BY Zenon, <1>4, LoadSteps
    <2> QED BY <1>4, <2>1 DEF StepsSimplecdev
  <1>5. CASE driver = "cryptocard"
    <2>1. StepsCryptocard
      BY Zenon, <1>5, LoadSteps
    <2> QED BY <1>5, <2>1 DEF StepsCryptocard
  <1> QED BY Zenon, <1>1, <1>2, <1>3, <1>4, <1>5 DEF Known

\* The step that is next while the module is loading.
LEMMA NextStep ==
    ASSUME LifeInv, ~oops, mod = "coming", at <= Len(Load)
    PROVE  at \in 1 .. Len(Load) /\ LoadShapeAt(at) /\ CountShapeAt(at)
  <1>1. at \in 1 .. Len(Load)
    BY LoadShape DEF LifeInv, Types
  <1> QED BY Zenon, <1>1, LoadShape, CountShape DEF LifeInv, Types

\* The rest of the type invariant.
OtherTypes ==
    /\ held \subseteq Resources /\ left \subseteq Resources /\ failed \subseteq Resources
    /\ device_opened \in Int
    /\ oops \in BOOLEAN /\ aborted \in BOOLEAN /\ early \in BOOLEAN

\* It holds at the start.
LEMMA InitOtherTypes == Init => OtherTypes
  <1> SUFFICES ASSUME Init PROVE OtherTypes
    BY Zenon
  <1>1. /\ held \subseteq Resources /\ left \subseteq Resources
        /\ failed \subseteq Resources /\ device_opened \in Int
    BY DEF Init
  <1>2. oops \in BOOLEAN /\ aborted \in BOOLEAN /\ early \in BOOLEAN
    BY Zenon DEF Init
  <1> QED BY Zenon, <1>1, <1>2 DEF OtherTypes

\* Every step keeps it: what is got or given back are resources.
LEMMA NextKeepsOtherTypes == LifeInv /\ OtherTypes /\ Next => OtherTypes'
  <1> SUFFICES ASSUME LifeInv, OtherTypes, Next PROVE OtherTypes'
    BY Zenon
  <1>0. ~oops
    BY Zenon DEF Next
  <1> USE DEF OtherTypes, module, counts
  <1>1. CASE Insmod
    BY Zenon, <1>1 DEF Insmod
  <1>2. CASE Obtain
    <2>1. Load[at].get \in Resources
      BY Zenon, <1>0, <1>2, NextStep DEF Obtain, CountShapeAt
    <2> QED BY <1>2, <2>1 DEF Obtain
  <1>3. CASE Miss
    <2>1. at \in 1 .. Len(Load) /\ Len(Load) \in Nat /\ LoadShapeAt(at) /\ CountShapeAt(at)
      BY Zenon, <1>0, <1>3, NextStep, LoadShape DEF Miss, LifeInv, Types
    <2>2. at .. Load[at].then - 1 \subseteq 1 .. Len(Load)
      BY <2>1 DEF LoadShapeAt, CountShapeAt
    <2>3. \A i \in 1 .. Len(Load) : Load[i].get \in Resources
      BY Zenon, CountShape DEF LifeInv, Types, CountShapeAt
    <2>4. {Load[i].get : i \in at .. Load[at].then - 1} \subseteq Resources
      BY Zenon, <2>2, <2>3
    <2>5. Load[at].undo \subseteq Resources
      BY Zenon, <2>1 DEF CountShapeAt
    <2>6. failed' \subseteq Resources /\ held' \subseteq Resources
      BY Zenon, <1>3, <2>4, <2>5 DEF Miss
    <2>7. oops' \in BOOLEAN /\ aborted' \in BOOLEAN /\ UNCHANGED <<left, device_opened, early>>
      BY Zenon, <1>3 DEF Miss
    <2> QED BY Zenon, <2>6, <2>7
  <1>4. CASE Loaded \/ Rmmod \/ Unloaded
    BY Zenon, <1>4 DEF Loaded, Rmmod, Unloaded
  <1>5. CASE Release
    BY Zenon, <1>5 DEF Release
  <1>6. ASSUME NEW c \in Client, Enter(c) PROVE OtherTypes'
    <2>1. /\ UNCHANGED <<held, left, failed, aborted>>
          /\ device_opened' \in {device_opened, device_opened + 1}
      BY Zenon, <1>6 DEF Enter
    <2>2. oops' \in BOOLEAN /\ early' \in BOOLEAN
      BY <1>6, Zenon DEF Enter
    <2> QED BY <2>1, <2>2
  <1>7. ASSUME NEW c \in Client, Leave(c) PROVE OtherTypes'
    BY <1>7 DEF Leave
  <1>8. ASSUME NEW c \in Client,
               TryModuleGet(c) \/ OpenFails(c) \/ ModulePut(c) \/ Return(c) \/ Crash(c)
        PROVE  OtherTypes'
    <2>1. UNCHANGED <<held, left, failed, device_opened, aborted, early>>
      BY Zenon, <1>8 DEF TryModuleGet, OpenFails, ModulePut, Return, Crash
    <2>2. oops' = oops \/ oops' = TRUE
      BY Zenon, <1>8 DEF TryModuleGet, OpenFails, ModulePut, Return, Crash
    <2> QED BY Zenon, <2>1, <2>2
  <1> QED BY Zenon, <1>1, <1>2, <1>3, <1>4, <1>5, <1>6, <1>7, <1>8 DEF Next, Loading, Unloading

\* The type invariant.
THEOREM LifeTyped == Spec => []TypeOK
  <1>1. LifeInv /\ OtherTypes /\ [Next]_vars => OtherTypes'
    <2>1. OtherTypes /\ UNCHANGED vars => OtherTypes'
      BY Zenon DEF OtherTypes, vars
    <2> QED BY Zenon, <2>1, NextKeepsOtherTypes
  <1>2. LifeInv /\ OtherTypes => TypeOK
    BY Zenon DEF LifeInv, Types, OtherTypes, TypeOK
  <1> QED BY <1>1, <1>2, InitOtherTypes, LifeInvariance, PTL DEF Spec

\* The programs that the counter stands for.
Inside == {c \in Client : client[c] \in {"entered", "open"}}

\* With no open before the reset nobody is inside at it, it is only ever skipped
\* without a character device, and from then on the count follows.
CountInv ==
    /\ mod = "coming" /\ ~oops /\ ~early /\ at <= CounterAt =>
           \A c \in Client : client[c] = "closed"
    /\ mod = "coming" /\ ~oops /\ ~early /\ lost = 0 /\ at > CounterAt
         /\ "chrdev" \notin failed =>
           device_opened = Cardinality(Inside)
    /\ CounterIsExact

\* One program more or less inside changes the count by one.
LEMMA InsideCounted ==
    /\ Cardinality(Inside) \in Nat
    /\ \A c \in Client \ Inside : Cardinality(Inside \cup {c}) = Cardinality(Inside) + 1
    /\ \A c \in Inside : Cardinality(Inside \ {c}) = Cardinality(Inside) - 1
  <1>1. IsFiniteSet(Inside)
    BY Zenon, FS_Subset, DeviceLifeAssumption DEF Inside
  <1> QED BY Zenon, <1>1, FS_CardinalityType, FS_AddElement, FS_RemoveElement

\* Every step keeps the counter right.
LEMMA NextKeepsCount == LifeInv /\ OtherTypes /\ CountInv /\ Next => CountInv'
  <1> SUFFICES ASSUME LifeInv, OtherTypes, CountInv, Next PROVE CountInv'
    BY Zenon
  <1>0. ~oops /\ Len(Load) \in Nat /\ CounterAt \in 1 .. Len(Load)
    BY Zenon, LoadShape, CountShape DEF Next, LifeInv, Types
  <1>1. driver' = driver /\ CounterAt' = CounterAt
    <2>1. driver' = driver
      BY Zenon DEF Next, Insmod, Loading, Obtain, Miss, Loaded, Rmmod,
         Unloading, Release, Unloaded, Enter, TryModuleGet, OpenFails, Leave, ModulePut,
         Return, Crash, module, counts
    <2> QED BY Zenon, <2>1 DEF CounterAt
  <1>2. CounterIsExact <=>
        (mod = "live" /\ ~early /\ lost = 0 /\ "chrdev" \notin failed =>
            device_opened = Cardinality(Inside))
    BY Zenon DEF CounterIsExact, Inside
  <1>3. CounterIsExact' <=>
        (mod' = "live" /\ ~early' /\ lost' = 0 /\ "chrdev" \notin failed' =>
            device_opened' = Cardinality(Inside'))
    BY Zenon DEF CounterIsExact, Inside
  <1> USE <1>0 DEF CountInv
  <1>4. CASE Insmod
    BY <1>1, <1>3, <1>4 DEF Insmod
  <1>5. CASE Obtain
    <2>1. at \in 1 .. Len(Load) /\ CountShapeAt(at)
      BY Zenon, <1>5, NextStep DEF Obtain
    <2>2. /\ Load[CounterAt].get = "counter"
          /\ Load[at].get = "counter" => at = CounterAt
      BY Zenon, <2>1, CountShape DEF LifeInv, Types, CountShapeAt
    <2>3. /\ mod = "coming" /\ mod' = "coming" /\ at' = at + 1
          /\ UNCHANGED <<client, early, failed, lost, oops>>
          /\ device_opened' = IF Load[at].get = "counter" THEN 0 ELSE device_opened
      BY Zenon, <1>5 DEF Obtain
    <2>4. Inside' = Inside
      BY Zenon, <2>3 DEF Inside
    <2>5. CASE at < CounterAt
      <3>1. at <= CounterAt /\ ~(at' > CounterAt)
        BY <2>1, <2>3, <2>5
      <3> QED BY Zenon, <1>1, <1>3, <2>3, <3>1
    <2>6. CASE at = CounterAt
      <3>1. at <= CounterAt /\ ~(at' <= CounterAt)
        BY <2>1, <2>3, <2>6
      <3>2. ~early => Inside = {}
        BY Zenon, <2>3, <3>1 DEF Inside
      <3> QED BY Zenon, <1>1, <1>3, <2>2, <2>3, <2>4, <2>6, <3>1, <3>2, FS_EmptySet
    <2>7. CASE at > CounterAt
      <3>1. at # CounterAt /\ ~(at' <= CounterAt)
        BY <2>1, <2>3, <2>7
      <3> QED BY Zenon, <1>1, <1>3, <2>2, <2>3, <2>4, <2>7, <3>1
    <2>8. at < CounterAt \/ at = CounterAt \/ at > CounterAt
      BY <2>1
    <2> QED BY Zenon, <2>5, <2>6, <2>7, <2>8
  <1>6. CASE Miss
    <2>1. at \in 1 .. Len(Load) /\ LoadShapeAt(at) /\ CountShapeAt(at)
      BY Zenon, <1>6, NextStep DEF Miss
    <2>2. Load[at].get # "counter"
      BY Zenon, <1>6, DeviceLifeAssumption DEF Miss
    <2>3. /\ mod = "coming" /\ mod' \in {"coming", "absent"}
          /\ mod' = "coming" => at' = Load[at].then /\ Load[at].then # 0
          /\ Load[at].then = -1 => oops'
          /\ UNCHANGED <<client, early, device_opened, lost>> /\ Inside' = Inside
          /\ failed' = failed \cup {Load[i].get : i \in at .. Load[at].then - 1}
                              \cup Load[at].undo
      BY Zenon, <1>6 DEF Miss, Inside
    <2>4. Load[at].then > at => Load[at].get \in failed'
      <3> SUFFICES ASSUME Load[at].then > at
                   PROVE  at \in at .. Load[at].then - 1
        BY Zenon, <2>3
      <3> QED BY <2>1 DEF LoadShapeAt
    <2>5. CASE at <= CounterAt /\ Load[at].then > CounterAt
      <3>1. "chrdev" \in failed'
        BY <2>1, <2>2, <2>3, <2>4, <2>5 DEF CountShapeAt, LoadShapeAt
      <3> QED BY Zenon, <1>1, <1>3, <2>3, <2>5, <3>1
    <2>6. CASE ~(at <= CounterAt /\ Load[at].then > CounterAt)
      <3>1. mod' = "coming" /\ ~oops' =>
            /\ at' > CounterAt => at > CounterAt
            /\ at' <= CounterAt => at <= CounterAt
        BY <2>1, <2>3, <2>6 DEF LoadShapeAt
      <3>2. "chrdev" \notin failed' => "chrdev" \notin failed
        BY Zenon, <2>3
      <3> QED BY Zenon, <1>1, <1>3, <2>3, <3>1, <3>2
    <2> QED BY Zenon, <2>5, <2>6
  <1>7. CASE Loaded
    <2>1. /\ mod = "coming" /\ at > Len(Load) /\ mod' = "live"
          /\ UNCHANGED <<client, early, device_opened, failed, lost>>
      BY Zenon, <1>7 DEF Loaded, counts
    <2>2. at > CounterAt
      BY <2>1 DEF LifeInv, Types
    <2>3. Inside' = Inside
      BY Zenon, <2>1 DEF Inside
    <2> QED BY Zenon, <1>3, <2>1, <2>2, <2>3
  <1>8. CASE Rmmod \/ Release \/ Unloaded
    BY Zenon, <1>3, <1>8 DEF Rmmod, Release, Unloaded
  <1>9. ASSUME NEW c \in Client, Enter(c) PROVE CountInv'
    <2>1. CASE Present /\ "device" \notin left
      <3>1. /\ c \notin Inside /\ Inside' = Inside \cup {c}
            /\ device_opened' = device_opened + 1
            /\ UNCHANGED <<mod, at, lost, failed, oops>>
            /\ ~early' => ~early /\ ~Unset
        BY Zenon, <1>9, <2>1 DEF Enter, Inside, module, LifeInv, Types
      <3>2. mod = "coming" /\ at <= CounterAt => Unset
        <4> SUFFICES ASSUME mod = "coming", at <= CounterAt PROVE Unset
          BY Zenon
        <4>1. CounterAt \in at .. Len(Load)
          BY DEF LifeInv, Types
        <4>2. Load[CounterAt].get = "counter"
          BY Zenon, CountShape DEF LifeInv, Types
        <4> QED BY Zenon, <4>1, <4>2 DEF Unset
      <3> QED BY Zenon, <1>1, <1>2, <1>3, <3>1, <3>2, InsideCounted DEF OtherTypes
    <2>2. CASE ~(Present /\ "device" \notin left)
      <3>1. oops' /\ Inside' = Inside /\ UNCHANGED <<mod, lost, failed, early, device_opened>>
        BY Zenon, <1>9, <2>2 DEF Enter, Inside, module
      <3> QED BY Zenon, <1>2, <1>3, <3>1
    <2> QED BY Zenon, <2>1, <2>2
  <1>10. ASSUME NEW c \in Client,
                TryModuleGet(c) \/ ModulePut(c) \/ Return(c) \/ Crash(c)
         PROVE  CountInv'
    <2>1. /\ client[c] # "closed" /\ Inside' = Inside
          /\ oops' = oops \/ oops' = TRUE
          /\ UNCHANGED <<mod, at, failed, early, lost, device_opened>>
      BY Zenon, <1>10 DEF TryModuleGet, ModulePut, Return, Crash, Inside, module, counts,
         LifeInv, Types
    <2> QED BY Zenon, <1>1, <1>2, <1>3, <2>1
  <1>11. ASSUME NEW c \in Client, OpenFails(c) PROVE CountInv'
    <2>1. /\ client[c] # "closed" /\ lost' # 0
          /\ UNCHANGED <<mod, at, failed, early, device_opened, oops>>
      BY <1>11 DEF OpenFails, module, LifeInv, Types
    <2> QED BY Zenon, <1>1, <1>3, <2>1
  <1>12. ASSUME NEW c \in Client, Leave(c) PROVE CountInv'
    <2>1. /\ client[c] # "closed" /\ c \in Inside /\ Inside' = Inside \ {c}
          /\ device_opened' = device_opened - 1
          /\ UNCHANGED <<mod, at, failed, early, lost, oops>>
      BY Zenon, <1>12 DEF Leave, Inside, module, LifeInv, Types
    <2> QED BY Zenon, <1>1, <1>2, <1>3, <2>1, InsideCounted DEF OtherTypes
  <1> QED BY Zenon, <1>4, <1>5, <1>6, <1>7, <1>8, <1>9, <1>10, <1>11, <1>12
          DEF Next, Loading, Unloading

\* The counter of open files of a loaded module is the number of programs whose
\* open has begun and whose release has not, unless an open began before the
\* counter was set, one failed, or there is no character device.
THEOREM OpensAreCounted == Spec => []CounterIsExact
  <1> DEFINE I == LifeInv /\ OtherTypes /\ CountInv
  <1>1. Init => OtherTypes /\ CountInv
    BY Zenon, InitOtherTypes DEF Init, CountInv, CounterIsExact
  <1>2. I /\ [Next]_vars => (OtherTypes /\ CountInv)'
    <2>1. OtherTypes /\ CountInv /\ UNCHANGED vars => (OtherTypes /\ CountInv)'
      BY DEF OtherTypes, CountInv, CounterIsExact, CounterAt, Inside, vars
    <2> QED BY Zenon, <2>1, NextKeepsOtherTypes, NextKeepsCount
  <1>3. I => CounterIsExact
    BY Zenon DEF CountInv
  <1> QED BY <1>1, <1>2, <1>3, LifeInvariance, PTL DEF Spec

-----------------------------------------------------------------------------
(* What is left registered.                                                *)

\* What the first i - 1 steps of loading may have got, and what the clean-up
\* from its i-th step on gives back; the attribute goes with its kobject.
Before(i) == {Load[j].get : j \in 1 .. i - 1} \ {"counter"}
Pending(i) == {Unload[j] : j \in i .. Len(Unload)}
ToGo(i) == Pending(i) \cup (IF "kobject" \in Pending(i) THEN {"attribute"} ELSE {})

\* What a load that is given up leaves.
Left ==
    CASE driver \in {"part1", "part2", "part3"} -> {"kobject", "attribute"}
      [] driver = "btplus" -> {"chrdev", "class", "device"}
      [] OTHER -> {}

\* While loading, what is held was got by the steps before or left by a load
\* that was given up; the clean-up has yet to give back what is held of this one.
HeldInv ==
    ~oops =>
        /\ left \subseteq Leavable
        /\ mod = "absent" => held \subseteq Leavable
        /\ mod = "coming" =>
               at <= Len(Load) + 1 /\ held \subseteq Leavable \cup Before(at)
        /\ mod = "live" => held \subseteq Leavable \cup ToGo(1)
        /\ mod = "going" => held \subseteq Leavable \cup ToGo(at)

\* A step that gives the load up gives back all but what is left.
HeldShapeAt(i) ==
    Load[i].then = 0 /\ Load[i].get # "counter" =>
        \A j \in 1 .. i - 1 :
            Load[j].get \in Left \cup Load[i].undo \cup {"counter"}

\* ... in all drivers.
LEMMA HeldShape ==
    Known => \A i \in 1 .. Len(Load) : HeldShapeAt(i)
  <1> USE DEF Get, HeldShapeAt, Left
  <1>1. CASE driver \in {"part1", "part2", "part3"}
    <2>1. StepsParts
      BY Zenon, <1>1, LoadSteps
    <2> QED BY <1>1, <2>1 DEF StepsParts
  <1>2. CASE driver = "btplus"
    <2>1. StepsBtplus
      BY Zenon, <1>2, LoadSteps
    <2> QED BY <1>2, <2>1 DEF StepsBtplus
  <1>3. CASE driver = "ptextract"
    <2>1. StepsPtextract
      BY Zenon, <1>3, LoadSteps
    <2> QED BY <1>3, <2>1 DEF StepsPtextract
  <1>4. CASE driver = "simplecdev"
    <2>1. StepsSimplecdev
      BY Zenon, <1>4, LoadSteps
    <2> QED BY <1>4, <2>1 DEF StepsSimplecdev
  <1>5. CASE driver = "cryptocard"
    <2>1. StepsCryptocard
      BY Zenon, <1>5, LoadSteps
    <2> QED BY <1>5, <2>1 DEF StepsCryptocard
  <1> QED BY Zenon, <1>1, <1>2, <1>3, <1>4, <1>5 DEF Known

\* The clean-ups, spelt out,
UndoParts ==
    Len(Unload) = 6 /\ Unload[1] = "attribute" /\ Unload[2] = "kobject" /\ Unload[3] = "d_buf"
    /\ Unload[4] = "device" /\ Unload[5] = "class" /\ Unload[6] = "chrdev"
UndoBtplus ==
    Len(Unload) = 4 /\ Unload[1] = "device" /\ Unload[2] = "class" /\ Unload[3] = "chrdev"
    /\ Unload[4] = "kobject"
UndoPtextract ==
    Len(Unload) = 3 /\ Unload[1] = "device" /\ Unload[2] = "class" /\ Unload[3] = "chrdev"
UndoSimplecdev ==
    Len(Unload) = 4 /\ Unload[1] = "d_buf" /\ Unload[2] = "device" /\ Unload[3] = "class"
    /\ Unload[4] = "chrdev"
UndoCryptocard ==
    Len(Unload) = 8 /\ Unload[1] = "device" /\ Unload[2] = "class" /\ Unload[3] = "chrdev"
    /\ Unload[4] = "ccbar0" /\ Unload[5] = "mmregion" /\ Unload[6] = "irq"
    /\ Unload[7] = "vectors" /\ Unload[8] = "region"

\* ... which give back everything that loading gets.
LEMMA CleanupIsComplete ==
    Known => /\ Len(Unload) \in Nat
             /\ \A j \in 1 .. Len(Load) : Load[j].get \in ToGo(1) \cup {"counter"}
  <1> USE DEF Get
  <1>1. CASE driver \in {"part1", "part2", "part3"}
    <2>1. StepsParts
      BY Zenon, <1>1, LoadSteps
    <2>2. UndoParts
      BY <1>1 DEF UndoParts, Unload, cs614_driver_exit_1, cs614_driver_exit_2,
         cs614_driver_exit_3, cs614_sysfs_exit, chardev_exit
    <2>3. {"attribute", "kobject", "d_buf", "device", "class", "chrdev"} \subseteq ToGo(1)
      BY <2>2 DEF UndoParts, ToGo, Pending
    <2> QED BY <1>1, <2>1, <2>2, <2>3 DEF StepsParts, UndoParts
  <1>2. CASE driver = "btplus"
    <2>1. StepsBtplus
      BY Zenon, <1>2, LoadSteps
    <2>2. UndoBtplus
      BY <1>2 DEF UndoBtplus, Unload, btplus_cleanup, chardev_exit
    <2>3. {"attribute", "kobject", "device", "class", "chrdev"} \subseteq ToGo(1)
      BY <2>2 DEF UndoBtplus, ToGo, Pending
    <2> QED BY <1>2, <2>1, <2>2, <2>3 DEF StepsBtplus, UndoBtplus
  <1>3. CASE driver = "ptextract"
    <2>1. StepsPtextract
      BY Zenon, <1>3, LoadSteps
    <2>2. UndoPtextract
      BY Zenon, <1>3 DEF UndoPtextract, Unload, ptextract_cleanup, chardev_exit
    <2>3. {"device", "class", "chrdev"} \subseteq ToGo(1)
      BY <2>2 DEF UndoPtextract, ToGo, Pending
    <2> QED BY <1>3, <2>1, <2>2, <2>3 DEF StepsPtextract, UndoPtextract
  <1>4. CASE driver = "simplecdev"
    <2>1. StepsSimplecdev
      BY Zenon, <1>4, LoadSteps
    <2>2. UndoSimplecdev
      BY <1>4 DEF UndoSimplecdev, Unload, simplecdev_cleanup, chardev_exit
    <2>3. {"d_buf", "device", "class", "chrdev"} \subseteq ToGo(1)
      BY <2>2 DEF UndoSimplecdev, ToGo, Pending
    <2> QED BY <1>4, <2>1, <2>2, <2>3 DEF StepsSimplecdev, UndoSimplecdev
  <1>5. CASE driver = "cryptocard"
    <2>1. StepsCryptocard
      BY Zenon, <1>5, LoadSteps
    <2>2. UndoCryptocard
      BY <1>5 DEF UndoCryptocard, Unload, cryptocard_remove, chardev_exit
    <2>3. {"device", "class", "chrdev", "ccbar0", "mmregion", "irq", "vectors", "region"}
              \subseteq ToGo(1)
      BY <2>2 DEF UndoCryptocard, ToGo, Pending
    <2> QED BY <1>5, <2>1, <2>2, <2>3 DEF StepsCryptocard, UndoCryptocard
  <1> QED BY Zenon, <1>1, <1>2, <1>3, <1>4, <1>5 DEF Known

\* Every step keeps what is held within what is to be given back.
LEMMA NextKeepsHeld == LifeInv /\ OtherTypes /\ HeldInv /\ Next => HeldInv'
  <1> SUFFICES ASSUME LifeInv, OtherTypes, HeldInv, Next PROVE HeldInv'
    BY Zenon
  <1>0. ~oops /\ Known /\ Len(Load) \in Nat /\ Len(Unload) \in Nat /\ at \in Int
    BY Zenon, LoadShape, CleanupIsComplete DEF Next, LifeInv, Types
  <1>1. driver' = driver
    BY Zenon DEF Next, Insmod, Loading, Obtain, Miss, Loaded, Rmmod,
       Unloading, Release, Unloaded, Enter, TryModuleGet, OpenFails, Leave, ModulePut,
       Return, Crash, module, counts
  <1>2. Load' = Load /\ Unload' = Unload
    BY Zenon, <1>1 DEF Load, Unload
  <1>3. /\ Before(at)' = {Load[j].get : j \in 1 .. at' - 1} \ {"counter"}
        /\ ToGo(1)' = ToGo(1) /\ ToGo(at)' = ToGo(at')
        /\ Before(at) = {Load[j].get : j \in 1 .. at - 1} \ {"counter"}
    BY Zenon, <1>2 DEF Before, ToGo, Pending
  <1>4. /\ Leavable \subseteq Left
        /\ aborted' = aborted => Leavable' = Leavable
        /\ aborted' => Leavable' = Left
    BY <1>1, <1>0 DEF Leavable, Left, Known
  <1>5. HeldInv' <=>
        (~oops' =>
            /\ left' \subseteq Leavable'
            /\ mod' = "absent" => held' \subseteq Leavable'
            /\ mod' = "coming" =>
                   at' <= Len(Load) + 1 /\ held' \subseteq Leavable' \cup Before(at)'
            /\ mod' = "live" => held' \subseteq Leavable' \cup ToGo(1)'
            /\ mod' = "going" => held' \subseteq Leavable' \cup ToGo(at)')
    BY Zenon, <1>2 DEF HeldInv
  <1>6. CASE Insmod
    <2>1. /\ mod = "absent" /\ mod' = "coming" /\ at' = 1 /\ held' = held
          /\ aborted' = aborted /\ left' = held
      BY Zenon, <1>6 DEF Insmod
    <2> QED BY <1>0, <1>4, <1>5, <2>1 DEF HeldInv
  <1>7. CASE Obtain
    <2>1. /\ mod = "coming" /\ mod' = "coming" /\ at' = at + 1
          /\ UNCHANGED <<aborted, left>>
          /\ held' = (held \cup {Load[at].get}) \ {"counter"}
      BY Zenon, <1>7 DEF Obtain
    <2>2. at >= 1 /\ at <= Len(Load)
      BY Zenon, <1>0, <1>7, <2>1 DEF LifeInv, Types, Obtain
    <2>3. 1 .. at' - 1 = (1 .. at - 1) \cup {at}
      BY <1>0, <2>1, <2>2
    <2>4. Before(at) \cup ({Load[at].get} \ {"counter"}) \subseteq Before(at)'
      BY Zenon, <1>3, <2>3
    <2>5. left \subseteq Leavable /\ held \subseteq Leavable \cup Before(at)
      BY Zenon, <1>0, <2>1 DEF HeldInv
    <2> QED BY <1>0, <1>4, <1>5, <2>1, <2>2, <2>4, <2>5
  <1>8. CASE Miss
    <2>1. at \in 1 .. Len(Load) /\ LoadShapeAt(at) /\ CountShapeAt(at)
      BY Zenon, <1>0, <1>8, NextStep DEF Miss
    <2>2. /\ Load[at].get # "counter" /\ mod = "coming" /\ left' = left
          /\ held' = held \ (Load[at].undo \ left)
      BY Zenon, <1>8, DeviceLifeAssumption DEF Miss
    <2>3. left \subseteq Leavable /\ held \subseteq Leavable \cup Before(at)
      BY Zenon, <1>0, <2>2 DEF HeldInv
    <2>4. CASE Load[at].then = 0
      <3>1. mod' = "absent" /\ aborted'
        BY Zenon, <1>8, <2>4 DEF Miss
      <3>2. HeldShapeAt(at)
        BY Zenon, <1>0, <2>1, HeldShape
      <3>3. Before(at) \subseteq Left \cup Load[at].undo
        BY <1>3, <2>2, <2>4, <3>2 DEF HeldShapeAt
      <3> QED BY Zenon, <1>4, <1>5, <2>2, <2>3, <3>1, <3>3
    <2>5. CASE Load[at].then = -1
      <3>1. oops'
        BY Zenon, <1>8, <2>5 DEF Miss
      <3> QED BY Zenon, <1>5, <3>1
    <2>6. CASE Load[at].then \notin {0, -1}
      <3>1. mod' = "coming" /\ at' = Load[at].then
        BY Zenon, <1>8, <2>6 DEF Miss
      <3>2. at' \in Int /\ at' > at /\ at' <= Len(Load) + 1
        BY Zenon, <2>1, <2>6, <3>1 DEF LoadShapeAt, CountShapeAt
      <3>3. \A i, k \in Int : k > i => 1 .. i - 1 \subseteq 1 .. k - 1
        OBVIOUS
      <3>4. Before(at) \subseteq Before(at)'
        BY Zenon, <1>0, <1>3, <3>2, <3>3
      <3>5. Load[at].then # 0
        BY Zenon, <2>6
      <3>6. aborted' = aborted
        <4>1. aborted \in BOOLEAN /\ aborted' = (aborted \/ Load[at].then = 0)
          BY Zenon, <1>8 DEF Miss, OtherTypes
        <4> QED BY Zenon, <3>5, <4>1
      <3> QED BY Zenon, <1>4, <1>5, <2>2, <2>3, <3>1, <3>2, <3>4, <3>6
    <2> QED BY Zenon, <2>4, <2>5, <2>6
  <1>9. CASE Loaded
    <2>1. /\ mod = "coming" /\ at > Len(Load) /\ mod' = "live" /\ held' = held
          /\ UNCHANGED <<aborted, left>>
      BY Zenon, <1>9 DEF Loaded
    <2>2. /\ at = Len(Load) + 1 /\ left \subseteq Leavable
          /\ held \subseteq Leavable \cup Before(at)
      BY <1>0, <2>1 DEF HeldInv
    <2>3. Before(at) \subseteq ToGo(1)
      BY <1>0, <1>3, <2>2, CleanupIsComplete
    <2> QED BY Zenon, <1>3, <1>4, <1>5, <2>1, <2>2, <2>3
  <1>10. CASE Rmmod
    <2>1. /\ mod = "live" /\ mod' = "going" /\ at' = 1 /\ held' = held
          /\ UNCHANGED <<aborted, left>>
      BY Zenon, <1>10 DEF Rmmod
    <2> QED BY Zenon, <1>0, <1>3, <1>4, <1>5, <2>1 DEF HeldInv
  <1>11. CASE Release
    <2> DEFINE r == Unload[at]
    <2>1. /\ mod = "going" /\ mod' = "going" /\ at' = at + 1
          /\ UNCHANGED <<aborted, left>>
          /\ held' = held \ ((IF r = "kobject" THEN {r, "attribute"} ELSE {r}) \ left)
      BY Zenon, <1>11 DEF Release
    <2>2. at >= 1 /\ left \subseteq Leavable /\ held \subseteq Leavable \cup ToGo(at)
      BY Zenon, <1>0, <2>1 DEF HeldInv, LifeInv, Types
    <2>3. \A x \in Pending(at) : x = r \/ x \in Pending(at + 1)
      BY <1>0, <2>2 DEF Pending
    <2>4. held' \subseteq Leavable \cup ToGo(at + 1)
      BY Zenon, <2>1, <2>2, <2>3 DEF ToGo
    <2> QED BY Zenon, <1>3, <1>4, <1>5, <2>1, <2>2, <2>4
  <1>12. CASE Unloaded
    <2>1. /\ mod = "going" /\ at > Len(Unload) /\ mod' = "absent" /\ held' = held
          /\ UNCHANGED <<aborted, left>>
      BY Zenon, <1>12 DEF Unloaded
    <2>2. Pending(at) = {}
      BY <1>0, <2>1 DEF Pending
    <2>3. left \subseteq Leavable /\ held \subseteq Leavable
      BY Zenon, <1>0, <2>1, <2>2 DEF HeldInv, ToGo
    <2> QED BY Zenon, <1>4, <1>5, <2>1, <2>3
  <1>13. ASSUME NEW c \in Client,
                \/ Enter(c) \/ TryModuleGet(c) \/ OpenFails(c) \/ Leave(c) \/ ModulePut(c)
                \/ Return(c) \/ Crash(c)
         PROVE  HeldInv'
    <2>1. UNCHANGED <<mod, at, held, left, aborted>>
      BY Zenon, <1>13 DEF Enter, TryModuleGet, OpenFails, Leave, ModulePut, Return, Crash,
         module, counts
    <2> QED BY Zenon, <1>0, <1>3, <1>4, <1>5, <2>1 DEF HeldInv
  <1> QED BY Zenon, <1>6, <1>7, <1>8, <1>9, <1>10, <1>11, <1>12, <1>13 DEF Next, Loading, Unloading

\* A module that is not there has left nothing registered, but for what a load
\* that was given up leaves: of the drivers of Assignment_1 the sysfs files, of
\* btplus the device and what it hangs on.
THEOREM LittleIsLeft == Spec => []AbsentLeaves
  <1> DEFINE I == LifeInv /\ OtherTypes /\ HeldInv
  <1>1. Init => OtherTypes /\ HeldInv
    BY Zenon, InitOtherTypes DEF Init, HeldInv
  <1>2. I /\ [Next]_vars => (OtherTypes /\ HeldInv)'
    <2>1. OtherTypes /\ HeldInv /\ UNCHANGED vars => (OtherTypes /\ HeldInv)'
      <3> SUFFICES ASSUME OtherTypes, HeldInv, UNCHANGED vars
                   PROVE  (OtherTypes /\ HeldInv)'
        BY Zenon
      <3>1. Load' = Load /\ Unload' = Unload /\ Leavable' = Leavable
        BY Zenon DEF Load, Unload, Leavable, vars
      <3>2. Before(at)' = Before(at) /\ ToGo(1)' = ToGo(1) /\ ToGo(at)' = ToGo(at)
        BY Zenon, <3>1 DEF Before, ToGo, Pending, vars
      <3> QED BY Zenon, <3>1, <3>2 DEF OtherTypes, HeldInv, vars
    <2> QED BY Zenon, <2>1, NextKeepsOtherTypes, NextKeepsHeld
  <1>3. I => AbsentLeaves
    BY Zenon DEF HeldInv, AbsentLeaves
  <1> QED BY <1>1, <1>2, <1>3, LifeInvariance, PTL DEF Spec
=============================================================================
