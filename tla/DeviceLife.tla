----------------------------- MODULE DeviceLife -----------------------------
(***************************************************************************)
(* Loading and unloading of the drivers while programs open and close      *)
(* their device files.                                                     *)
(*                                                                         *)
(* A driver is given by the steps of its initialisation, what each does    *)
(* when it fails, and the steps of its clean-up.  The kernel's part is     *)
(* external: rmmod stops a module only when its reference count is 0,      *)
(* try_module_get fails from then on, a module whose initialisation fails  *)
(* is freed whatever its count.  No driver sets fops.owner, so the only    *)
(* references are those that the drivers' own open takes, one step after   *)
(* its code has begun to run.                                              *)
(***************************************************************************)
EXTENDS Integers, Sequences, FiniteSets

CONSTANTS
    Drivers,     \* the drivers that may be loaded
    Client,      \* programs that open the device
    Failing,     \* resources whose acquisition may fail
    MaxLoads,    \* bound: times the module is loaded
    MaxLost      \* bound: opens that fail while the module stays loaded

Resources == {"kobject", "attribute", "chrdev", "class", "device", "d_buf", "counter",
              "region", "mmregion", "ccbar0", "vectors", "irq"}

ASSUME DeviceLifeAssumption ==
    /\ Drivers \subseteq {"part1", "part2", "part3", "btplus", "ptextract", "simplecdev",
                         "cryptocard"}
    /\ IsFiniteSet(Client)
    /\ Failing \subseteq Resources \ {"counter"}
    /\ MaxLoads \in Nat /\ MaxLost \in Nat

VARIABLES
    driver,      \* the driver of this machine
    mod,         \* "absent", "coming", "live" or "going"
    at,          \* the next step of loading or unloading
    held,        \* resources
    left,        \* those an earlier load had left behind at the last insmod
    refs,        \* module references
    device_opened,
    client,      \* where each program is in open and release
    got,         \* programs that hold a module reference
    oops,        \* something has crashed
    loads,
    failed,      \* history: resources not obtained since the last insmod
    aborted,     \* history: a load has been given up
    early,       \* history: an open began before the counter was set
    lost         \* history: opens that failed with the reference taken

vars == <<driver, mod, at, held, left, refs, device_opened, client, got, oops, loads,
          failed, aborted, early, lost>>
-----------------------------------------------------------------------------
(* Initialisation.  A step gets a resource; if it fails, those in undo are *)
(* given back and control goes on at step then, where 0 is to return the   *)
(* error.  "counter" is atomic_set(&device_opened, 0).                     *)
Get(r, undo, then) == [get |-> r, undo |-> undo, then |-> then]

\* Mutation of chardev_setup: the error labels give nothing back.
chardev_setup_leaks(then) ==
    <<Get("chrdev", {}, then), Get("class", {}, then), Get("device", {}, then)>>

\* register_chrdev, class_create and device_create with their error labels.
chardev_setup(then) ==
    <<Get("chrdev", {}, then), Get("class", {"chrdev"}, then),
      Get("device", {"class", "chrdev"}, then)>>

\* cs614_sysfs_init gives the kobject back itself; its result is ignored.
cs614_sysfs_init ==
    <<Get("kobject", {}, 3), Get("attribute", {"kobject"}, 3)>>
cs614_driver_init_1 ==
    cs614_sysfs_init \o chardev_setup(0) \o <<Get("d_buf", {}, 7), Get("counter", {}, 0)>>
cs614_driver_init_2 == cs614_driver_init_1
cs614_driver_init_3 == cs614_driver_init_1

\* No kobject: return at once.  No attribute: the device is not destroyed.
btplus_init ==
    chardev_setup(0)
    \o <<Get("counter", {}, 0), Get("kobject", {}, 0),
         Get("attribute", {"kobject", "class", "chrdev"}, 0)>>
ptextract_init == chardev_setup(0) \o <<Get("counter", {}, 0)>>
simplecdev_init == chardev_setup(0) \o <<Get("d_buf", {}, 5), Get("counter", {}, 0)>>

\* The probe checks no result, that of cryptocard_chardev_setup included, nor
\* that of ioremap, whose failure kills it at the first register access.
cryptocard_chardev_setup == chardev_setup(8) \o <<Get("counter", {}, 8)>>
cryptocard_probe ==
    <<Get("region", {}, 2), Get("mmregion", {}, -1), Get("ccbar0", {}, -1)>>
    \o cryptocard_chardev_setup
    \o <<Get("vectors", {}, 9), Get("irq", {}, 10)>>

Load ==
    CASE driver = "part1" -> cs614_driver_init_1
      [] driver = "part2" -> cs614_driver_init_2
      [] driver = "part3" -> cs614_driver_init_3
      [] driver = "btplus" -> btplus_init
      [] driver = "ptextract" -> ptextract_init
      [] driver = "simplecdev" -> simplecdev_init
      [] driver = "cryptocard" -> cryptocard_probe

\* Clean-up.
chardev_exit == <<"device", "class", "chrdev">>
cs614_sysfs_exit == <<"attribute", "kobject">>
cs614_driver_exit_1 == cs614_sysfs_exit \o <<"d_buf">> \o chardev_exit
cs614_driver_exit_2 == cs614_driver_exit_1
cs614_driver_exit_3 == cs614_driver_exit_1
\* The attribute goes with its kobject.
btplus_cleanup == chardev_exit \o <<"kobject">>
ptextract_cleanup == chardev_exit
simplecdev_cleanup == <<"d_buf">> \o chardev_exit
\* The registers go before the interrupt that uses them.
cryptocard_remove ==
    chardev_exit \o <<"ccbar0", "mmregion", "irq", "vectors", "region">>

Unload ==
    CASE driver = "part1" -> cs614_driver_exit_1
      [] driver = "part2" -> cs614_driver_exit_2
      [] driver = "part3" -> cs614_driver_exit_3
      [] driver = "btplus" -> btplus_cleanup
      [] driver = "ptextract" -> ptextract_cleanup
      [] driver = "simplecdev" -> simplecdev_cleanup
      [] driver = "cryptocard" -> cryptocard_remove

-----------------------------------------------------------------------------
module == <<driver, mod, at, held, left, loads, failed, aborted>>
counts == <<refs, device_opened, client, got, early, lost>>

Init ==
    /\ driver \in Drivers
    /\ mod = "absent" /\ at = 0 /\ held = {} /\ left = {} /\ refs = 0 /\ device_opened = 0
    /\ client = [c \in Client |-> "closed"]
    /\ got = {} /\ oops = FALSE /\ loads = 0
    /\ failed = {} /\ aborted = FALSE /\ early = FALSE /\ lost = 0

\* insmod, once no program is left over from an earlier time.
Insmod ==
    /\ mod = "absent" /\ loads < MaxLoads
    /\ \A c \in Client : client[c] = "closed"
    /\ loads' = loads + 1
    /\ mod' = "coming" /\ at' = 1
    /\ left' = held
    /\ refs' = 0 /\ lost' = 0 /\ failed' = {} /\ early' = FALSE
    /\ UNCHANGED <<driver, held, device_opened, client, got, oops, aborted>>

\* A kobject or class of that name that was left behind stands in the way.
Obtain ==
    LET s == Load[at] IN
    /\ mod = "coming" /\ at <= Len(Load)
    /\ ~(s.get \in {"kobject", "class"} /\ s.get \in held)
    /\ held' = (held \cup {s.get}) \ {"counter"}
    /\ device_opened' = IF s.get = "counter" THEN 0 ELSE device_opened
    /\ at' = at + 1
    /\ UNCHANGED <<driver, mod, left, refs, client, got, oops, loads, failed, aborted, early,
                   lost>>

Miss ==
    LET s == Load[at] IN
    /\ mod = "coming" /\ at <= Len(Load)
    /\ s.get \in Failing \/ (s.get \in {"kobject", "class"} /\ s.get \in held)
    /\ held' = held \ (s.undo \ left)
    /\ failed' = failed \cup {Load[i].get : i \in at .. s.then - 1} \cup s.undo
    /\ mod' = IF s.then = 0 THEN "absent" ELSE mod
    /\ at' = IF s.then = 0 THEN 0 ELSE s.then
    /\ oops' = (s.then = -1)
    /\ aborted' = (aborted \/ s.then = 0)
    /\ UNCHANGED <<driver, left, refs, device_opened, client, got, loads, early, lost>>

Loaded ==
    /\ mod = "coming" /\ at > Len(Load)
    /\ mod' = "live" /\ at' = 0
    /\ UNCHANGED <<driver, held, left, loads, failed, aborted, counts, oops>>

Rmmod ==
    /\ mod = "live" /\ refs = 0
    /\ mod' = "going" /\ at' = 1
    /\ UNCHANGED <<driver, held, left, loads, failed, aborted, counts, oops>>

\* kfree, unregister_chrdev, free_irq and pci_release_region do nothing but
\* complain where this load got nothing, and what an earlier load left stays.  A
\* class that was not made is NULL, which is skipped, or a bad pointer, which is
\* followed; so are the others.
Release ==
    LET r == Unload[at] IN
    /\ mod = "going" /\ at <= Len(Unload)
    /\ oops' \in IF r \in failed \ {"d_buf", "chrdev", "irq", "vectors", "region"}
                 THEN IF r \in {"device", "class"} THEN BOOLEAN ELSE {TRUE}
                 ELSE {FALSE}
    /\ held' = held \ ((IF r = "kobject" THEN {r, "attribute"} ELSE {r}) \ left)
    /\ at' = at + 1
    /\ UNCHANGED <<driver, mod, left, loads, failed, aborted, counts>>

Unloaded ==
    /\ mod = "going" /\ at > Len(Unload)
    /\ mod' = "absent" /\ at' = 0
    /\ UNCHANGED <<driver, held, left, loads, failed, aborted, counts, oops>>

-----------------------------------------------------------------------------
(* open and release.  Code of a module that is absent is not there to run, *)
(* and a device that was left behind leads to the code of that time.       *)
Present == mod # "absent"

\* The counter is still to be set.
Unset == mod = "coming" /\ \E i \in at .. Len(Load) : Load[i].get = "counter"

Enter(c) ==
    /\ client[c] = "closed" /\ {"chrdev", "device"} \subseteq held
    /\ IF Present /\ "device" \notin left
       THEN /\ client' = [client EXCEPT ![c] = "entered"]
            /\ device_opened' = device_opened + 1
            /\ early' = (early \/ Unset)
            /\ UNCHANGED oops
       ELSE oops' = TRUE /\ UNCHANGED <<client, device_opened, early>>
    /\ UNCHANGED <<module, refs, got, lost>>

\* Mutation of TryModuleGet: the reference is not taken.
TryModuleGetMissing(c) ==
    /\ client[c] = "entered" /\ Present
    /\ client' = [client EXCEPT ![c] = "open"]
    /\ got' = IF mod = "going" THEN got ELSE got \cup {c}
    /\ UNCHANGED <<module, refs, device_opened, early, lost, oops>>

\* The result of try_module_get is ignored.
TryModuleGet(c) ==
    /\ client[c] = "entered" /\ Present
    /\ client' = [client EXCEPT ![c] = "open"]
    /\ IF mod = "going"
       THEN UNCHANGED <<refs, got>>
       ELSE refs' = refs + 1 /\ got' = got \cup {c}
    /\ UNCHANGED <<module, device_opened, early, lost, oops>>

\* cryptocard_fopen without memory for its configuration.
OpenFails(c) ==
    /\ driver = "cryptocard" /\ lost < MaxLost
    /\ client[c] = "entered" /\ Present /\ mod # "going"
    /\ client' = [client EXCEPT ![c] = "closed"]
    /\ refs' = refs + 1 /\ lost' = lost + 1
    /\ UNCHANGED <<module, device_opened, got, early, oops>>

\* Mutation of Leave: the counter is not lowered.
LeaveUncounted(c) ==
    /\ client[c] = "open" /\ Present
    /\ client' = [client EXCEPT ![c] = "leaving"]
    /\ UNCHANGED <<module, refs, device_opened, got, early, lost, oops>>

Leave(c) ==
    /\ client[c] = "open" /\ Present
    /\ client' = [client EXCEPT ![c] = "leaving"]
    /\ device_opened' = device_opened - 1
    /\ UNCHANGED <<module, refs, got, early, lost, oops>>

\* Mutations of ModulePut: the reference is not given back; it is given back
\* whether or not there is one.
ModulePutForgotten(c) ==
    /\ client[c] = "leaving" /\ Present
    /\ client' = [client EXCEPT ![c] = "left"]
    /\ got' = got \ {c}
    /\ UNCHANGED <<module, refs, device_opened, early, lost, oops>>

ModulePutBelowZero(c) ==
    /\ client[c] = "leaving" /\ Present
    /\ client' = [client EXCEPT ![c] = "left"]
    /\ refs' = refs - 1
    /\ got' = got \ {c}
    /\ UNCHANGED <<module, device_opened, early, lost, oops>>

\* A count of 0 is not lowered further.
ModulePut(c) ==
    /\ client[c] = "leaving" /\ Present
    /\ client' = [client EXCEPT ![c] = "left"]
    /\ refs' = IF refs > 0 THEN refs - 1 ELSE 0
    /\ got' = got \ {c}
    /\ UNCHANGED <<module, device_opened, early, lost, oops>>

Return(c) ==
    /\ client[c] = "left" /\ Present
    /\ client' = [client EXCEPT ![c] = "closed"]
    /\ UNCHANGED <<module, refs, device_opened, got, early, lost, oops>>

Crash(c) ==
    /\ client[c] # "closed" /\ ~Present
    /\ oops' = TRUE
    /\ UNCHANGED <<module, counts>>

Loading == Obtain \/ Miss \/ Loaded
Unloading == Release \/ Unloaded

Next ==
    /\ ~oops
    /\ \/ Insmod
       \/ Loading
       \/ Rmmod
       \/ Unloading
       \/ \E c \in Client :
             \/ Enter(c)
             \/ TryModuleGet(c)
             \/ OpenFails(c)
             \/ Leave(c)
             \/ ModulePut(c)
             \/ Return(c)
             \/ Crash(c)

Spec == Init /\ [][Next]_vars

-----------------------------------------------------------------------------
\* Initialisation can still fail when the device can already be opened.
FailsLate == driver = "btplus"

TypeOK ==
    /\ mod \in {"absent", "coming", "live", "going"}
    /\ held \subseteq Resources /\ left \subseteq Resources /\ failed \subseteq Resources
    /\ refs \in Nat /\ device_opened \in Int /\ lost \in Nat
    /\ client \in [Client -> {"closed", "entered", "open", "leaving", "left"}]
    /\ got \subseteq Client
    /\ oops \in BOOLEAN /\ aborted \in BOOLEAN /\ early \in BOOLEAN

\* While the module is loaded its reference count is that of the open files
\* that took a reference, plus the opens that failed after taking one.
RefsCoverOpens ==
    mod \in {"coming", "live", "going"} => refs = Cardinality(got) + lost

\* A program that holds a reference has a module that is not being unloaded,
\* however open, release, insmod and rmmod interleave; except that a load may
\* be given up under it where that can happen after the device is published.
ReferenceKeepsModule ==
    got # {} => mod \in {"coming", "live"} \/ (FailsLate /\ aborted)

\* A module that was unloaded leaves nothing registered.  A load that is given
\* up leaves at most the sysfs files (the drivers of Assignment_1), or the
\* device and what it hangs on (btplus).
Leavable ==
    CASE ~aborted -> {}
      [] aborted /\ driver \in {"part1", "part2", "part3"} -> {"kobject", "attribute"}
      [] aborted /\ driver = "btplus" -> {"chrdev", "class", "device"}
      [] OTHER -> {}

AbsentLeaves == mod = "absent" /\ ~oops => held \subseteq Leavable

\* The counter of open files is right, unless a file was opened before the
\* counter was set or an open failed.
CounterIsExact ==
    mod = "live" /\ ~early /\ lost = 0 /\ "chrdev" \notin failed =>
        device_opened = Cardinality({c \in Client : client[c] \in {"entered", "open"}})
=============================================================================
