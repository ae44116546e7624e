----------------------------- MODULE ThreadInfo -----------------------------
(***************************************************************************)
(* The drivers of Assignment_1: a task stores a number in the sysfs file   *)
(* cs614_value and reads the answer to that question from the device.      *)
(* Part 1 keeps one global number and compares it afresh for every         *)
(* question; parts 2 and 3 keep a list of (pid, number) nodes under        *)
(* cs614_mutex; part 3 adds the questions 5 (threads), 6 (open files) and  *)
(* 7 (thread with the largest stack), which walk lists of the process      *)
(* without taking any lock.                                                *)
(*                                                                         *)
(* One step is one critical section of cs614_mutex, one comparison of the  *)
(* volatile number, or one iteration of a walk.  The kernel's side, thread *)
(* lists, file tables and stack sizes, changes under the readers.          *)
(***************************************************************************)
EXTENDS Integers, Sequences, FiniteSets

CONSTANTS
    Task,        \* thread ids, what the kernel calls current->pid
    Systems,     \* which driver is loaded and what uses it, see below
    BAD, NONE

EINVAL == -22
SIZE == 16       \* what every program of the repository passes to read

ASSUME ThreadInfoAssumption ==
    /\ BAD \notin Int /\ NONE \notin Int
    /\ \A s \in Systems :
        /\ s.part \in 1 .. 3
        /\ s.leader \in [Task -> Task]
        /\ s.first \subseteq {t \in Task : s.leader[t] = t}
        /\ s.readers \subseteq Task
        /\ s.inputs \ {BAD} \subseteq Int
        /\ s.lengths \subseteq 0 .. 3 \cup {SIZE}
        /\ s.slots \in Nat /\ s.slots >= 3   \* stdin, stdout and stderr
        /\ s.stores \in Nat /\ s.changes \in Nat

VARIABLES
    sys,       \* the system, an element of Systems
    value,     \* cs614_value
    nodes,     \* the list, its head at the end
    pc,        \* where each task is
    val,       \* cs614_value1 of a read, or the question compared next
    walk,      \* the locals of a walk, and its history
    reply,     \* what the last read returned: ret, question, answer
    next,      \* next_thread
    listed,    \* the tasks in their group's list
    mm,        \* the tasks whose mm is not yet NULL
    fd,        \* per leader, the slots that hold a file
    stack,     \* per leader, mm->stack_vm
    stores,    \* sysfs_store calls made
    changes,   \* changes made to processes
    mine       \* history: the number a task stored last, NONE if it was BAD

Part == sys.part           \* which driver: 1, 2 or 3
Leader == sys.leader       \* [Task -> Task], the thread group of each
First == sys.first         \* the processes that exist from the start
Readers == sys.readers     \* the tasks that call read
Inputs == sys.inputs       \* numbers written to sysfs, and BAD for what is no number
Lengths == sys.lengths     \* lengths given to read: SIZE, or too short for an int
Slots == sys.slots         \* fdt->max_fds
MaxStores == sys.stores    \* bound: calls of sysfs_store
MaxChanges == sys.changes  \* bound: changes of a process by its own threads

Questions == IF Part = 3 THEN 0 .. 7 ELSE 0 .. 4

driver == <<value, nodes>>
process == <<next, listed, mm, fd, stack>>
locals == <<pc, val, walk, reply>>
vars == <<sys, driver, locals, process, stores, changes, mine>>

Reply(r, q, x) == [ret |-> r, question |-> q, answer |-> x]

\* at is the entry a walk has come to, count also stands for max_stack; the
\* history: the entries listed throughout (steady) and at some time (ever) of
\* the walk, stack_vm at its start (top).  In part 1 ever holds what the number
\* has been since the read began.
Walk(x, n, m, s, e, k) ==
    [at |-> x, count |-> n, tid |-> m, steady |-> s, ever |-> e, top |-> k]
NoWalk == Walk(NONE, 0, NONE, {}, {}, 0)

Init ==
    /\ sys \in Systems
    /\ value = 0
    /\ nodes = << >>
    /\ pc = [t \in Task |-> IF t \in First THEN "user" ELSE "none"]
    /\ val = [t \in Task |-> 0]
    /\ walk = [t \in Task |-> NoWalk]
    /\ reply = [t \in Task |-> Reply(0, NONE, NONE)]
    /\ next = [t \in Task |-> t]
    /\ listed = First
    /\ mm = First
    /\ fd = [t \in Task |-> {0, 1, 2}]
    /\ stack = [t \in Task |-> 1]
    /\ stores = 0
    /\ changes = 0
    /\ mine = [t \in Task |-> NONE]

-----------------------------------------------------------------------------
(* sysfs_store.  sscanf leaves the number alone when it finds none; the    *)
(* node of parts 2 and 3 then repeats what the global held before.         *)
Scan(input) == IF input = BAD THEN value ELSE input

\* Mutation of Push: the node is filed under the process, not the thread.
PushLeader(t, v) == Append(nodes, [pid |-> Leader[t], value |-> v])

Push(t, v) == Append(nodes, [pid |-> t, value |-> v])

Notice(w, x) == Walk(w.at, w.count, w.tid, w.steady, w.ever \cup {x}, w.top)
Seen(ts, x) ==
    walk' = [t \in Task |-> IF t \in ts THEN Notice(walk[t], x) ELSE walk[t]]

Store(t, input) ==
    /\ pc[t] = "user" /\ stores < MaxStores
    /\ stores' = stores + 1
    /\ value' = Scan(input)
    /\ nodes' = IF Part = 1 THEN nodes ELSE Push(t, value')
    /\ mine' = [mine EXCEPT ![t] = IF input = BAD THEN NONE ELSE input]
    /\ Seen({u \in Task : pc[u] = "compare"}, value')
    /\ UNCHANGED <<sys, pc, val, reply, process, changes>>

-----------------------------------------------------------------------------
(* demo_read.                                                              *)
Return(t, r) ==
    /\ reply' = [reply EXCEPT ![t] = r]
    /\ pc' = [pc EXCEPT ![t] = "user"]
    /\ val' = [val EXCEPT ![t] = 0]
    /\ walk' = [walk EXCEPT ![t] = NoWalk]

Go(t, label, v, w) ==
    /\ pc' = [pc EXCEPT ![t] = label]
    /\ val' = [val EXCEPT ![t] = v]
    /\ walk' = [walk EXCEPT ![t] = w]
    /\ UNCHANGED reply

Quiet == UNCHANGED <<sys, driver, process, stores, changes, mine>>

\* Mutation of Found: the list is searched from its other end.
FoundOldest(t, i) ==
    /\ i \in 1 .. Len(nodes)
    /\ nodes[i].pid = t
    /\ \A j \in 1 .. i - 1 : nodes[j].pid # t

\* The node of t nearest to the head.
Found(t, i) ==
    /\ i \in 1 .. Len(nodes)
    /\ nodes[i].pid = t
    /\ \A j \in i + 1 .. Len(nodes) : nodes[j].pid # t

\* cs614_value1 is left uninitialised when the list has no node of t.
Search(t, v) ==
    IF \E i \in 1 .. Len(nodes) : Found(t, i)
    THEN \E i \in 1 .. Len(nodes) : Found(t, i) /\ v = nodes[i].value
    ELSE v \in Questions \cup {-1}

Values == {nodes[i].value : i \in 1 .. Len(nodes)} \cup Questions \cup {-1}

Read(t, length) ==
    /\ pc[t] = "user" /\ t \in Readers
    /\ \/ /\ length < 4
          /\ Return(t, Reply(EINVAL, NONE, NONE))
       \/ /\ length >= 4 /\ Part = 1
          /\ Go(t, "compare", 0, Walk(NONE, 0, NONE, {}, {value}, 0))
       \/ /\ length >= 4 /\ Part # 1
          /\ \E v \in Values : Search(t, v) /\ Go(t, "switch", v, NoWalk)
    /\ Quiet

\* Mutation of Compare: question 4 is not looked at.
CompareEarly(t) ==
    /\ pc[t] = "compare"
    /\ CASE value = val[t] -> Return(t, Reply(SIZE, val[t], t))
         [] value # val[t] /\ val[t] = 3 -> Return(t, Reply(EINVAL, NONE, NONE))
         [] OTHER -> Go(t, "compare", val[t] + 1, walk[t])
    /\ Quiet

\* Part 1 reads the volatile number again for each question in turn.
Compare(t) ==
    /\ pc[t] = "compare"
    /\ CASE value = val[t] -> Return(t, Reply(SIZE, val[t], t))
         [] value # val[t] /\ val[t] = 4 -> Return(t, Reply(EINVAL, NONE, NONE))
         [] OTHER -> Go(t, "compare", val[t] + 1, walk[t])
    /\ Quiet

Members(t) == {u \in listed : Leader[u] = Leader[t]}

\* Parts 2 and 3 compare their local copy; 5, 6 and 7 begin a walk.
Switch(t) ==
    LET threads == Members(t)
        files == fd[Leader[t]]
        Begin(label, x, m, k) == Go(t, label, val[t], Walk(x, 0, NONE, m, m, k))
    IN  /\ pc[t] = "switch"
        /\ CASE val[t] \in 0 .. 4 -> Return(t, Reply(SIZE, val[t], t))
             [] Part = 3 /\ val[t] = 5 -> Begin("threads", t, threads, 0)
             [] Part = 3 /\ val[t] = 6 -> Begin("files", 0, files, 0)
             [] Part = 3 /\ val[t] = 7 -> Begin("stacks", t, threads, stack[Leader[t]])
             [] OTHER -> Return(t, Reply(EINVAL, NONE, NONE))
        /\ Quiet

\* One turn of a do-while over next_thread, which ends back at the reader.
Advance(t, question, x, w) ==
    IF next[w.at] = t
    THEN Return(t, Reply(SIZE, question, x))
    ELSE Go(t, pc[t], val[t], [w EXCEPT !.at = next[w.at]])

\* Mutation of WalkThreads: the reader itself is not counted.
WalkThreadsFromZero(t) ==
    /\ pc[t] = "threads"
    /\ LET w == [walk[t] EXCEPT !.count = @ + 1] IN Advance(t, 5, walk[t].count, w)
    /\ Quiet

WalkThreads(t) ==
    /\ pc[t] = "threads"
    /\ LET w == [walk[t] EXCEPT !.count = @ + 1] IN Advance(t, 5, w.count, w)
    /\ Quiet

WalkFiles(t) ==
    /\ pc[t] = "files"
    /\ LET j == walk[t].at
           one == IF j \in fd[Leader[t]] THEN 1 ELSE 0
       IN  IF j < Slots
           THEN Go(t, "files", val[t], [walk[t] EXCEPT !.at = j + 1, !.count = @ + one])
           ELSE Return(t, Reply(SIZE, 6, walk[t].count))
    /\ Quiet

\* Mutations of WalkStacks: a stack has to exceed max_stack by more than a page;
\* the walk goes on only when its last entry is reached.
WalkStacksByMore(t) ==
    /\ pc[t] = "stacks"
    /\ LET size == stack[Leader[t]]
           w == IF size > walk[t].count + 1
                THEN [walk[t] EXCEPT !.count = size, !.tid = walk[t].at]
                ELSE walk[t]
       IN  IF w.at \notin mm
           THEN Go(t, "oops", 0, NoWalk)
           ELSE Advance(t, 7, w.tid, w)
    /\ Quiet

WalkStacksStays(t) ==
    /\ pc[t] = "stacks"
    /\ next[walk[t].at] = t
    /\ Return(t, Reply(SIZE, 7, t))
    /\ Quiet

\* An entry whose mm is already NULL is an oops, which kills the reader.
WalkStacks(t) ==
    /\ pc[t] = "stacks"
    /\ LET size == stack[Leader[t]]
           w == IF size > walk[t].count
                THEN [walk[t] EXCEPT !.count = size, !.tid = walk[t].at]
                ELSE walk[t]
       IN  IF w.at \notin mm
           THEN Go(t, "oops", 0, NoWalk)
           ELSE Advance(t, 7, w.tid, w)
    /\ Quiet

-----------------------------------------------------------------------------
(* The kernel's side of a process.                                         *)
Walkers(t, labels) == {u \in Task : pc[u] \in labels /\ Leader[u] = Leader[t]}
Listers(t) == Walkers(t, {"threads", "stacks"})

Unseen(ts, x) ==
    walk' = [t \in Task |-> IF t \in ts THEN [walk[t] EXCEPT !.steady = @ \ {x}]
                            ELSE walk[t]]

Change(t) ==
    /\ pc[t] = "user" /\ changes < MaxChanges
    /\ changes' = changes + 1
    /\ UNCHANGED <<sys, driver, val, stores>>

Join(t, u, nx) ==
    /\ Change(t)
    /\ pc[u] = "none"
    /\ pc' = [pc EXCEPT ![u] = "user"]
    /\ next' = nx
    /\ listed' = listed \cup {u}
    /\ mm' = mm \cup {u}
    /\ UNCHANGED <<reply, mine>>

\* pthread_create: a new task joins the list before its leader.
Create(t, u) ==
    LET lead == Leader[t]
        last == CHOOSE w \in Members(t) : next[w] = lead
    IN  /\ Leader[u] = lead /\ u # lead
        /\ Join(t, u, [next EXCEPT ![last] = u, ![u] = lead])
        /\ Seen(Listers(t), u)
        /\ UNCHANGED <<fd, stack>>

\* fork: a new process, with copies of its parent's files.
Fork(t, u) ==
    /\ Leader[u] = u
    /\ Join(t, u, [next EXCEPT ![u] = u])
    /\ fd' = [fd EXCEPT ![u] = fd[Leader[t]]]
    /\ stack' = [stack EXCEPT ![u] = stack[Leader[t]]]
    /\ UNCHANGED walk

\* An exiting thread drops its mm first and leaves the list later, keeping
\* its own next pointer.
DropMm(t) ==
    /\ Change(t)
    /\ t # Leader[t]
    /\ pc' = [pc EXCEPT ![t] = "exiting"]
    /\ mm' = mm \ {t}
    /\ UNCHANGED <<walk, reply, next, listed, fd, stack, mine>>

Unlist(t) ==
    /\ pc[t] = "exiting"
    /\ pc' = [pc EXCEPT ![t] = "gone"]
    /\ next' = [w \in Task |-> IF w \in listed /\ next[w] = t THEN next[t] ELSE next[w]]
    /\ listed' = listed \ {t}
    /\ Unseen(Listers(t), t)
    /\ UNCHANGED <<sys, driver, val, reply, mm, fd, stack, stores, changes, mine>>

\* open takes the lowest free slot.
Open(t) ==
    /\ Change(t)
    /\ \E s \in (0 .. Slots - 1) \ fd[Leader[t]] :
          /\ 0 .. s - 1 \subseteq fd[Leader[t]]
          /\ fd' = [fd EXCEPT ![Leader[t]] = @ \cup {s}]
          /\ Seen(Walkers(t, {"files"}), s)
    /\ UNCHANGED <<pc, reply, next, listed, mm, stack, mine>>

Close(t, s) ==
    /\ Change(t)
    /\ s \in fd[Leader[t]]
    /\ fd' = [fd EXCEPT ![Leader[t]] = @ \ {s}]
    /\ Unseen(Walkers(t, {"files"}), s)
    /\ UNCHANGED <<pc, reply, next, listed, mm, stack, mine>>

GrowStack(t) ==
    /\ Change(t)
    /\ stack' = [stack EXCEPT ![Leader[t]] = @ + 1]
    /\ UNCHANGED <<pc, walk, reply, next, listed, mm, fd, mine>>

\* A process ends, and its pid is given to a new one.
Recycle(t) ==
    /\ Change(t)
    /\ Members(t) = {t} /\ t = Leader[t]
    /\ mine' = [mine EXCEPT ![t] = NONE]
    /\ fd' = [fd EXCEPT ![t] = {0, 1, 2}]
    /\ reply' = [reply EXCEPT ![t] = Reply(0, NONE, NONE)]
    /\ UNCHANGED <<pc, walk, next, listed, mm, stack>>

-----------------------------------------------------------------------------
Reading(t) ==
    \/ Compare(t)
    \/ Switch(t)
    \/ WalkThreads(t)
    \/ WalkFiles(t)
    \/ WalkStacks(t)

Environment(t) ==
    \/ \E u \in Task : Create(t, u) \/ Fork(t, u)
    \/ DropMm(t)
    \/ Unlist(t)
    \/ Open(t)
    \/ \E s \in 0 .. Slots - 1 : Close(t, s)
    \/ GrowStack(t)
    \/ Recycle(t)

Calls(t) ==
    \/ \E input \in Inputs : Store(t, input)
    \/ \E length \in Lengths : Read(t, length)

Next == \E t \in Task : Calls(t) \/ Reading(t) \/ Environment(t)

Spec == Init /\ [][Next]_vars

\* A task in the kernel keeps running.
FairSpec == Spec /\ \A t \in Task : WF_vars(Reading(t))

-----------------------------------------------------------------------------
Inside(t) == pc[t] \in {"compare", "switch", "threads", "files", "stacks"}
Returns(t) == Inside(t) /\ pc'[t] = "user"

TypeOK ==
    /\ sys \in Systems
    /\ value \in Int
    /\ nodes \in Seq([pid : Task, value : Int])
    /\ pc \in [Task -> {"none", "user", "compare", "switch", "threads", "files",
                        "stacks", "oops", "exiting", "gone"}]
    /\ val \in [Task -> Int]
    /\ mine \in [Task -> Int \cup {NONE}]

\* Parts 2 and 3: a task whose last store was a number is answered that very
\* question, or EINVAL if there is no such question, whatever other tasks have
\* stored since and whichever process had its pid before.
AnswersOwnChoice ==
    [][\A t \in Task : Part # 1 /\ Returns(t) /\ mine[t] # NONE =>
          IF mine[t] \in Questions
          THEN reply'[t].ret = SIZE /\ reply'[t].question = mine[t]
          ELSE reply'[t].ret = EINVAL]_vars

\* Part 1: demo_read answers a question that cs614_value asked at some time of
\* the call, and when it did not change during the call, that very question or
\* EINVAL if there is none.
AnswersGlobal ==
    [][\A t \in Task : Part = 1 /\ Returns(t) =>
          /\ reply'[t].ret = SIZE => reply'[t].question \in walk[t].ever
          /\ Cardinality(walk[t].ever) = 1 =>
                (reply'[t].ret = SIZE <=> walk[t].ever \subseteq Questions)]_vars

\* Part 3, questions 5 and 6: although the walks take no lock, what they count
\* is at least the entries present throughout and at most those seen at all.
CountIsPlausible ==
    [][\A t \in Task : Returns(t) /\ reply'[t].question \in {5, 6} =>
          /\ Cardinality(walk[t].steady) <= reply'[t].answer
          /\ reply'[t].answer <= Cardinality(walk[t].ever)]_vars

\* Part 3, question 7: although the walk takes no lock, passes through tasks that
\* have left the list and leaves tid unset until a comparison succeeds, what it
\* answers is a thread of the reader's process that was listed during the read.
StackAnswerIsMember ==
    [][\A t \in Task : Returns(t) /\ reply'[t].question = 7 =>
          reply'[t].answer \in walk[t].ever]_vars

\* A read ends, even while the entries it walks over leave the list.
ReadReturns ==
    \A t \in Task : Inside(t) ~> ~Inside(t)
=============================================================================
