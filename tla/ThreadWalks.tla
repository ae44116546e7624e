---------------------------- MODULE ThreadWalks ----------------------------
(***************************************************************************)
(* The inductive invariants of the reads of ThreadInfo, in four layers.    *)
(*                                                                         *)
(* ReadInv: which question a read is about.  Parts 2 and 3: the node       *)
(* nearest to the head among those of a task holds what the task stored    *)
(* last (Filed); a read keeps it in its local copy, and a walk begins only *)
(* for its own question (Local).  Part 1: since a read began, the number   *)
(* has had the values in ever, and the questions compared so far are not   *)
(* all it has been (Compared).                                             *)
(*                                                                         *)
(* GroupInv: the processes, what a count of files has seen of the slots    *)
(* behind it (FileWalk) and whose stack a search holds (StackWalk).        *)
(*                                                                         *)
(* CountInv: with an order of birth b of the tasks, every list of threads  *)
(* is a ring in that order (Ring), a task that has left still points past  *)
(* none that stays, and a count has met between as many entries as were    *)
(* listed throughout and as many as were ever listed (ThreadWalk).         *)
(*                                                                         *)
(* SearchInv: a search for the largest stack stays among the tasks that    *)
(* were listed at some time of it, and has found one of them.              *)
(***************************************************************************)
EXTENDS ThreadInfo

\* Where a task is in a walk, and where it can be at all.
Walking == {"threads", "files", "stacks"}
Labels == {"none", "user", "compare", "switch", "threads", "files", "stacks", "oops",
           "exiting", "gone"}

\* The types that the argument needs.
Shape ==
    /\ TypeOK
    /\ DOMAIN walk = Task
    /\ DOMAIN reply = Task

\* The first node of t in the list holds what t stored last.
Filed(t) ==
    mine[t] # NONE =>
        \E i \in 1 .. Len(nodes) : Found(t, i) /\ nodes[i].value = mine[t]

\* A read of parts 2 and 3 has it in its local copy.
Local(t) ==
    /\ pc[t] # "compare"
    /\ Inside(t) /\ mine[t] # NONE => val[t] = mine[t]
    /\ pc[t] \in Walking => Part = 3
    /\ pc[t] = "threads" => val[t] = 5
    /\ pc[t] = "files" => val[t] = 6
    /\ pc[t] = "stacks" => val[t] = 7

\* A read of part 1 has seen the number be something else than it compared.
Compared(t) ==
    /\ pc[t] # "switch" /\ pc[t] \notin Walking
    /\ pc[t] = "compare" =>
        /\ val[t] \in 0 .. 4
        /\ value \in walk[t].ever
        /\ IsFiniteSet(walk[t].ever)
        /\ \A q \in 0 .. val[t] - 1 : walk[t].ever # {q}

\* The inductive invariant.
ReadInv ==
    /\ Shape
    /\ \A t \in Task : IF Part = 1 THEN Compared(t) ELSE Filed(t) /\ Local(t)

\* What the properties about questions say of a step that returns to t.
OwnAnswer(t) ==
    Part # 1 /\ Returns(t) /\ mine[t] # NONE =>
        IF mine[t] \in Questions
        THEN reply'[t].ret = SIZE /\ reply'[t].question = mine[t]
        ELSE reply'[t].ret = EINVAL

GlobalAnswer(t) ==
    Part = 1 /\ Returns(t) =>
        /\ reply'[t].ret = SIZE => reply'[t].question \in walk[t].ever
        /\ Cardinality(walk[t].ever) = 1 =>
              (reply'[t].ret = SIZE <=> walk[t].ever \subseteq Questions)

-----------------------------------------------------------------------------
(* The processes under the readers.                                        *)

\* A walk has all its fields.
IsWalk(w) == w = Walk(w.at, w.count, w.tid, w.steady, w.ever, w.top)

\* The leader of every task is a task that has not ended; a task is in a list
\* from its creation until it has left.
Groups ==
    /\ next \in [Task -> Task] /\ changes \in Nat
    /\ fd \in [Task -> SUBSET (0 .. Slots - 1)]
    /\ stack \in [Task -> Nat \ {0}]
    /\ listed = {x \in Task : pc[x] \notin {"none", "gone"}}
    /\ \A x \in Task : pc[x] # "none" =>
           Leader[Leader[x]] = Leader[x] /\ pc[Leader[x]] # "none"
    /\ \A x \in Task : pc[x] \in {"exiting", "gone"} => x # Leader[x]
    /\ \A x \in Task : IsFiniteSet(Members(x))
    /\ \A x \in Task : IsWalk(walk[x])

\* The slots of S before slot j.
Below(S, j) == {i \in S : i < j}

\* A count of files that has come to slot at.
FileWalk(t) ==
    LET w == walk[t] IN
    pc[t] = "files" =>
        /\ w.at \in 0 .. Slots /\ w.count \in Nat
        /\ w.steady \subseteq fd[Leader[t]] /\ fd[Leader[t]] \subseteq w.ever
        /\ w.ever \subseteq 0 .. Slots - 1
        /\ Cardinality(Below(w.steady, w.at)) <= w.count
        /\ w.count <= Cardinality(Below(w.ever, w.at))

\* A search for the largest stack, all of which are the same.
StackWalk(t) ==
    LET w == walk[t] IN
    pc[t] = "stacks" =>
        /\ w.top \in Nat \ {0} /\ stack[Leader[t]] >= w.top
        /\ stack[Leader[t]] = w.top =>
               \/ w.tid = t /\ w.count = w.top
               \/ w.at = t /\ w.count = 0

GroupInv == Groups /\ \A t \in Task : FileWalk(t) /\ StackWalk(t)

\* Where a task is in a call or in user code.
Active == {"user", "compare", "switch", "threads", "files", "stacks", "oops"}

\* What the properties about counts and stacks say of a step that returns to t.
CountAnswer(t) ==
    Returns(t) /\ reply'[t].question \in {5, 6} =>
        /\ Cardinality(walk[t].steady) <= reply'[t].answer
        /\ reply'[t].answer <= Cardinality(walk[t].ever)

StackAnswer(t) ==
    Returns(t) /\ reply'[t].question = 7 =>
        reply'[t].answer = t \/ stack[Leader[t]] > walk[t].top

\* Why question 7 does not find the largest stack: stack_vm belongs to
\* the mm, which all threads share, so unless it grows in mid-walk the answer is
\* the reader.
StackAnswerIsReader ==
    [][\A t \in Task : Returns(t) /\ reply'[t].question = 7 =>
          reply'[t].answer = t \/ stack[Leader[t]] > walk[t].top]_vars

\* Question 6 alone.
FilesAnswer(t) == reply'[t].question = 6 => CountAnswer(t)

-----------------------------------------------------------------------------
(* The order of a thread group.  A task joins its list at the end, so the  *)
(* list is in the order of birth, b, from the leader on.                   *)

\* From x the list goes on to y: the next of S in the order of birth, or back to
\* the leader.
Link(b, lead, x, y, S) ==
    \/ b[x] < b[y] /\ \A z \in S : ~(b[x] < b[z] /\ b[z] < b[y])
    \/ y = lead /\ \A z \in S : b[z] <= b[x]

\* A walk that begins at t comes to x before y.
Prec(b, t, x, y) ==
    \/ b[x] >= b[t] /\ b[y] < b[t]
    \/ b[x] >= b[t] /\ b[y] >= b[t] /\ b[x] < b[y]
    \/ b[x] < b[t] /\ b[y] < b[t] /\ b[x] < b[y]

\* The entries of S that such a walk comes to before x.
Met(b, t, S, x) == {z \in S : Prec(b, t, z, x)}

\* A task is born after its leader, and no two of a group at once.
Born(b) ==
    \A x \in Task : pc[x] # "none" =>
        /\ b[x] <= changes
        /\ x # Leader[x] => b[Leader[x]] < b[x]
        /\ \A y \in Task : pc[y] # "none" /\ Leader[y] = Leader[x] /\ b[y] = b[x] => y = x

\* The list of a group is a ring in the order of birth.
Ring(b) ==
    \A x \in listed :
        /\ next[x] \in Members(x)
        /\ Link(b, Leader[x], x, next[x], Members(x))
        /\ \E p \in listed : next[p] = x

\* A count of threads that has come to at.  A task that has left the list still
\* points to where it did, past none of those that are listed throughout.
ThreadWalk(b, t) ==
    LET w == walk[t] IN
    pc[t] = "threads" =>
        /\ w.at \in w.ever /\ w.count \in Nat /\ IsFiniteSet(w.ever)
        /\ \A x \in w.ever : x \in Task /\ pc[x] # "none" /\ Leader[x] = Leader[t]
        /\ w.steady \subseteq Members(t) /\ Members(t) \subseteq w.ever /\ t \in w.steady
        /\ \A x \in w.ever \ listed :
               next[x] \in w.ever /\ Link(b, Leader[t], x, next[x], w.steady)
        /\ Cardinality(Met(b, t, w.steady, w.at)) <= w.count
        /\ w.count <= Cardinality(Met(b, t, w.ever, w.at))

Order(b) == Born(b) /\ Ring(b) /\ \A t \in Task : ThreadWalk(b, t)

\* Question 5 alone.
ThreadsAnswer(t) == reply'[t].question = 5 => CountAnswer(t)

\* The processes, the walks and the lists under them.
CountInv == GroupInv /\ \E b \in [Task -> Nat] : Order(b)

-----------------------------------------------------------------------------
\* A search for the largest stack that has come to at: wherever it goes on from a
\* task of ever, it comes to another.
SearchWalk(t) ==
    LET w == walk[t] IN
    pc[t] = "stacks" =>
        /\ w.at \in w.ever /\ Members(t) \subseteq w.ever
        /\ \A x \in w.ever : x \in Task /\ Leader[x] = Leader[t] /\ next[x] \in w.ever
        /\ w.count \in Nat /\ (w.count = 0 \/ w.tid \in w.ever)

SearchInv == \A t \in Task : SearchWalk(t)

\* What the property about question 7 says of a step that returns to t.
SearchAnswer(t) ==
    Returns(t) /\ reply'[t].question = 7 => reply'[t].answer \in walk[t].ever

-----------------------------------------------------------------------------
\* What the arguments about counts need of cardinalities.
Counting ==
    /\ IsFiniteSet({}) /\ Cardinality({}) = 0
    /\ \A x : IsFiniteSet({x})
    /\ \A m, n \in Int : IsFiniteSet(m .. n)
    /\ \A S : IsFiniteSet(S) => Cardinality(S) \in Nat
    /\ \A S : \A T \in SUBSET S :
           IsFiniteSet(S) => IsFiniteSet(T) /\ Cardinality(T) <= Cardinality(S)
    /\ \A S, x :
           IsFiniteSet(S) =>
               /\ IsFiniteSet(S \cup {x})
               /\ Cardinality(S \cup {x})
                     = IF x \in S THEN Cardinality(S) ELSE Cardinality(S) + 1
=============================================================================
