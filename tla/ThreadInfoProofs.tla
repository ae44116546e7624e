-------------------------- MODULE ThreadInfoProofs --------------------------
(***************************************************************************)
(* What the reads of ThreadInfo answer, for any number of tasks, numbers,  *)
(* files and changes of processes, in all three drivers.  First the        *)
(* processes under the readers and the walks over their files and stacks   *)
(* (GroupInv), then the lists of threads and the walks over those, along an*)
(* order of birth (CountInv), the searches for a stack (SearchInv), then   *)
(* the reads (ReadInv) and the properties.                                 *)
(***************************************************************************)
EXTENDS ThreadWalks, FiniteSetTheorems, TLAPS

\* Sets and their cardinalities.
LEMMA FiniteSubset ==
    ASSUME Counting, NEW S, IsFiniteSet(S), NEW T \in SUBSET S
    PROVE  /\ IsFiniteSet(T) /\ Cardinality(T) <= Cardinality(S)
           /\ Cardinality(T) \in Nat /\ Cardinality(S) \in Nat
  BY Zenon DEF Counting

\* ... one element more,
LEMMA FiniteAdd ==
    ASSUME Counting, NEW S, NEW x, IsFiniteSet(S)
    PROVE  /\ IsFiniteSet(S \cup {x})
           /\ Cardinality(S \cup {x}) = IF x \in S THEN Cardinality(S) ELSE Cardinality(S) + 1
  BY Zenon DEF Counting

\* ... and the slots of a table.
LEMMA FiniteSlots ==
    ASSUME Counting, NEW n \in Nat
    PROVE  IsFiniteSet(0 .. n - 1)
  BY DEF Counting

\* The system does not change, and what the argument needs of it.
LEMMA SystemStays ==
    ASSUME ReadInv, sys' = sys
    PROVE  /\ Leader' = Leader /\ Slots' = Slots
           /\ Leader \in [Task -> Task]
           /\ Slots \in Nat /\ Slots >= 3
           /\ \A t \in Task : Members(t)' = {u \in listed' : Leader[u] = Leader[t]}
  <1>1. Leader' = Leader /\ Slots' = Slots
    BY Zenon DEF Leader, Slots
  <1>2. sys \in Systems
    BY Zenon DEF ReadInv, Shape, TypeOK
  <1> QED BY Zenon, <1>1, <1>2, ThreadInfoAssumption DEF Leader, Slots, Members

\* A walk that a step leaves alone, as far as its argument is concerned, stays right.
LEMMA WalkStays ==
    ASSUME NEW x \in Task, FileWalk(x), StackWalk(x), Leader' = Leader, Slots' = Slots,
           pc'[x] \in {"files", "stacks"} => pc'[x] = pc[x],
           pc'[x] = "files" => walk'[x] = walk[x] /\ fd'[Leader[x]] = fd[Leader[x]],
           pc'[x] = "stacks" =>
               /\ walk'[x].at = walk[x].at /\ walk'[x].count = walk[x].count
               /\ walk'[x].tid = walk[x].tid /\ walk'[x].top = walk[x].top
               /\ stack'[Leader[x]] = stack[Leader[x]]
    PROVE  FileWalk(x)' /\ StackWalk(x)'
  <1>1. FileWalk(x)'
    BY Zenon DEF FileWalk
  <1>2. StackWalk(x)'
    BY Zenon DEF StackWalk
  <1> QED BY Zenon, <1>1, <1>2

\* So do the processes when no task comes or leaves.
LEMMA GroupsStay ==
    ASSUME Groups, Leader' = Leader, Slots' = Slots, UNCHANGED <<pc, next, listed>>,
           \A x \in Task : Members(x)' = Members(x),
           changes' \in Nat, fd' \in [Task -> SUBSET (0 .. Slots - 1)],
           stack' \in [Task -> Nat \ {0}], \A x \in Task : IsWalk(walk'[x])
    PROVE  Groups'
  BY Zenon DEF Groups

\* At the start every process is one task that does not read.
LEMMA InitGroups ==
    ASSUME Counting, Init
    PROVE  GroupInv
  <1>1. /\ Slots \in Nat /\ Slots >= 3 /\ First \subseteq {t \in Task : Leader[t] = t}
        /\ Leader \in [Task -> Task]
    BY Zenon, ThreadInfoAssumption DEF Init, Slots, First, Leader
  <1>2. \A t \in Task : pc[t] = IF t \in First THEN "user" ELSE "none"
    BY Zenon DEF Init
  <1>3. /\ next \in [Task -> Task] /\ changes \in Nat
        /\ fd \in [Task -> SUBSET (0 .. Slots - 1)]
        /\ stack \in [Task -> Nat \ {0}]
    <2>1. {0, 1, 2} \subseteq 0 .. Slots - 1
      BY <1>1
    <2> QED BY <2>1 DEF Init
  <1>4. listed = {x \in Task : pc[x] \notin {"none", "gone"}}
    BY Zenon, <1>1, <1>2 DEF Init
  <1>5. \A x \in Task : Members(x) \subseteq {Leader[x]}
    BY Zenon, <1>1 DEF Init, Members
  <1>6. \A x \in Task : IsFiniteSet(Members(x))
    BY Zenon, <1>5, FiniteSubset DEF Counting
  <1>7. \A x \in Task : IsWalk(walk[x])
    BY Zenon DEF Init, IsWalk, NoWalk, Walk
  <1> QED BY Zenon, <1>1, <1>2, <1>3, <1>4, <1>6, <1>7 DEF GroupInv, Groups, FileWalk, StackWalk

\* The fields of a walk.
LEMMA WalkFields ==
    ASSUME NEW x, NEW n, NEW m, NEW s, NEW e, NEW k
    PROVE  LET w == Walk(x, n, m, s, e, k) IN
           /\ IsWalk(w)
           /\ w.at = x /\ w.count = n /\ w.tid = m /\ w.steady = s /\ w.ever = e /\ w.top = k
  BY Zenon DEF IsWalk, Walk

\* ... one of which is changed,
LEMMA WalkChanged ==
    ASSUME NEW w, IsWalk(w)
    PROVE  /\ DOMAIN w = {"at", "count", "tid", "steady", "ever", "top"}
           /\ \A x : [w EXCEPT !.at = x] = Walk(x, w.count, w.tid, w.steady, w.ever, w.top)
           /\ \A n : [w EXCEPT !.count = n] = Walk(w.at, n, w.tid, w.steady, w.ever, w.top)
           /\ \A m : [w EXCEPT !.tid = m] = Walk(w.at, w.count, m, w.steady, w.ever, w.top)
           /\ \A s : [w EXCEPT !.steady = s] = Walk(w.at, w.count, w.tid, s, w.ever, w.top)
           /\ \A x : IsWalk([w EXCEPT !.at = x]) /\ IsWalk([w EXCEPT !.count = x])
                     /\ IsWalk([w EXCEPT !.steady = x])
  BY DEF IsWalk, Walk

\* ... or two.
LEMMA WalkChangedTwice ==
    ASSUME NEW w, NEW x, NEW n, NEW m, IsWalk(w)
    PROVE  /\ [w EXCEPT !.at = x, !.count = n] = Walk(x, n, w.tid, w.steady, w.ever, w.top)
           /\ [w EXCEPT !.count = n, !.tid = m] = Walk(w.at, n, m, w.steady, w.ever, w.top)
           /\ IsWalk([w EXCEPT !.at = x, !.count = n])
           /\ IsWalk([w EXCEPT !.count = n, !.tid = m])
  <1>1. DOMAIN w = {"at", "count", "tid", "steady", "ever", "top"}
    BY Zenon, WalkChanged
  <1>2. /\ [w EXCEPT !.at = x, !.count = n] = [[w EXCEPT !.at = x] EXCEPT !.count = n]
        /\ [w EXCEPT !.count = n, !.tid = m] = [[w EXCEPT !.count = n] EXCEPT !.tid = m]
    BY Zenon, <1>1
  <1> DEFINE v == Walk(x, w.count, w.tid, w.steady, w.ever, w.top)
             u == Walk(w.at, n, w.tid, w.steady, w.ever, w.top)
  <1>3. /\ IsWalk(v) /\ IsWalk(u)
        /\ v.at = x /\ v.tid = w.tid /\ v.steady = w.steady /\ v.ever = w.ever
        /\ v.top = w.top
        /\ u.at = w.at /\ u.count = n /\ u.steady = w.steady /\ u.ever = w.ever
        /\ u.top = w.top
    BY WalkFields
  <1>4. [w EXCEPT !.at = x] = v /\ [w EXCEPT !.count = n] = u
    BY Zenon, WalkChanged
  <1> HIDE DEF v, u
  <1>5. /\ [v EXCEPT !.count = n] = Walk(v.at, n, v.tid, v.steady, v.ever, v.top)
        /\ [u EXCEPT !.tid = m] = Walk(u.at, u.count, m, u.steady, u.ever, u.top)
    BY Zenon, <1>3, WalkChanged
  <1>6. /\ [w EXCEPT !.at = x, !.count = n] = Walk(x, n, w.tid, w.steady, w.ever, w.top)
        /\ [w EXCEPT !.count = n, !.tid = m] = Walk(w.at, n, m, w.steady, w.ever, w.top)
    BY Zenon, <1>2, <1>3, <1>4, <1>5
  <1>7. /\ IsWalk(Walk(x, n, w.tid, w.steady, w.ever, w.top))
        /\ IsWalk(Walk(w.at, n, m, w.steady, w.ever, w.top))
    BY Zenon, WalkFields
  <1> QED BY Zenon, <1>6, <1>7

\* A reader's step changes no process, and of the others' walks only what part 1
\* notes there.
LEMMA ReaderStep ==
    ASSUME ReadInv, Groups, NEW t \in Task, Calls(t) \/ Reading(t)
    PROVE  /\ UNCHANGED <<sys, next, listed, mm, fd, stack, changes>>
           /\ pc[t] \in Active /\ pc'[t] \in Active
           /\ \A u \in Task \ {t} : pc'[u] = pc[u]
           /\ \A u \in Task : pc[u] # "compare" /\ u # t => walk'[u] = walk[u]
           /\ \A u \in Task : IsWalk(walk'[u])
  <1> USE DEF Active
  <1>0. /\ pc \in [Task -> Labels] /\ DOMAIN walk = Task
        /\ \A u \in Task : IsWalk(walk[u])
    BY Zenon DEF ReadInv, Shape, TypeOK, Labels, Groups
  <1>1. ASSUME NEW input, Store(t, input)
        PROVE  /\ UNCHANGED <<sys, pc, next, listed, mm, fd, stack, changes>>
               /\ pc[t] = "user"
               /\ \A u \in Task : \/ walk'[u] = walk[u]
                                  \/ pc[u] = "compare" /\ walk'[u] = Notice(walk[u], value')
    BY Zenon, <1>1 DEF Store, Seen, process
  <1>2. CASE \E input \in Inputs : Store(t, input)
    <2>1. PICK input \in Inputs : Store(t, input)
      BY Zenon, <1>2
    <2>2. \A u \in Task : IsWalk(Notice(walk[u], value'))
      BY Zenon, WalkFields DEF Notice
    <2> QED BY Zenon, <1>0, <1>1, <2>1, <2>2
  <1>3. ASSUME NEW r, Return(t, r), Quiet, pc[t] \in Active
        PROVE  /\ UNCHANGED <<sys, next, listed, mm, fd, stack, changes>>
               /\ pc'[t] \in Active
               /\ \A u \in Task \ {t} : pc'[u] = pc[u] /\ walk'[u] = walk[u]
               /\ IsWalk(walk'[t])
    BY Zenon, <1>0, <1>3, WalkFields DEF Return, Quiet, process, NoWalk
  <1>4. ASSUME NEW l \in Active, NEW v, NEW w, Go(t, l, v, w), Quiet, pc[t] \in Active,
               IsWalk(w)
        PROVE  /\ UNCHANGED <<sys, next, listed, mm, fd, stack, changes>>
               /\ pc'[t] \in Active
               /\ \A u \in Task \ {t} : pc'[u] = pc[u] /\ walk'[u] = walk[u]
               /\ IsWalk(walk'[t])
    BY Zenon, <1>0, <1>4 DEF Go, Quiet, process
  <1>5. CASE \E length \in Lengths : Read(t, length)
    BY <1>0, <1>3, <1>4, <1>5, WalkFields DEF Read, NoWalk
  <1>6. CASE Compare(t)
    BY Zenon, <1>0, <1>3, <1>4, <1>6 DEF Compare
  <1>7. CASE Switch(t)
    BY <1>0, <1>3, <1>4, <1>7, WalkFields DEF Switch
  <1>8. CASE WalkThreads(t)
    <2> DEFINE w == [walk[t] EXCEPT !.count = @ + 1]
    <2>1. IsWalk(w)
      BY Zenon, <1>0, WalkChanged
    <2>2. pc[t] \in Active /\ Quiet /\ Advance(t, 5, w.count, w)
      BY Zenon, <1>8 DEF WalkThreads
    <2> HIDE DEF w
    <2>3. IsWalk([w EXCEPT !.at = next[w.at]])
      BY Zenon, <2>1, WalkChanged
    <2> QED BY Zenon, <1>0, <1>3, <1>4, <2>2, <2>3 DEF Advance
  <1>9. CASE WalkFiles(t)
    <2>1. \A j, n : IsWalk([walk[t] EXCEPT !.at = j, !.count = n])
      BY Zenon, <1>0, WalkChangedTwice
    <2> QED BY Zenon, <1>0, <1>3, <1>4, <1>9, <2>1 DEF WalkFiles
  <1>10. CASE WalkStacks(t)
    <2> DEFINE w == IF stack[Leader[t]] > walk[t].count
                    THEN [walk[t] EXCEPT !.count = stack[Leader[t]], !.tid = walk[t].at]
                    ELSE walk[t]
    <2>1. IsWalk(w)
      BY Zenon, <1>0, WalkChangedTwice
    <2>2. /\ pc[t] \in Active /\ Quiet
          /\ Go(t, "oops", 0, NoWalk) \/ Advance(t, 7, w.tid, w)
      BY Zenon, <1>10 DEF WalkStacks
    <2> HIDE DEF w
    <2>3. IsWalk([w EXCEPT !.at = next[w.at]]) /\ IsWalk(NoWalk)
      BY Zenon, <2>1, WalkChanged, WalkFields DEF NoWalk
    <2> QED BY Zenon, <1>0, <1>3, <1>4, <2>2, <2>3 DEF Advance
  <1> QED BY Zenon, <1>2, <1>5, <1>6, <1>7, <1>8, <1>9, <1>10 DEF Calls, Reading

\* A reader's step keeps the processes, and the walks of the other readers.
LEMMA ReaderKeepsGroups ==
    ASSUME ReadInv, GroupInv, NEW t \in Task, Calls(t) \/ Reading(t)
    PROVE  /\ Groups'
           /\ \A u \in Task \ {t} : FileWalk(u)' /\ StackWalk(u)'
  <1>1. /\ UNCHANGED <<sys, next, listed, mm, fd, stack, changes>>
        /\ pc[t] \in Active /\ pc'[t] \in Active
        /\ \A u \in Task \ {t} : pc'[u] = pc[u]
        /\ \A u \in Task : pc[u] # "compare" /\ u # t => walk'[u] = walk[u]
        /\ \A u \in Task : IsWalk(walk'[u])
    BY Zenon, ReaderStep DEF GroupInv
  <1>2. /\ Leader' = Leader /\ Slots' = Slots /\ Leader \in [Task -> Task]
        /\ \A u \in Task : Members(u)' = Members(u)
    BY Zenon, <1>1, SystemStays DEF Members
  <1>3. Groups'
    <2>1. \A x \in Task : /\ pc'[x] \in {"none", "gone"} <=> pc[x] \in {"none", "gone"}
                          /\ pc'[x] = "none" <=> pc[x] = "none"
                          /\ pc'[x] \in {"exiting", "gone"} <=> pc[x] \in {"exiting", "gone"}
      BY Zenon, <1>1 DEF Active
    <2>2. listed' = {x \in Task : pc'[x] \notin {"none", "gone"}}
      BY Zenon, <1>1, <2>1 DEF GroupInv, Groups
    <2>3. \A x \in Task : pc'[x] # "none" =>
             Leader[Leader[x]] = Leader[x] /\ pc'[Leader[x]] # "none"
      BY Zenon, <1>2, <2>1 DEF GroupInv, Groups
    <2> QED BY <1>1, <1>2, <2>1, <2>2, <2>3 DEF GroupInv, Groups
  <1>4. ASSUME NEW u \in Task \ {t} PROVE FileWalk(u)' /\ StackWalk(u)'
    <2>1. pc'[u] = pc[u] /\ (pc[u] # "compare" => walk'[u] = walk[u])
      BY Zenon, <1>1
    <2>2. FileWalk(u) /\ StackWalk(u)
      BY Zenon DEF GroupInv
    <2> QED BY Zenon, <1>1, <1>2, <2>1, <2>2, WalkStays
  <1> QED BY Zenon, <1>3, <1>4

\* A walk over N slots has come to slot j with n entries counted: F are open now, S
\* have been all the time, E at some time.
FilesBefore(N, S, F, E, j, n) ==
    /\ N \in Nat /\ j \in 0 .. N - 1 /\ n \in Nat
    /\ S \subseteq F /\ F \subseteq E /\ E \subseteq 0 .. N - 1
    /\ Cardinality(Below(S, j)) <= n /\ n <= Cardinality(Below(E, j))

\* The next slot of a walk over the files: n entries counted so far, and the one
\* of slot j if there is a file now.
LEMMA CountSlot ==
    ASSUME Counting, NEW N, NEW S, NEW F, NEW E, NEW j, NEW n, NEW k,
           FilesBefore(N, S, F, E, j, n), k = n + (IF j \in F THEN 1 ELSE 0)
    PROVE  /\ k \in Nat
           /\ Cardinality(Below(S, j + 1)) <= k
           /\ k <= Cardinality(Below(E, j + 1))
  <1> DEFINE SB == Below(S, j)
             EB == Below(E, j)
             SA == Below(S, j + 1)
             EA == Below(E, j + 1)
  <1> USE DEF Below, FilesBefore
  <1>1. IsFiniteSet(0 .. N - 1)
    BY Zenon, FiniteSlots
  <1>2. /\ IsFiniteSet(SB) /\ IsFiniteSet(EB)
        /\ Cardinality(SB) \in Nat /\ Cardinality(EB) \in Nat
    <2>1. SB \subseteq 0 .. N - 1 /\ EB \subseteq 0 .. N - 1
      BY Zenon
    <2> HIDE DEF SB, EB
    <2> QED BY Zenon, <1>1, <2>1, FiniteSubset
  <1>3. /\ j \in S => SA = SB \cup {j}
        /\ j \notin S => SA = SB
        /\ j \in E => EA = EB \cup {j}
        /\ j \notin E => EA = EB
        /\ j \notin SB /\ j \notin EB
    <2>1. /\ j \in Int
          /\ \A i \in E : i \in Int /\ (i < j + 1 <=> i < j \/ i = j)
          /\ \A i \in S : i \in E
      OBVIOUS
    <2>2. j \in S => SA = SB \cup {j}
      BY Zenon, <2>1
    <2>3. j \notin S => SA = SB
      BY Zenon, <2>1
    <2>4. j \in E => EA = EB \cup {j}
      BY Zenon, <2>1
    <2>5. j \notin E => EA = EB
      BY Zenon, <2>1
    <2>6. j \notin SB /\ j \notin EB
      BY <2>1
    <2> QED BY Zenon, <2>2, <2>3, <2>4, <2>5, <2>6
  <1>4. Cardinality(SB) <= n /\ n <= Cardinality(EB)
    BY Zenon
  <1> HIDE DEF SB, EB, SA, EA
  <1>5. /\ Cardinality(SA) = Cardinality(SB) + (IF j \in S THEN 1 ELSE 0)
        /\ Cardinality(EA) = Cardinality(EB) + (IF j \in E THEN 1 ELSE 0)
    BY <1>2, <1>3, FiniteAdd
  <1>6. j \in S => j \in F
    BY Zenon
  <1>7. j \in F => j \in E
    BY Zenon
  <1>8. k \in Nat /\ Cardinality(SA) <= k /\ k <= Cardinality(EA)
    BY <1>2, <1>4, <1>5, <1>6, <1>7
  <1> QED BY Zenon, <1>8 DEF SA, EA

\* A step that returns with no answer to a walk, or does not return.
LEMMA OtherAnswer ==
    ASSUME ReadInv, NEW t \in Task, NEW q, NEW x, NEW r, q \notin {6, 7},
           Return(t, Reply(r, q, x))
    PROVE  FileWalk(t)' /\ StackWalk(t)' /\ FilesAnswer(t) /\ StackAnswer(t)
  <1>1. pc'[t] = "user" /\ reply'[t] = Reply(r, q, x)
    BY Zenon DEF Return, ReadInv, Shape, TypeOK
  <1>2. reply'[t].question = q
    BY <1>1 DEF Reply
  <1> QED BY Zenon, <1>1, <1>2 DEF FileWalk, StackWalk, FilesAnswer, StackAnswer

\* Where a read goes on.
LEMMA GoesOn ==
    ASSUME ReadInv, NEW t \in Task, NEW l \in Labels, NEW v, NEW w, l # "user", Go(t, l, v, w)
    PROVE  pc'[t] = l /\ walk'[t] = w /\ FilesAnswer(t) /\ StackAnswer(t)
  <1>1. pc'[t] = l /\ walk'[t] = w
    BY Zenon DEF Go, ReadInv, Shape, TypeOK
  <1> QED BY Zenon, <1>1 DEF FilesAnswer, CountAnswer, StackAnswer, Returns

\* The comparisons, and where they begin a walk.
LEMMA SwitchWalks ==
    ASSUME Counting, ReadInv, GroupInv, NEW t \in Task, Switch(t)
    PROVE  FileWalk(t)' /\ StackWalk(t)' /\ FilesAnswer(t) /\ StackAnswer(t)
  <1> DEFINE q == val[t]
             L == Leader[t]
  <1>1. /\ pc[t] = "switch" /\ Quiet /\ q \in Int /\ NONE \notin {6, 7}
        /\ UNCHANGED <<sys, fd, stack>>
    BY ThreadInfoAssumption DEF Switch, Quiet, process, ReadInv, Shape, TypeOK
  <1>2. /\ Leader' = Leader /\ Slots' = Slots /\ L \in Task /\ Slots \in Nat
    BY Zenon, <1>1, SystemStays
  <1>3. fd[L] \subseteq 0 .. Slots - 1 /\ stack[L] \in Nat \ {0}
    BY Zenon, <1>2 DEF GroupInv, Groups
  <1>4. \/ \E r, p, x : p \notin {6, 7} /\ Return(t, Reply(r, p, x))
        \/ Go(t, "threads", q, Walk(t, 0, NONE, Members(t), Members(t), 0))
        \/ Go(t, "files", q, Walk(0, 0, NONE, fd[L], fd[L], 0))
        \/ Go(t, "stacks", q, Walk(t, 0, NONE, Members(t), Members(t), stack[L]))
    BY <1>1 DEF Switch
  <1>5. CASE \E r, p, x : p \notin {6, 7} /\ Return(t, Reply(r, p, x))
    BY Zenon, <1>5, OtherAnswer
  <1>6. CASE Go(t, "threads", q, Walk(t, 0, NONE, Members(t), Members(t), 0))
    BY <1>6, GoesOn DEF FileWalk, StackWalk, Labels
  <1>7. CASE Go(t, "files", q, Walk(0, 0, NONE, fd[L], fd[L], 0))
    <2>1. /\ pc'[t] = "files" /\ walk'[t] = Walk(0, 0, NONE, fd[L], fd[L], 0)
          /\ FilesAnswer(t) /\ StackAnswer(t)
      BY Zenon, <1>7, GoesOn DEF Labels
    <2>2. /\ walk'[t].at = 0 /\ walk'[t].count = 0 /\ walk'[t].steady = fd[L]
          /\ walk'[t].ever = fd[L]
      BY <2>1, WalkFields
    <2>3. /\ Below(walk'[t].steady, walk'[t].at) = {}
          /\ Below(walk'[t].ever, walk'[t].at) = {}
      BY <1>2, <1>3, <2>2 DEF Below
    <2>4. /\ Cardinality(Below(walk'[t].steady, walk'[t].at)) = 0
          /\ Cardinality(Below(walk'[t].ever, walk'[t].at)) = 0
      BY Zenon, <2>3 DEF Counting
    <2>5. 0 \in 0 .. Slots /\ 0 <= 0
      BY <1>2
    <2>6. FileWalk(t)'
      BY <1>1, <1>2, <1>3, <2>1, <2>2, <2>4, <2>5 DEF FileWalk
    <2> QED BY Zenon, <2>1, <2>6 DEF StackWalk
  <1>8. CASE Go(t, "stacks", q, Walk(t, 0, NONE, Members(t), Members(t), stack[L]))
    <2>1. /\ pc'[t] = "stacks"
          /\ walk'[t] = Walk(t, 0, NONE, Members(t), Members(t), stack[L])
          /\ FilesAnswer(t) /\ StackAnswer(t)
      BY Zenon, <1>8, GoesOn DEF Labels
    <2>2. walk'[t].at = t /\ walk'[t].count = 0 /\ walk'[t].top = stack[L]
      BY <2>1, WalkFields
    <2>3. StackWalk(t)'
      BY <1>1, <1>2, <1>3, <2>1, <2>2 DEF StackWalk
    <2> QED BY Zenon, <2>1, <2>3 DEF FileWalk
  <1> QED BY Zenon, <1>4, <1>5, <1>6, <1>7, <1>8

\* One slot of the table of files.
LEMMA FilesWalk ==
    ASSUME Counting, ReadInv, GroupInv, NEW t \in Task, WalkFiles(t)
    PROVE  FileWalk(t)' /\ StackWalk(t)' /\ FilesAnswer(t) /\ StackAnswer(t)
  <1> DEFINE w == walk[t]
             j == walk[t].at
             F == fd[Leader[t]]
             one == IF j \in F THEN 1 ELSE 0
  <1>1. pc[t] = "files" /\ UNCHANGED <<sys, fd, stack>>
    BY Zenon DEF WalkFiles, Quiet, process
  <1>2. Leader' = Leader /\ Slots' = Slots /\ Slots \in Nat
    BY Zenon, <1>1, SystemStays
  <1>3. /\ j \in 0 .. Slots /\ w.count \in Nat
        /\ w.steady \subseteq F /\ F \subseteq w.ever /\ w.ever \subseteq 0 .. Slots - 1
        /\ Cardinality(Below(w.steady, j)) <= w.count
        /\ w.count <= Cardinality(Below(w.ever, j))
    BY Zenon, <1>1 DEF GroupInv, FileWalk
  <1>4. IsWalk(w)
    BY Zenon DEF GroupInv, Groups
  <1>5. CASE j < Slots
    <2>1. Go(t, "files", val[t], [w EXCEPT !.at = j + 1, !.count = w.count + one])
      BY Zenon, <1>5 DEF WalkFiles
    <2>2. [w EXCEPT !.at = j + 1, !.count = w.count + one]
              = Walk(j + 1, w.count + one, w.tid, w.steady, w.ever, w.top)
      BY Zenon, <1>4, WalkChangedTwice
    <2>3. /\ pc'[t] = "files" /\ FilesAnswer(t) /\ StackAnswer(t)
          /\ walk'[t] = Walk(j + 1, w.count + one, w.tid, w.steady, w.ever, w.top)
      BY <2>1, <2>2, GoesOn DEF Labels
    <2>4. /\ walk'[t].at = j + 1 /\ walk'[t].count = w.count + one
          /\ walk'[t].steady = w.steady /\ walk'[t].ever = w.ever
      BY <2>3, WalkFields
    <2>5. j \in 0 .. Slots - 1 /\ j + 1 \in 0 .. Slots
      BY <1>2, <1>3, <1>5
    <2>6. /\ w.count + one \in Nat
          /\ Cardinality(Below(w.steady, j + 1)) <= w.count + one
          /\ w.count + one <= Cardinality(Below(w.ever, j + 1))
      <3>1. PICK k : k = w.count + (IF j \in F THEN 1 ELSE 0)
        BY Zenon
      <3> HIDE DEF w, j, F
      <3>2. FilesBefore(Slots, w.steady, F, w.ever, j, w.count)
        BY Zenon, <1>2, <1>3, <2>5 DEF FilesBefore
      <3>3. /\ k \in Nat
            /\ Cardinality(Below(w.steady, j + 1)) <= k
            /\ k <= Cardinality(Below(w.ever, j + 1))
        BY Zenon, <3>1, <3>2, CountSlot
      <3> QED BY <3>1, <3>3
    <2>7. FileWalk(t)'
      BY Zenon, <1>1, <1>2, <1>3, <2>3, <2>4, <2>5, <2>6 DEF FileWalk
    <2> QED BY Zenon, <2>3, <2>7 DEF StackWalk
  <1>6. CASE ~(j < Slots)
    <2>1. Return(t, Reply(SIZE, 6, w.count))
      BY Zenon, <1>6 DEF WalkFiles
    <2>2. pc'[t] = "user" /\ reply'[t] = Reply(SIZE, 6, w.count)
      BY Zenon, <2>1 DEF Return, ReadInv, Shape, TypeOK
    <2>3. reply'[t].question = 6 /\ reply'[t].answer = w.count
      BY <2>2 DEF Reply
    <2>4. Below(w.steady, j) = w.steady /\ Below(w.ever, j) = w.ever
      BY <1>2, <1>3, <1>6 DEF Below
    <2>5. FilesAnswer(t)
      BY Zenon, <1>3, <2>3, <2>4 DEF FilesAnswer, CountAnswer
    <2> QED BY <2>2, <2>3, <2>5 DEF FileWalk, StackWalk, StackAnswer
  <1> QED BY Zenon, <1>5, <1>6

\* One thread of a search for the largest stack.
LEMMA StacksWalk ==
    ASSUME ReadInv, GroupInv, NEW t \in Task, WalkStacks(t)
    PROVE  FileWalk(t)' /\ StackWalk(t)' /\ FilesAnswer(t) /\ StackAnswer(t)
  <1> DEFINE size == stack[Leader[t]]
             v == walk[t]
             w == IF size > v.count THEN [v EXCEPT !.count = size, !.tid = v.at] ELSE v
             n == IF size > v.count THEN size ELSE v.count
             m == IF size > v.count THEN v.at ELSE v.tid
  <1>1. /\ pc[t] = "stacks" /\ UNCHANGED <<sys, fd, stack>>
        /\ Go(t, "oops", 0, NoWalk) \/ Advance(t, 7, w.tid, w)
    BY Zenon DEF WalkStacks, Quiet, process
  <1>2. Leader' = Leader /\ Leader[t] \in Task
    BY Zenon, <1>1, SystemStays
  <1>3. /\ v.top \in Nat \ {0} /\ size >= v.top /\ size \in Nat \ {0}
        /\ size = v.top => (v.tid = t /\ v.count = v.top) \/ (v.at = t /\ v.count = 0)
    BY Zenon, <1>1, <1>2 DEF GroupInv, Groups, StackWalk
  <1>4. IsWalk(v)
    BY Zenon DEF GroupInv, Groups
  <1>5. /\ w = Walk(v.at, n, m, v.steady, v.ever, v.top)
        /\ IsWalk(w)
    <2>1. v = Walk(v.at, v.count, v.tid, v.steady, v.ever, v.top)
      BY Zenon, <1>4 DEF IsWalk
    <2>2. [v EXCEPT !.count = size, !.tid = v.at]
             = Walk(v.at, size, v.at, v.steady, v.ever, v.top)
      BY Zenon, <1>4, WalkChangedTwice
    <2>3. w = Walk(v.at, n, m, v.steady, v.ever, v.top)
      BY Zenon, <2>1, <2>2
    <2> HIDE DEF w, n, m
    <2> QED BY Zenon, <2>3, WalkFields
  <1>6. w.at = v.at /\ w.count = n /\ w.tid = m /\ w.top = v.top
    <2> HIDE DEF w, n, m
    <2> QED BY <1>5, WalkFields
  <1>7. size = v.top => m = t /\ n = v.top
    BY <1>3
  <1> HIDE DEF w, n, m
  <1>8. CASE Go(t, "oops", 0, NoWalk)
    BY Zenon, <1>8, GoesOn DEF Labels, FileWalk, StackWalk
  <1>9. CASE next[w.at] = t /\ Return(t, Reply(SIZE, 7, w.tid))
    <2>1. pc'[t] = "user" /\ reply'[t] = Reply(SIZE, 7, w.tid)
      BY Zenon, <1>9 DEF Return, ReadInv, Shape, TypeOK
    <2>2. reply'[t].question = 7 /\ reply'[t].answer = m
      BY <1>6, <2>1 DEF Reply
    <2>3. m = t \/ size > v.top
      BY <1>3, <1>7
    <2> QED BY <2>1, <2>2, <2>3 DEF FileWalk, StackWalk, FilesAnswer, StackAnswer
  <1>10. CASE Go(t, pc[t], val[t], [w EXCEPT !.at = next[w.at]])
    <2>1. [w EXCEPT !.at = next[w.at]] = Walk(next[w.at], n, m, w.steady, w.ever, v.top)
      BY <1>5, <1>6, WalkChanged
    <2>2. /\ pc'[t] = "stacks" /\ FilesAnswer(t) /\ StackAnswer(t)
          /\ walk'[t] = Walk(next[w.at], n, m, w.steady, w.ever, v.top)
      BY <1>1, <1>10, <2>1, GoesOn DEF Labels
    <2>3. walk'[t].count = n /\ walk'[t].tid = m /\ walk'[t].top = v.top
      BY <2>2, WalkFields
    <2>4. StackWalk(t)'
      BY Zenon, <1>1, <1>2, <1>3, <1>7, <2>2, <2>3 DEF StackWalk
    <2> QED BY Zenon, <2>2, <2>4 DEF FileWalk
  <1> QED BY Zenon, <1>1, <1>8, <1>9, <1>10 DEF Advance

\* More slots, more of them before slot j.
LEMMA BelowGrows ==
    ASSUME Counting, NEW N \in Nat, NEW S, NEW T, NEW j, S \subseteq T, T \subseteq 0 .. N - 1
    PROVE  /\ Cardinality(Below(S, j)) \in Nat /\ Cardinality(Below(T, j)) \in Nat
           /\ Cardinality(Below(S, j)) <= Cardinality(Below(T, j))
  <1>1. IsFiniteSet(0 .. N - 1)
    BY Zenon, FiniteSlots
  <1>2. Below(S, j) \subseteq Below(T, j) /\ Below(T, j) \subseteq 0 .. N - 1
    BY Zenon DEF Below
  <1>3. IsFiniteSet(Below(T, j))
    BY Zenon, <1>1, <1>2, FiniteSubset
  <1> QED BY Zenon, <1>2, <1>3, FiniteSubset

\* A new task.
LEMMA JoinGroups ==
    ASSUME Counting, ReadInv, GroupInv, NEW t \in Task, NEW u \in Task,
           Create(t, u) \/ Fork(t, u)
    PROVE  GroupInv'
  <1>1. /\ sys' = sys /\ changes' = changes + 1 /\ pc[t] = "user" /\ pc[u] = "none"
        /\ pc' = [pc EXCEPT ![u] = "user"]
        /\ listed' = listed \cup {u}
        /\ Leader[u] = Leader[t] \/ Leader[u] = u
    BY Zenon DEF Create, Fork, Join, Change
  <1>2. /\ Leader' = Leader /\ Slots' = Slots /\ Leader \in [Task -> Task]
        /\ \A x \in Task : Members(x)' = {y \in listed' : Leader[y] = Leader[x]}
    BY Zenon, <1>1, SystemStays
  <1> DEFINE lead == Leader[t]
  <1>3. lead \in Task /\ Leader[lead] = lead /\ pc[lead] # "none"
    BY Zenon, <1>1, <1>2 DEF GroupInv, Groups
  <1>4. /\ next' \in [Task -> Task] /\ changes' \in Nat
        /\ fd' \in [Task -> SUBSET (0 .. Slots - 1)]
        /\ stack' \in [Task -> Nat \ {0}]
    <2>1. /\ next \in [Task -> Task] /\ changes \in Nat
          /\ fd \in [Task -> SUBSET (0 .. Slots - 1)]
          /\ stack \in [Task -> Nat \ {0}]
      BY Zenon DEF GroupInv, Groups
    <2>2. CASE Create(t, u)
      <3>1. PICK l : next' = [next EXCEPT ![l] = u, ![u] = lead]
        BY Zenon, <2>2 DEF Create, Join
      <3>2. UNCHANGED <<fd, stack>>
        BY Zenon, <2>2 DEF Create
      <3> HIDE DEF lead
      <3> QED BY <1>1, <1>3, <2>1, <3>1, <3>2
    <2>3. CASE Fork(t, u)
      <3>1. fd[lead] \in SUBSET (0 .. Slots - 1) /\ stack[lead] \in Nat \ {0}
        BY Zenon, <1>3, <2>1
      <3>2. /\ fd' = [fd EXCEPT ![u] = fd[lead]] /\ stack' = [stack EXCEPT ![u] = stack[lead]]
            /\ next' = [next EXCEPT ![u] = u]
        BY Zenon, <2>3 DEF Fork, Join
      <3> HIDE DEF lead
      <3> QED BY <1>1, <2>1, <3>1, <3>2
    <2> QED BY Zenon, <2>2, <2>3
  <1>5. \A x \in Task : pc'[x] = IF x = u THEN "user" ELSE pc[x]
    BY Zenon, <1>1 DEF ReadInv, Shape, TypeOK
  <1>g. /\ listed = {x \in Task : pc[x] \notin {"none", "gone"}}
        /\ \A x \in Task : pc[x] # "none" =>
               Leader[x] \in Task /\ Leader[Leader[x]] = Leader[x] /\ pc[Leader[x]] # "none"
        /\ \A x \in Task : pc[x] \in {"exiting", "gone"} => x # Leader[x]
    BY Zenon, <1>2 DEF GroupInv, Groups
  <1>6. listed' = {x \in Task : pc'[x] \notin {"none", "gone"}}
    BY <1>1, <1>5, <1>g
  <1>7. \A x \in Task : pc'[x] # "none" =>
           Leader[Leader[x]] = Leader[x] /\ pc'[Leader[x]] # "none"
    BY <1>1, <1>3, <1>5, <1>g
  <1>8. \A x \in Task : pc'[x] \in {"exiting", "gone"} => x # Leader[x]
    BY Zenon, <1>5, <1>g
  <1>9. \A x \in Task : IsFiniteSet(Members(x)')
    <2> TAKE x \in Task
    <2>1. Members(x)' \subseteq Members(x) \cup {u}
      BY Zenon, <1>1, <1>2 DEF Members
    <2>2. IsFiniteSet(Members(x) \cup {u})
      BY Zenon, FiniteAdd DEF GroupInv, Groups
    <2> QED BY Zenon, <2>1, <2>2, FiniteSubset
  <1>10. \A x \in Task :
            \/ walk'[x] = walk[x]
            \/ /\ pc[x] \in {"threads", "stacks"}
               /\ walk'[x] = Walk(walk[x].at, walk[x].count, walk[x].tid, walk[x].steady,
                                  walk[x].ever \cup {u}, walk[x].top)
    BY Zenon DEF Create, Fork, Seen, Notice, Listers, Walkers
  <1>11. \A x \in Task :
            /\ IsWalk(walk'[x])
            /\ pc[x] = "files" => walk'[x] = walk[x]
            /\ walk'[x].at = walk[x].at /\ walk'[x].count = walk[x].count
            /\ walk'[x].tid = walk[x].tid /\ walk'[x].top = walk[x].top
    <2> TAKE x \in Task
    <2>1. CASE walk'[x] = walk[x]
      BY Zenon, <2>1 DEF GroupInv, Groups
    <2>2. CASE /\ pc[x] \in {"threads", "stacks"}
               /\ walk'[x] = Walk(walk[x].at, walk[x].count, walk[x].tid, walk[x].steady,
                                  walk[x].ever \cup {u}, walk[x].top)
      BY <2>2, WalkFields
    <2> QED BY Zenon, <1>10, <2>1, <2>2
  <1>12. \A x \in Task : pc[x] # "none" =>
            fd'[Leader[x]] = fd[Leader[x]] /\ stack'[Leader[x]] = stack[Leader[x]]
    <2>1. /\ \/ UNCHANGED <<fd, stack>>
             \/ fd' = [fd EXCEPT ![u] = fd[Leader[t]]]
                /\ stack' = [stack EXCEPT ![u] = stack[Leader[t]]]
      BY Zenon DEF Create, Fork
    <2>2. \A x \in Task : pc[x] # "none" => Leader[x] # u
      BY Zenon, <1>1, <1>g
    <2>3. DOMAIN fd = Task /\ DOMAIN stack = Task
      BY Zenon DEF GroupInv, Groups
    <2> QED BY Zenon, <1>g, <2>1, <2>2, <2>3
  <1>13. ASSUME NEW x \in Task PROVE FileWalk(x)' /\ StackWalk(x)'
    <2>1. FileWalk(x) /\ StackWalk(x)
      BY Zenon DEF GroupInv
    <2>2. pc'[x] \in {"files", "stacks"} => pc'[x] = pc[x]
      BY Zenon, <1>5
    <2>3. pc'[x] \in {"files", "stacks"} =>
             fd'[Leader[x]] = fd[Leader[x]] /\ stack'[Leader[x]] = stack[Leader[x]]
      BY Zenon, <1>12, <2>2
    <2>4. /\ pc'[x] = "files" => walk'[x] = walk[x]
          /\ walk'[x].at = walk[x].at /\ walk'[x].count = walk[x].count
          /\ walk'[x].tid = walk[x].tid /\ walk'[x].top = walk[x].top
      BY Zenon, <1>11, <2>2
    <2> QED BY Zenon, <1>2, <2>1, <2>2, <2>3, <2>4, WalkStays
  <1>14. Groups'
    BY Zenon, <1>2, <1>4, <1>6, <1>7, <1>8, <1>9, <1>11 DEF Groups
  <1> QED BY Zenon, <1>13, <1>14 DEF GroupInv

\* The end of a thread.
LEMMA ExitGroups ==
    ASSUME Counting, ReadInv, GroupInv, NEW t \in Task, DropMm(t) \/ Unlist(t)
    PROVE  GroupInv'
  <1>1. /\ UNCHANGED <<sys, fd, stack>> /\ changes' \in {changes, changes + 1}
        /\ \/ pc[t] = "user" /\ pc' = [pc EXCEPT ![t] = "exiting"] /\ listed' = listed
              /\ t # Leader[t]
           \/ pc[t] = "exiting" /\ pc' = [pc EXCEPT ![t] = "gone"] /\ listed' = listed \ {t}
    BY Zenon DEF DropMm, Unlist, Change
  <1>2. /\ Leader' = Leader /\ Slots' = Slots /\ Leader \in [Task -> Task]
        /\ \A x \in Task : Members(x)' = {y \in listed' : Leader[y] = Leader[x]}
    BY Zenon, <1>1, SystemStays
  <1>g. /\ listed = {x \in Task : pc[x] \notin {"none", "gone"}}
        /\ \A x \in Task : pc[x] # "none" =>
               Leader[x] \in Task /\ Leader[Leader[x]] = Leader[x] /\ pc[Leader[x]] # "none"
        /\ \A x \in Task : pc[x] \in {"exiting", "gone"} => x # Leader[x]
        /\ next \in [Task -> Task] /\ changes \in Nat
    BY Zenon, <1>2 DEF GroupInv, Groups
  <1>3. next' \in [Task -> Task] /\ changes' \in Nat
    <2>1. \/ next' = next
          \/ next' = [w \in Task |-> IF w \in listed /\ next[w] = t THEN next[t] ELSE next[w]]
      BY Zenon DEF DropMm, Unlist
    <2> QED BY <1>1, <1>g, <2>1
  <1>4. /\ pc'[t] \in {"exiting", "gone"} /\ t # Leader[t]
        /\ \A x \in Task \ {t} : pc'[x] = pc[x]
        /\ pc[t] \notin {"none", "gone"}
    <2>1. DOMAIN pc = Task
      BY Zenon DEF ReadInv, Shape, TypeOK
    <2> QED BY Zenon, <1>1, <1>g, <2>1
  <1>5. listed' = {x \in Task : pc'[x] \notin {"none", "gone"}}
    <2>1. CASE pc'[t] = "exiting" /\ listed' = listed
      BY Zenon, <1>4, <1>g, <2>1
    <2>2. CASE pc'[t] = "gone" /\ listed' = listed \ {t}
      BY <1>4, <1>g, <2>2
    <2> QED BY Zenon, <1>1, <2>1, <2>2 DEF ReadInv, Shape, TypeOK
  <1>6. \A x \in Task : pc'[x] # "none" =>
           Leader[Leader[x]] = Leader[x] /\ pc'[Leader[x]] # "none"
    BY Zenon, <1>4, <1>g
  <1>7. \A x \in Task : pc'[x] \in {"exiting", "gone"} => x # Leader[x]
    BY Zenon, <1>4, <1>g
  <1>8. \A x \in Task : IsFiniteSet(Members(x)')
    <2> TAKE x \in Task
    <2>1. Members(x)' \subseteq Members(x)
      BY Zenon, <1>1, <1>2 DEF Members
    <2> QED BY Zenon, <2>1, FiniteSubset DEF GroupInv, Groups
  <1>9. \A x \in Task :
            \/ walk'[x] = walk[x]
            \/ /\ pc[x] \in {"threads", "stacks"}
               /\ walk'[x] = [walk[x] EXCEPT !.steady = walk[x].steady \ {t}]
    BY Zenon DEF DropMm, Unlist, Unseen, Listers, Walkers
  <1>10. \A x \in Task :
            /\ IsWalk(walk'[x])
            /\ pc[x] = "files" => walk'[x] = walk[x]
            /\ walk'[x].at = walk[x].at /\ walk'[x].count = walk[x].count
            /\ walk'[x].tid = walk[x].tid /\ walk'[x].top = walk[x].top
    <2> TAKE x \in Task
    <2>1. IsWalk(walk[x])
      BY Zenon DEF GroupInv, Groups
    <2>2. CASE walk'[x] = walk[x]
      BY Zenon, <2>1, <2>2
    <2>3. CASE /\ pc[x] \in {"threads", "stacks"}
               /\ walk'[x] = [walk[x] EXCEPT !.steady = walk[x].steady \ {t}]
      <3>1. walk'[x] = Walk(walk[x].at, walk[x].count, walk[x].tid, walk[x].steady \ {t},
                            walk[x].ever, walk[x].top)
        BY Zenon, <2>1, <2>3, WalkChanged
      <3> QED BY <2>3, <3>1, WalkFields
    <2> QED BY Zenon, <1>9, <2>2, <2>3
  <1>11. ASSUME NEW x \in Task PROVE FileWalk(x)' /\ StackWalk(x)'
    <2>1. FileWalk(x) /\ StackWalk(x)
      BY Zenon DEF GroupInv
    <2>2. pc'[x] \in {"files", "stacks"} => pc'[x] = pc[x]
      BY Zenon, <1>4
    <2>3. /\ pc'[x] = "files" => walk'[x] = walk[x]
          /\ walk'[x].at = walk[x].at /\ walk'[x].count = walk[x].count
          /\ walk'[x].tid = walk[x].tid /\ walk'[x].top = walk[x].top
      BY Zenon, <1>10, <2>2
    <2> QED BY Zenon, <1>1, <1>2, <2>1, <2>2, <2>3, WalkStays
  <1>12. Groups'
    BY Zenon, <1>1, <1>2, <1>3, <1>5, <1>6, <1>7, <1>8, <1>10 DEF GroupInv, Groups
  <1> QED BY Zenon, <1>11, <1>12 DEF GroupInv

\* Files and stacks.
LEMMA FileGroups ==
    ASSUME Counting, ReadInv, GroupInv, NEW t \in Task,
           Open(t) \/ (\E s \in 0 .. Slots - 1 : Close(t, s)) \/ GrowStack(t) \/ Recycle(t)
    PROVE  GroupInv'
  <1>1. /\ UNCHANGED <<sys, pc, next, listed>> /\ changes' = changes + 1 /\ pc[t] = "user"
    BY Zenon DEF Open, Close, GrowStack, Recycle, Change
  <1>2. /\ Leader' = Leader /\ Slots' = Slots /\ Leader \in [Task -> Task]
        /\ Slots \in Nat /\ Slots >= 3
        /\ \A x \in Task : Members(x)' = Members(x)
    BY Zenon, <1>1, SystemStays DEF Members
  <1> DEFINE L == Leader[t]
  <1>3. /\ L \in Task /\ fd \in [Task -> SUBSET (0 .. Slots - 1)]
        /\ stack \in [Task -> Nat \ {0}] /\ changes \in Nat
        /\ \A x \in Task : IsWalk(walk[x]) /\ FileWalk(x) /\ StackWalk(x)
    BY Zenon, <1>2 DEF GroupInv, Groups
  <1>4. ASSUME fd' \in [Task -> SUBSET (0 .. Slots - 1)], stack' \in [Task -> Nat \ {0}],
               \A x \in Task : IsWalk(walk'[x])
        PROVE  Groups'
    <2>1. Groups /\ changes' \in Nat
      BY <1>1, <1>3 DEF GroupInv
    <2> QED BY Zenon, <1>1, <1>2, <1>4, <2>1, GroupsStay
  <1>5. CASE Open(t)
    <2>1. PICK s \in 0 .. Slots - 1 : /\ fd' = [fd EXCEPT ![L] = fd[L] \cup {s}]
                                      /\ Seen(Walkers(t, {"files"}), s)
      BY Zenon, <1>5 DEF Open
    <2>2. stack' = stack
      BY Zenon, <1>5 DEF Open
    <2>3. ASSUME NEW x \in Task PROVE IsWalk(walk'[x]) /\ FileWalk(x)' /\ StackWalk(x)'
      <3>1. CASE pc[x] = "files" /\ Leader[x] = L
        <4> DEFINE w == walk[x]
        <4>1. walk'[x] = Walk(w.at, w.count, w.tid, w.steady, w.ever \cup {s}, w.top)
          BY Zenon, <2>1, <3>1 DEF Seen, Notice, Walkers
        <4>2. /\ IsWalk(walk'[x]) /\ walk'[x].at = w.at /\ walk'[x].count = w.count
              /\ walk'[x].steady = w.steady /\ walk'[x].ever = w.ever \cup {s}
          BY <4>1, WalkFields
        <4>3. /\ w.at \in 0 .. Slots /\ w.count \in Nat
              /\ w.steady \subseteq fd[L] /\ fd[L] \subseteq w.ever
              /\ w.ever \subseteq 0 .. Slots - 1
              /\ Cardinality(Below(w.steady, w.at)) <= w.count
              /\ w.count <= Cardinality(Below(w.ever, w.at))
          BY Zenon, <1>3, <3>1 DEF FileWalk
        <4>4. fd'[L] = fd[L] \cup {s}
          BY Zenon, <1>3, <2>1
        <4> HIDE DEF w
        <4>5. /\ Cardinality(Below(w.ever, w.at)) \in Nat
              /\ Cardinality(Below(w.ever \cup {s}, w.at)) \in Nat
              /\ Cardinality(Below(w.ever, w.at)) <= Cardinality(Below(w.ever \cup {s}, w.at))
          <5>1. w.ever \subseteq w.ever \cup {s} /\ w.ever \cup {s} \subseteq 0 .. Slots - 1
            BY Zenon, <4>3
          <5> QED BY Zenon, <1>2, <5>1, BelowGrows
        <4>6. /\ w.steady \subseteq fd[L] \cup {s} /\ fd[L] \cup {s} \subseteq w.ever \cup {s}
              /\ w.ever \cup {s} \subseteq 0 .. Slots - 1
              /\ w.count <= Cardinality(Below(w.ever \cup {s}, w.at))
          BY <4>3, <4>5
        <4>7. FileWalk(x)'
          BY Zenon, <1>1, <1>2, <3>1, <4>2, <4>3, <4>4, <4>6 DEF FileWalk
        <4> QED BY Zenon, <1>1, <3>1, <4>2, <4>7 DEF StackWalk
      <3>2. CASE ~(pc[x] = "files" /\ Leader[x] = L)
        <4>1. walk'[x] = walk[x]
          BY Zenon, <2>1, <3>2 DEF Seen, Walkers
        <4>2. pc[x] = "files" => fd'[Leader[x]] = fd[Leader[x]]
          BY Zenon, <1>2, <1>3, <2>1, <3>2
        <4> QED BY Zenon, <1>1, <1>2, <1>3, <2>2, <4>1, <4>2, WalkStays
      <3> QED BY Zenon, <3>1, <3>2
    <2>4. fd' \in [Task -> SUBSET (0 .. Slots - 1)]
      BY Zenon, <1>3, <2>1
    <2> QED BY Zenon, <1>3, <1>4, <2>2, <2>3, <2>4 DEF GroupInv
  <1>6. CASE \E s \in 0 .. Slots - 1 : Close(t, s)
    <2>1. PICK s \in 0 .. Slots - 1 : Close(t, s)
      BY Zenon, <1>6
    <2>2. /\ fd' = [fd EXCEPT ![L] = fd[L] \ {s}] /\ Unseen(Walkers(t, {"files"}), s)
          /\ stack' = stack
      BY Zenon, <2>1 DEF Close
    <2>3. ASSUME NEW x \in Task PROVE IsWalk(walk'[x]) /\ FileWalk(x)' /\ StackWalk(x)'
      <3>1. CASE pc[x] = "files" /\ Leader[x] = L
        <4> DEFINE w == walk[x]
        <4>0. IsWalk(w)
          BY Zenon, <1>3
        <4>1. walk'[x] = [w EXCEPT !.steady = w.steady \ {s}]
          BY Zenon, <2>2, <3>1 DEF Unseen, Walkers
        <4>a. walk'[x] = Walk(w.at, w.count, w.tid, w.steady \ {s}, w.ever, w.top)
          BY Zenon, <4>0, <4>1, WalkChanged
        <4>2. /\ IsWalk(walk'[x]) /\ walk'[x].at = w.at /\ walk'[x].count = w.count
              /\ walk'[x].steady = w.steady \ {s} /\ walk'[x].ever = w.ever
          BY <4>a, WalkFields
        <4>3. /\ w.at \in 0 .. Slots /\ w.count \in Nat
              /\ w.steady \subseteq fd[L] /\ fd[L] \subseteq w.ever
              /\ w.ever \subseteq 0 .. Slots - 1
              /\ Cardinality(Below(w.steady, w.at)) <= w.count
              /\ w.count <= Cardinality(Below(w.ever, w.at))
          BY Zenon, <1>3, <3>1 DEF FileWalk
        <4>4. fd'[L] = fd[L] \ {s}
          BY Zenon, <1>3, <2>2
        <4> HIDE DEF w
        <4>5. /\ Cardinality(Below(w.steady, w.at)) \in Nat
              /\ Cardinality(Below(w.steady \ {s}, w.at)) \in Nat
              /\ Cardinality(Below(w.steady \ {s}, w.at)) <= Cardinality(Below(w.steady, w.at))
          <5>1. w.steady \ {s} \subseteq w.steady /\ w.steady \subseteq 0 .. Slots - 1
            BY Zenon, <4>3
          <5> QED BY Zenon, <1>2, <5>1, BelowGrows
        <4>6. /\ w.steady \ {s} \subseteq fd[L] \ {s} /\ fd[L] \ {s} \subseteq w.ever
              /\ Cardinality(Below(w.steady \ {s}, w.at)) <= w.count
          BY <4>3, <4>5
        <4>7. FileWalk(x)'
          BY Zenon, <1>1, <1>2, <3>1, <4>2, <4>3, <4>4, <4>6 DEF FileWalk
        <4> QED BY Zenon, <1>1, <3>1, <4>2, <4>7 DEF StackWalk
      <3>2. CASE ~(pc[x] = "files" /\ Leader[x] = L)
        <4>1. walk'[x] = walk[x]
          BY Zenon, <2>2, <3>2 DEF Unseen, Walkers
        <4>2. pc[x] = "files" => fd'[Leader[x]] = fd[Leader[x]]
          BY Zenon, <1>2, <1>3, <2>2, <3>2
        <4> QED BY Zenon, <1>1, <1>2, <1>3, <2>2, <4>1, <4>2, WalkStays
      <3> QED BY Zenon, <3>1, <3>2
    <2>4. fd' \in [Task -> SUBSET (0 .. Slots - 1)]
      BY Zenon, <1>3, <2>2
    <2> QED BY Zenon, <1>3, <1>4, <2>2, <2>3, <2>4 DEF GroupInv
  <1>7. CASE GrowStack(t)
    <2>1. stack' = [stack EXCEPT ![L] = stack[L] + 1] /\ UNCHANGED <<fd, walk>>
      BY Zenon, <1>7 DEF GrowStack
    <2>2. stack' \in [Task -> Nat \ {0}]
      BY <1>3, <2>1
    <2>3. \A x \in Task : stack'[x] = stack[x] \/ stack'[x] = stack[x] + 1
      BY Zenon, <1>3, <2>1
    <2>4. ASSUME NEW x \in Task PROVE FileWalk(x)' /\ StackWalk(x)'
      <3>1. Leader[x] \in Task /\ stack[Leader[x]] \in Nat
        BY Zenon, <1>2, <1>3
      <3>2. FileWalk(x)'
        BY Zenon, <1>1, <1>2, <1>3, <2>1 DEF FileWalk
      <3>3. StackWalk(x)'
        BY <1>1, <1>2, <1>3, <2>1, <2>3, <3>1 DEF StackWalk
      <3> QED BY Zenon, <3>2, <3>3
    <2> QED BY Zenon, <1>3, <1>4, <2>1, <2>2, <2>4 DEF GroupInv
  <1>8. CASE Recycle(t)
    <2>1. /\ fd' = [fd EXCEPT ![t] = {0, 1, 2}] /\ UNCHANGED <<stack, walk>>
          /\ Members(t) = {t} /\ t = L
      BY Zenon, <1>8 DEF Recycle
    <2>2. fd' \in [Task -> SUBSET (0 .. Slots - 1)]
      <3>1. {0, 1, 2} \in SUBSET (0 .. Slots - 1)
        BY <1>2
      <3> QED BY Zenon, <1>3, <2>1, <3>1
    <2>3. ASSUME NEW x \in Task PROVE FileWalk(x)' /\ StackWalk(x)'
      <3>1. pc[x] = "files" => Leader[x] # t
        <4> SUFFICES ASSUME pc[x] = "files", Leader[x] = t PROVE FALSE
          BY Zenon
        <4>1. x \in listed
          BY Zenon DEF GroupInv, Groups
        <4>2. x \in Members(t)
          BY Zenon, <2>1, <4>1 DEF Members
        <4> QED BY Zenon, <1>1, <2>1, <4>2
      <3>2. pc[x] = "files" => fd'[Leader[x]] = fd[Leader[x]]
        BY Zenon, <1>2, <1>3, <2>1, <3>1
      <3> QED BY Zenon, <1>1, <1>2, <1>3, <2>1, <3>2, WalkStays
    <2> QED BY Zenon, <1>3, <1>4, <2>1, <2>2, <2>3 DEF GroupInv
  <1> QED BY Zenon, <1>5, <1>6, <1>7, <1>8

\* Changes of processes leave the tasks that read where they are.
LEMMA ReadersStay ==
    ASSUME ReadInv, NEW t \in Task, Environment(t)
    PROVE  \A u \in Task : Inside(u) => pc'[u] = pc[u]
  BY Zenon DEF Environment, Create, Fork, Join, DropMm, Unlist, Open, Close, GrowStack,
     Recycle, Change, ReadInv, Shape, TypeOK, Inside

\* Every step keeps the processes and the walks, and answers as the properties
\* say of questions 6 and 7.
LEMMA NextKeepsGroups ==
    ASSUME Counting, ReadInv, GroupInv, Next
    PROVE  GroupInv' /\ \A t \in Task : FilesAnswer(t) /\ StackAnswer(t)
  <1>1. PICK t \in Task : Calls(t) \/ Reading(t) \/ Environment(t)
    BY Zenon DEF Next
  <1>2. ASSUME NEW u \in Task, Inside(u) => pc'[u] = pc[u]
        PROVE  FilesAnswer(u) /\ StackAnswer(u)
    BY Zenon, <1>2 DEF FilesAnswer, CountAnswer, StackAnswer, Returns, Inside
  <1>3. CASE Environment(t)
    BY Zenon, <1>2, <1>3, ReadersStay, JoinGroups, ExitGroups, FileGroups DEF Environment
  <1>4. ASSUME Calls(t) \/ Reading(t),
               FileWalk(t)' /\ StackWalk(t)' /\ FilesAnswer(t) /\ StackAnswer(t)
        PROVE  GroupInv' /\ \A u \in Task : FilesAnswer(u) /\ StackAnswer(u)
    <2>1. /\ Groups'
          /\ \A u \in Task \ {t} : FileWalk(u)' /\ StackWalk(u)'
      BY Zenon, <1>4, ReaderKeepsGroups
    <2>2. \A u \in Task \ {t} : pc'[u] = pc[u]
      BY Zenon, <1>4, ReaderStep DEF GroupInv
    <2> QED BY Zenon, <1>2, <1>4, <2>1, <2>2 DEF GroupInv
  <1>5. CASE Calls(t)
    <2>1. pc[t] = "user" /\ pc'[t] \in {"user", "compare", "switch"}
      BY Zenon, <1>5 DEF Calls, Store, Read, Return, Go, ReadInv, Shape, TypeOK
    <2>2. FileWalk(t)' /\ StackWalk(t)'
      BY Zenon, <2>1 DEF FileWalk, StackWalk
    <2> QED BY Zenon, <1>2, <1>4, <1>5, <2>1, <2>2 DEF Inside
  <1>6. CASE Compare(t)
    <2>1. Compared(t) /\ pc[t] = "compare" /\ NONE \notin {6, 7}
      BY <1>6, ThreadInfoAssumption DEF Compare, ReadInv, Local
    <2>2. val[t] \in 0 .. 4
      BY Zenon, <2>1 DEF Compared
    <2>3. CASE \E r, q, x : q \notin {6, 7} /\ Return(t, Reply(r, q, x))
      BY Zenon, <1>4, <1>6, <2>3, OtherAnswer DEF Reading
    <2>4. CASE Go(t, "compare", val[t] + 1, walk[t])
      <3>1. pc'[t] = "compare" /\ FilesAnswer(t) /\ StackAnswer(t)
        BY Zenon, <2>4, GoesOn DEF Labels
      <3> QED BY Zenon, <1>4, <1>6, <3>1 DEF Reading, FileWalk, StackWalk
    <2> QED BY <1>6, <2>1, <2>2, <2>3, <2>4 DEF Compare
  <1>7. CASE Switch(t)
    BY Zenon, <1>4, <1>7, SwitchWalks DEF Reading
  <1>8. CASE WalkThreads(t)
    <2>1. CASE \E x : Return(t, Reply(SIZE, 5, x))
      BY <1>4, <1>8, <2>1, OtherAnswer DEF Reading
    <2>2. CASE \E w : Go(t, "threads", val[t], w)
      BY Zenon, <1>4, <1>8, <2>2, GoesOn DEF Reading, FileWalk, StackWalk, Labels
    <2> QED BY Zenon, <1>8, <2>1, <2>2 DEF WalkThreads, Advance
  <1>9. CASE WalkFiles(t)
    BY Zenon, <1>4, <1>9, FilesWalk DEF Reading
  <1>10. CASE WalkStacks(t)
    BY Zenon, <1>4, <1>10, StacksWalk DEF Reading
  <1> QED BY Zenon, <1>1, <1>3, <1>5, <1>6, <1>7, <1>8, <1>9, <1>10 DEF Reading

\* Nothing happens.
LEMMA StutterGroups ==
    ASSUME ReadInv, GroupInv, UNCHANGED vars
    PROVE  GroupInv' /\ \A t \in Task : CountAnswer(t) /\ StackAnswer(t)
  <1>1. UNCHANGED <<sys, pc, val, walk, reply, next, listed, mm, fd, stack, changes>>
    BY Zenon DEF vars, locals, process
  <1>2. /\ Leader' = Leader /\ Slots' = Slots
        /\ \A x \in Task : Members(x)' = Members(x)
    BY Zenon, <1>1, SystemStays DEF Members
  <1>3. GroupInv'
    BY <1>1, <1>2 DEF GroupInv, Groups, FileWalk, StackWalk
  <1>4. \A t \in Task : CountAnswer(t) /\ StackAnswer(t)
    BY Zenon, <1>1 DEF CountAnswer, StackAnswer, Returns, Inside
  <1> QED BY Zenon, <1>3, <1>4

-----------------------------------------------------------------------------
\* Both only depend on the births of the tasks they are about.
LEMMA OrderAgrees ==
    ASSUME NEW b, NEW c, NEW lead, NEW x, NEW y, NEW t, NEW S,
           b[x] = c[x], b[y] = c[y], \A z \in S : b[z] = c[z]
    PROVE  /\ Link(b, lead, x, y, S) => Link(c, lead, x, y, S)
           /\ b[t] = c[t] => (Prec(b, t, x, y) <=> Prec(c, t, x, y))
  BY Zenon DEF Link, Prec

\* A link of a list is one of every part of it.
LEMMA LinkOfFewer ==
    ASSUME NEW b, NEW lead, NEW x, NEW y, NEW S, NEW R \in SUBSET S, Link(b, lead, x, y, S)
    PROVE  Link(b, lead, x, y, R)
  BY Zenon DEF Link

\* What links p to x and x to n links p to n once x has left.
LEMMA LinkWithout ==
    ASSUME NEW b \in [Task -> Nat], NEW lead \in Task, NEW S \in SUBSET Task,
           NEW p \in Task, NEW x \in Task, NEW n \in Task,
           x # lead, \A z \in S : b[z] = b[x] => z = x,
           Link(b, lead, p, x, S), Link(b, lead, x, n, S)
    PROVE  Link(b, lead, p, n, S \ {x})
  <1>1. b[p] < b[x] /\ \A z \in S : ~(b[p] < b[z] /\ b[z] < b[x])
    BY Zenon DEF Link
  <1>2. \A z \in S : b[z] \in Nat
    BY Zenon
  <1>3. CASE b[x] < b[n] /\ \A z \in S : ~(b[x] < b[z] /\ b[z] < b[n])
    BY <1>1, <1>2, <1>3 DEF Link
  <1>4. CASE n = lead /\ \A z \in S : b[z] <= b[x]
    BY <1>1, <1>2, <1>4 DEF Link
  <1> QED BY Zenon, <1>3, <1>4 DEF Link

\* A task that is born after all others changes the link from the last one only.
LEMMA LinkWithMore ==
    ASSUME NEW b \in [Task -> Nat], NEW lead \in Task, NEW S \in SUBSET Task,
           NEW x \in Task, NEW y \in Task, NEW u \in Task, NEW l \in S,
           b[y] < b[u], b[x] < b[l], Link(b, lead, x, y, S)
    PROVE  Link(b, lead, x, y, S \cup {u})
  <1>1. \A z \in S : b[z] \in Nat
    BY Zenon
  <1> QED BY <1>1 DEF Link

\* The order of a walk is transitive and nothing comes before itself.
LEMMA PrecIsOrder ==
    ASSUME NEW b \in [Task -> Nat], NEW t \in Task
    PROVE  /\ \A x \in Task : ~Prec(b, t, x, x) /\ ~Prec(b, t, x, t)
           /\ \A x, y, z \in Task :
                 Prec(b, t, x, y) /\ Prec(b, t, y, z) => Prec(b, t, x, z)
  BY DEF Prec

\* A walk at x has counted n entries, no fewer than those of S and no more than
\* those of E that come before x; when the next entry is y, n + 1 is right for
\* it, and for all of S and E when the walk is back at t.
LEMMA CountOneMore ==
    ASSUME Counting, NEW b \in [Task -> Nat], NEW lead \in Task, NEW S \in SUBSET Task,
           NEW E \in SUBSET Task, IsFiniteSet(E), S \subseteq E,
           NEW t \in S, NEW x \in E, NEW y \in E,
           \A z \in E : b[lead] <= b[z],
           \A z \in E : \A w \in E : b[z] = b[w] => z = w,
           t # lead => b[lead] < b[t],
           Link(b, lead, x, y, S),
           NEW n \in Nat,
           Cardinality(Met(b, t, S, x)) <= n, n <= Cardinality(Met(b, t, E, x))
    PROVE  /\ y = t => Cardinality(S) <= n + 1 /\ n + 1 <= Cardinality(E)
           /\ y # t => /\ Cardinality(Met(b, t, S, y)) <= n + 1
                       /\ n + 1 <= Cardinality(Met(b, t, E, y))
  <1> USE DEF Met
  <1>1. /\ y = t => \A z \in S : Prec(b, t, z, x) \/ b[z] = b[x]
        /\ y # t => /\ Prec(b, t, x, y)
                    /\ \A z \in S : Prec(b, t, z, y) => Prec(b, t, z, x) \/ b[z] = b[x]
    <2>1. /\ \A z \in S : b[z] \in Nat /\ b[lead] <= b[z]
          /\ b[x] \in Nat /\ b[y] \in Nat /\ b[t] \in Nat /\ b[lead] \in Nat
          /\ b[y] = b[t] => y = t
      BY Zenon
    <2>2. CASE b[x] < b[y] /\ \A z \in S : ~(b[x] < b[z] /\ b[z] < b[y])
      <3>1. b[x] < b[t] => b[y] <= b[t]
        BY <2>1, <2>2
      <3> QED BY <2>1, <2>2, <3>1 DEF Prec
    <2>3. CASE y = lead /\ \A z \in S : b[z] <= b[x]
      <3>1. b[t] <= b[x]
        BY Zenon, <2>3
      <3> QED BY <2>1, <2>3, <3>1 DEF Prec
    <2> QED BY Zenon, <2>2, <2>3 DEF Link
  <1> DEFINE SB == Met(b, t, S, x)
             EB == Met(b, t, E, x)
             SA == Met(b, t, S, y)
             EA == Met(b, t, E, y)
  <1>2. x \notin EB
    BY Zenon, PrecIsOrder
  <1>3. /\ IsFiniteSet(SB) /\ IsFiniteSet(EB) /\ IsFiniteSet(SA) /\ IsFiniteSet(EA)
        /\ IsFiniteSet(S)
    <2>1. S \subseteq E /\ SB \subseteq E /\ EB \subseteq E /\ SA \subseteq E /\ EA \subseteq E
      BY Zenon
    <2> HIDE DEF SB, EB, SA, EA
    <2> QED BY Zenon, <2>1, FiniteSubset
  <1>4. y = t => S \subseteq SB \cup {x}
    BY Zenon, <1>1
  <1>5. y # t => SA \subseteq SB \cup {x}
    BY Zenon, <1>1
  <1>6. EB \cup {x} \subseteq E
    BY Zenon
  <1>7. y # t => EB \cup {x} \subseteq EA
    BY Zenon, <1>1, PrecIsOrder
  <1>8. Cardinality(SB) <= n /\ n <= Cardinality(EB)
    BY Zenon
  <1> HIDE DEF SB, EB, SA, EA
  <1>9. Cardinality(SB) \in Nat /\ Cardinality(EB) \in Nat
    BY Zenon, <1>3, FiniteSubset
  <1>10. /\ IsFiniteSet(SB \cup {x}) /\ Cardinality(SB \cup {x}) \in Nat
         /\ Cardinality(SB \cup {x}) <= n + 1
    <2>1. Cardinality(SB \cup {x}) \in {Cardinality(SB), Cardinality(SB) + 1}
      BY Zenon, <1>3, FiniteAdd
    <2>2. IsFiniteSet(SB \cup {x})
      BY Zenon, <1>3, FiniteAdd
    <2> QED BY <1>8, <1>9, <2>1, <2>2
  <1>11. IsFiniteSet(EB \cup {x}) /\ Cardinality(EB \cup {x}) = Cardinality(EB) + 1
    BY Zenon, <1>2, <1>3, FiniteAdd
  <1>12. \A F, G : IsFiniteSet(G) /\ F \subseteq G =>
            Cardinality(F) \in Nat /\ Cardinality(G) \in Nat
            /\ Cardinality(F) <= Cardinality(G)
    BY Zenon, FiniteSubset
  <1>13. y = t => Cardinality(S) <= n + 1 /\ n + 1 <= Cardinality(E)
    <2> SUFFICES ASSUME y = t PROVE Cardinality(S) <= n + 1 /\ n + 1 <= Cardinality(E)
      BY Zenon
    <2>1. Cardinality(S) \in Nat /\ Cardinality(S) <= Cardinality(SB \cup {x})
      BY Zenon, <1>4, <1>10, <1>12
    <2>2. Cardinality(E) \in Nat /\ Cardinality(EB) + 1 <= Cardinality(E)
      BY <1>6, <1>11, <1>12
    <2> QED BY <1>8, <1>9, <1>10, <2>1, <2>2
  <1>14. y # t => Cardinality(SA) <= n + 1 /\ n + 1 <= Cardinality(EA)
    <2> SUFFICES ASSUME y # t PROVE Cardinality(SA) <= n + 1 /\ n + 1 <= Cardinality(EA)
      BY Zenon
    <2>1. Cardinality(SA) \in Nat /\ Cardinality(SA) <= Cardinality(SB \cup {x})
      BY Zenon, <1>5, <1>10, <1>12
    <2>2. Cardinality(EA) \in Nat /\ Cardinality(EB) + 1 <= Cardinality(EA)
      BY <1>3, <1>7, <1>11, <1>12
    <2> QED BY <1>8, <1>9, <1>10, <2>1, <2>2
  <1> QED BY Zenon, <1>13, <1>14 DEF SA, EA

-----------------------------------------------------------------------------
(* The lists under a count of threads.                                     *)

\* At the start every list has one task.
LEMMA InitOrder == Init => \E b \in [Task -> Nat] : Order(b)
  <1> SUFFICES ASSUME Init PROVE \E b \in [Task -> Nat] : Order(b)
    BY Zenon
  <1>1. /\ First \subseteq {t \in Task : Leader[t] = t} /\ Leader \in [Task -> Task]
        /\ listed = First /\ changes = 0
        /\ \A t \in Task : next[t] = t /\ pc[t] = IF t \in First THEN "user" ELSE "none"
    BY Zenon, ThreadInfoAssumption DEF Init, First, Leader
  <1> DEFINE b == [t \in Task |-> 0]
  <1>2. b \in [Task -> Nat] /\ \A x \in Task : b[x] = 0
    BY Zenon
  <1> HIDE DEF b
  <1>3. Born(b)
    BY <1>1, <1>2 DEF Born
  <1>4. \A x \in listed : x \in Members(x) /\ \A z \in Members(x) : z \in Task
    BY Zenon, <1>1 DEF Members
  <1>5. Ring(b)
    BY <1>1, <1>2, <1>4 DEF Ring, Link
  <1>6. \A t \in Task : ThreadWalk(b, t)
    BY Zenon, <1>1 DEF ThreadWalk
  <1> QED BY Zenon, <1>2, <1>3, <1>5, <1>6 DEF Order

\* A step that changes no list keeps the order, and a walk it does not touch.
LEMMA OrderStays ==
    ASSUME ReadInv, GroupInv, NEW b \in [Task -> Nat], Order(b),
           UNCHANGED <<sys, next, listed>>, changes' \in Nat, changes' >= changes,
           \A x \in Task : pc'[x] = "none" <=> pc[x] = "none"
    PROVE  /\ Born(b)' /\ Ring(b)'
           /\ \A t \in Task : (pc'[t] = "threads" => pc[t] = "threads" /\ walk'[t] = walk[t])
                                 => ThreadWalk(b, t)'
  <1>1. /\ Leader' = Leader /\ Leader \in [Task -> Task]
        /\ \A x \in Task : Members(x)' = Members(x)
    BY Zenon, SystemStays DEF Members
  <1>2. changes \in Nat /\ listed \subseteq Task
    BY Zenon DEF GroupInv, Groups
  <1>3. Born(b)'
    <2>1. ASSUME NEW x \in Task, pc'[x] # "none"
          PROVE  /\ b[x] <= changes'
                 /\ x # Leader[x] => b[Leader[x]] < b[x]
                 /\ \A y \in Task : pc'[y] # "none" /\ Leader[y] = Leader[x] /\ b[y] = b[x]
                                       => y = x
      <3>1. b[x] <= changes /\ b[x] \in Nat /\ pc[x] # "none"
        BY Zenon, <2>1 DEF Order, Born
      <3>2. b[x] <= changes'
        BY <1>2, <3>1
      <3> QED BY Zenon, <3>1, <3>2 DEF Order, Born
    <2> QED BY Zenon, <1>1, <2>1 DEF Born
  <1>4. Ring(b)'
    BY Zenon, <1>1, <1>2 DEF Order, Ring
  <1>5. ASSUME NEW t \in Task, pc'[t] = "threads" => pc[t] = "threads" /\ walk'[t] = walk[t]
        PROVE  ThreadWalk(b, t)'
    <2>1. ThreadWalk(b, t)
      BY Zenon DEF Order
    <2> QED BY Zenon, <1>1, <1>5, <2>1 DEF ThreadWalk
  <1> QED BY Zenon, <1>3, <1>4, <1>5

\* A read that goes on elsewhere than in a count of threads, or returns without one.
LEMMA NoCount ==
    ASSUME ReadInv, NEW b, NEW t \in Task,
           \/ \E r, q, x : q # 5 /\ Return(t, Reply(r, q, x))
           \/ \E l \in Labels \ {"user", "threads"} : \E v, w : Go(t, l, v, w)
    PROVE  ThreadWalk(b, t)' /\ ThreadsAnswer(t)
  <1>1. CASE \E r, q, x : q # 5 /\ Return(t, Reply(r, q, x))
    <2>1. PICK r, q, x : q # 5 /\ Return(t, Reply(r, q, x))
      BY Zenon, <1>1
    <2>2. pc'[t] = "user" /\ reply'[t] = Reply(r, q, x)
      BY Zenon, <2>1 DEF Return, ReadInv, Shape, TypeOK
    <2>3. reply'[t].question = q
      BY <2>2 DEF Reply
    <2> QED BY Zenon, <2>1, <2>2, <2>3 DEF ThreadWalk, ThreadsAnswer
  <1>2. CASE \E l \in Labels \ {"user", "threads"} : \E v, w : Go(t, l, v, w)
    <2>1. PICK l \in Labels \ {"user", "threads"} : pc'[t] = l
      BY Zenon, <1>2 DEF Go, ReadInv, Shape, TypeOK
    <2> QED BY Zenon, <2>1 DEF ThreadWalk, ThreadsAnswer, CountAnswer, Returns
  <1> QED BY Zenon, <1>1, <1>2

\* Where a count of threads begins.
LEMMA SwitchCounts ==
    ASSUME Counting, ReadInv, GroupInv, NEW b \in [Task -> Nat], Order(b),
           NEW t \in Task, Switch(t)
    PROVE  ThreadWalk(b, t)' /\ ThreadsAnswer(t)
  <1> DEFINE q == val[t]
             M == Members(t)
  <1>1. /\ pc[t] = "switch" /\ q \in Int /\ NONE # 5
        /\ UNCHANGED <<sys, listed, next>>
    BY ThreadInfoAssumption DEF Switch, Quiet, process, ReadInv, Shape, TypeOK
  <1>2. /\ Leader' = Leader /\ Leader \in [Task -> Task] /\ Members(t)' = M
    BY Zenon, <1>1, SystemStays DEF Members
  <1>3. \/ \E r, p, x : p # 5 /\ Return(t, Reply(r, p, x))
        \/ Go(t, "threads", q, Walk(t, 0, NONE, M, M, 0))
        \/ \E w : Go(t, "files", q, w)
        \/ \E w : Go(t, "stacks", q, w)
    BY <1>1 DEF Switch
  <1>4. CASE \E r, p, x : p # 5 /\ Return(t, Reply(r, p, x))
    BY Zenon, <1>4, NoCount
  <1>5. CASE (\E w : Go(t, "files", q, w)) \/ (\E w : Go(t, "stacks", q, w))
    BY Zenon, <1>5, NoCount DEF Labels
  <1>6. CASE Go(t, "threads", q, Walk(t, 0, NONE, M, M, 0))
    <2> HIDE DEF M
    <2>1. pc'[t] = "threads" /\ walk'[t] = Walk(t, 0, NONE, M, M, 0)
      BY <1>6, GoesOn DEF Labels
    <2>2. /\ walk'[t].at = t /\ walk'[t].count = 0 /\ walk'[t].steady = M
          /\ walk'[t].ever = M
      BY <2>1, WalkFields
    <2>3. /\ t \in M /\ IsFiniteSet(M) /\ M \subseteq listed /\ M \subseteq Task
          /\ \A x \in M : pc[x] # "none" /\ Leader[x] = Leader[t]
      BY Zenon, <1>1 DEF GroupInv, Groups, Members, M
    <2>4. \A x \in M : pc'[x] # "none"
      BY Zenon, <1>6, <2>3 DEF Go, ReadInv, Shape, TypeOK
    <2>5. Met(b, t, M, t) = {}
      BY Zenon, <2>3, PrecIsOrder DEF Met
    <2>6. Cardinality(Met(b, t, M, t)) = 0
      BY Zenon, <2>5 DEF Counting
    <2>7. ThreadWalk(b, t)'
      BY <1>1, <1>2, <2>1, <2>2, <2>3, <2>4, <2>6 DEF ThreadWalk
    <2> QED BY Zenon, <2>1, <2>7 DEF ThreadsAnswer, CountAnswer, Returns
  <1> QED BY Zenon, <1>3, <1>4, <1>5, <1>6

\* One thread of a count of them: the entry after it, whether or not it is still
\* listed, leaves out none that are listed throughout.
LEMMA ThreadsWalk ==
    ASSUME Counting, ReadInv, GroupInv, NEW b \in [Task -> Nat], Order(b), NEW t \in Task,
           WalkThreads(t)
    PROVE  ThreadWalk(b, t)' /\ ThreadsAnswer(t)
  <1> DEFINE v == walk[t]
             w == [v EXCEPT !.count = v.count + 1]
             L == Leader[t]
             S == v.steady
             E == v.ever
             n == v.count
             x == v.at
             y == next[x]
  <1>1. /\ pc[t] = "threads" /\ UNCHANGED <<sys, listed, next>>
        /\ Advance(t, 5, w.count, w)
    BY Zenon DEF WalkThreads, Quiet, process
  <1>2. /\ Leader' = Leader /\ Leader \in [Task -> Task] /\ Members(t)' = Members(t)
    BY Zenon, <1>1, SystemStays DEF Members
  <1>3. /\ x \in E /\ n \in Nat /\ IsFiniteSet(E)
        /\ \A z \in E : z \in Task /\ pc[z] # "none" /\ Leader[z] = L
        /\ S \subseteq Members(t) /\ Members(t) \subseteq E /\ t \in S
        /\ \A z \in E \ listed : next[z] \in E /\ Link(b, L, z, next[z], S)
        /\ Cardinality(Met(b, t, S, x)) <= n /\ n <= Cardinality(Met(b, t, E, x))
    BY Zenon, <1>1 DEF Order, ThreadWalk
  <1>4. IsWalk(v) /\ w = Walk(x, n + 1, v.tid, S, E, v.top)
    BY Zenon, WalkChanged DEF GroupInv, Groups
  <1>5. /\ w.at = x /\ w.count = n + 1 /\ w.tid = v.tid /\ w.steady = S /\ w.ever = E
        /\ w.top = v.top /\ IsWalk(w)
    <2> HIDE DEF w
    <2> QED BY <1>4, WalkFields
  <1>6. y \in E /\ Link(b, L, x, y, S)
    <2>1. CASE x \notin listed
      BY Zenon, <1>3, <2>1
    <2>2. CASE x \in listed
      <3>1. Members(x) = Members(t)
        BY Zenon, <1>3 DEF Members
      <3>2. y \in Members(t) /\ Link(b, L, x, y, Members(t))
        BY Zenon, <1>3, <2>2, <3>1 DEF Order, Ring
      <3> HIDE DEF L, S, E, x, y
      <3>3. S \in SUBSET Members(t)
        BY Zenon, <1>3
      <3>4. Link(b, L, x, y, S)
        BY Zenon, <3>2, <3>3, LinkOfFewer
      <3> QED BY Zenon, <1>3, <3>2, <3>4
    <2> QED BY Zenon, <2>1, <2>2
  <1>7. /\ L \in Task /\ S \in SUBSET Task /\ E \in SUBSET Task /\ S \subseteq E
        /\ t \in S /\ x \in E /\ y \in E
    BY Zenon, <1>2, <1>3, <1>6
  <1>8. /\ \A z \in E : b[L] <= b[z]
        /\ \A z \in E : \A a \in E : b[z] = b[a] => z = a
        /\ t # L => b[L] < b[t]
    <2>1. \A z \in E : b[z] \in Nat /\ (z # L => b[L] < b[z])
      BY Zenon, <1>3 DEF Order, Born
    <2>2. \A z \in E : b[L] <= b[z]
      BY <1>7, <2>1
    <2>3. \A z \in E : \A a \in E : b[z] = b[a] => z = a
      BY Zenon, <1>3 DEF Order, Born
    <2> QED BY Zenon, <1>7, <2>1, <2>2, <2>3
  <1>9. /\ y = t => Cardinality(S) <= n + 1 /\ n + 1 <= Cardinality(E)
        /\ y # t => /\ Cardinality(Met(b, t, S, y)) <= n + 1
                    /\ n + 1 <= Cardinality(Met(b, t, E, y))
    <2> HIDE DEF L, S, E, x, y, n
    <2> QED BY Zenon, <1>3, <1>6, <1>7, <1>8, CountOneMore
  <1>10. CASE y = t
    <2>1. Return(t, Reply(SIZE, 5, n + 1))
      <3> HIDE DEF w
      <3> QED BY Zenon, <1>1, <1>5, <1>10 DEF Advance
    <2>2. pc'[t] = "user" /\ reply'[t] = Reply(SIZE, 5, n + 1)
      BY Zenon, <2>1 DEF Return, ReadInv, Shape, TypeOK
    <2>3. reply'[t].answer = n + 1
      BY <2>2 DEF Reply
    <2>4. CountAnswer(t)
      BY Zenon, <1>9, <1>10, <2>3 DEF CountAnswer
    <2> QED BY Zenon, <2>2, <2>4 DEF ThreadWalk, ThreadsAnswer
  <1>11. CASE y # t
    <2>1. Go(t, "threads", val[t], [w EXCEPT !.at = y])
      <3> HIDE DEF w
      <3> QED BY Zenon, <1>1, <1>5, <1>11 DEF Advance
    <2>2. [w EXCEPT !.at = y] = Walk(y, n + 1, v.tid, S, E, v.top)
      <3> HIDE DEF w
      <3> QED BY <1>5, WalkChanged
    <2>3. pc'[t] = "threads" /\ walk'[t] = Walk(y, n + 1, v.tid, S, E, v.top)
      BY <2>1, <2>2, GoesOn DEF Labels
    <2>4. /\ walk'[t].at = y /\ walk'[t].count = n + 1 /\ walk'[t].steady = S
          /\ walk'[t].ever = E
      BY <2>3, WalkFields
    <2>5. \A z \in Task : pc'[z] = pc[z]
      BY Zenon, <1>1, <2>1 DEF Go, ReadInv, Shape, TypeOK
    <2>6. n + 1 \in Nat
      BY <1>3
    <2> HIDE DEF S, E, n, x, y, L
    <2>7. ThreadWalk(b, t)'
      BY Zenon, <1>1, <1>2, <1>3, <1>6, <1>9, <1>11, <2>3, <2>4, <2>5, <2>6 DEF ThreadWalk, L
    <2> QED BY Zenon, <2>3, <2>7 DEF ThreadsAnswer, CountAnswer, Returns
  <1> QED BY Zenon, <1>10, <1>11

\* More entries, more of them met.
LEMMA MetGrows ==
    ASSUME Counting, NEW b, NEW t, NEW x, NEW S, NEW T, S \subseteq T, IsFiniteSet(T)
    PROVE  /\ Cardinality(Met(b, t, S, x)) \in Nat /\ Cardinality(Met(b, t, T, x)) \in Nat
           /\ Cardinality(Met(b, t, S, x)) <= Cardinality(Met(b, t, T, x))
  <1>1. Met(b, t, S, x) \subseteq Met(b, t, T, x) /\ Met(b, t, T, x) \subseteq T
    BY Zenon DEF Met
  <1>2. IsFiniteSet(Met(b, t, T, x))
    BY Zenon, <1>1, FiniteSubset
  <1> QED BY Zenon, <1>1, <1>2, FiniteSubset

\* A task that leaves takes itself out of the ring and still points into it.
LEMMA UnlistOrder ==
    ASSUME Counting, ReadInv, GroupInv, NEW b \in [Task -> Nat], Order(b),
           NEW u \in Task, Unlist(u)
    PROVE  Order(b)'
  <1>1. /\ pc[u] = "exiting" /\ UNCHANGED <<sys, changes>>
        /\ pc' = [pc EXCEPT ![u] = "gone"]
        /\ next' = [w \in Task |-> IF w \in listed /\ next[w] = u THEN next[u] ELSE next[w]]
        /\ listed' = listed \ {u}
        /\ Unseen(Listers(u), u)
    BY Zenon DEF Unlist
  <1>2. /\ Leader' = Leader /\ Leader \in [Task -> Task]
        /\ \A x \in Task : Members(x)' = {y \in listed' : Leader[y] = Leader[x]}
    BY Zenon, <1>1, SystemStays
  <1>3. /\ listed \subseteq Task /\ u \in listed /\ u # Leader[u]
        /\ next \in [Task -> Task]
        /\ \A x \in listed : pc[x] # "none"
    BY Zenon, <1>1 DEF GroupInv, Groups
  <1>4. \A x \in Task : pc'[x] = IF x = u THEN "gone" ELSE pc[x]
    BY Zenon, <1>1 DEF ReadInv, Shape, TypeOK
  <1>5. Born(b)'
    BY <1>1, <1>2, <1>4 DEF Order, Born
  <1>6. /\ next[u] \in Members(u) /\ Link(b, Leader[u], u, next[u], Members(u))
        /\ \A x \in Task : Members(x) \subseteq Task
    BY Zenon, <1>3 DEF Order, Ring, Members
  <1>7. next[u] # u /\ next[u] \in listed /\ Leader[next[u]] = Leader[u]
    <2>1. b[u] \in Nat
      BY Zenon
    <2> QED BY Zenon, <1>3, <1>6, <2>1 DEF Link, Members
  <1>8. \A x \in Task : Members(x)' = Members(x) \ {u}
    BY Zenon, <1>1, <1>2 DEF Members
  <1>9. Ring(b)'
    <2>1. ASSUME NEW x \in listed, x # u
          PROVE  next'[x] \in Members(x) \ {u}
                 /\ Link(b, Leader[x], x, next'[x], Members(x) \ {u})
      <3>1. x \in Task /\ next[x] \in Members(x) /\ Link(b, Leader[x], x, next[x], Members(x))
        BY Zenon, <1>3 DEF Order, Ring
      <3>2. CASE next[x] = u
        <4>1. next'[x] = next[u]
          BY Zenon, <1>1, <3>1, <3>2
        <4>2. Leader[x] = Leader[u] /\ Members(x) = Members(u)
          BY Zenon, <3>1, <3>2 DEF Members
        <4>3. \A z \in Members(u) : b[z] = b[u] => z = u
          BY Zenon, <1>3 DEF Members, Order, Born
        <4>4. /\ Leader[u] \in Task /\ Members(u) \in SUBSET Task /\ next[u] \in Task
              /\ Link(b, Leader[u], x, u, Members(u))
          BY Zenon, <1>2, <1>3, <1>6, <3>1, <3>2, <4>2
        <4>5. Link(b, Leader[u], x, next[u], Members(u) \ {u})
          BY Zenon, <1>3, <1>6, <3>1, <4>3, <4>4, LinkWithout
        <4> QED BY Zenon, <1>6, <1>7, <4>1, <4>2, <4>5
      <3>3. CASE next[x] # u
        <4>1. next'[x] = next[x]
          BY Zenon, <1>1, <3>1, <3>3
        <4>2. Members(x) \ {u} \in SUBSET Members(x)
          BY Zenon
        <4>3. Link(b, Leader[x], x, next[x], Members(x) \ {u})
          BY Zenon, <3>1, <4>2, LinkOfFewer
        <4> QED BY Zenon, <3>1, <3>3, <4>1, <4>3
      <3> QED BY Zenon, <3>2, <3>3
    <2>2. ASSUME NEW x \in listed, x # u
          PROVE  \E p \in listed \ {u} : next'[p] = x
      <3>1. PICK p \in listed : next[p] = x
        BY Zenon DEF Order, Ring
      <3>2. PICK q \in listed : next[q] = u
        BY Zenon, <1>3 DEF Order, Ring
      <3>3. CASE p = u
        BY Zenon, <1>1, <1>3, <1>7, <3>1, <3>2, <3>3
      <3>4. CASE p # u
        BY Zenon, <1>1, <1>3, <2>2, <3>1, <3>4
      <3> QED BY Zenon, <3>3, <3>4
    <2>3. ASSUME NEW x \in listed'
          PROVE  /\ next'[x] \in Members(x)'
                 /\ Link(b, Leader'[x], x, next'[x], Members(x)')
                 /\ \E p \in listed' : next'[p] = x
      <3>1. x \in listed /\ x # u /\ x \in Task
        BY Zenon, <1>1, <1>3
      <3>2. Members(x)' = Members(x) \ {u} /\ Leader'[x] = Leader[x]
        BY Zenon, <1>2, <1>8, <3>1
      <3>3. /\ next'[x] \in Members(x) \ {u}
            /\ Link(b, Leader[x], x, next'[x], Members(x) \ {u})
        BY Zenon, <2>1, <3>1
      <3>4. \E p \in listed' : next'[p] = x
        BY Zenon, <1>1, <2>2, <3>1
      <3> QED BY Zenon, <3>2, <3>3, <3>4
    <2> QED BY Zenon, <2>3 DEF Ring
  <1>10. ASSUME NEW t \in Task PROVE ThreadWalk(b, t)'
    <2> SUFFICES ASSUME pc'[t] = "threads" PROVE ThreadWalk(b, t)'
      BY Zenon DEF ThreadWalk
    <2> DEFINE v == walk[t]
    <2>1. pc[t] = "threads" /\ t # u
      BY <1>1, <1>4
    <2>2. /\ v.at \in v.ever /\ v.count \in Nat /\ IsFiniteSet(v.ever)
          /\ \A x \in v.ever : x \in Task /\ pc[x] # "none" /\ Leader[x] = Leader[t]
          /\ v.steady \subseteq Members(t) /\ Members(t) \subseteq v.ever /\ t \in v.steady
          /\ \A x \in v.ever \ listed :
                 next[x] \in v.ever /\ Link(b, Leader[t], x, next[x], v.steady)
          /\ Cardinality(Met(b, t, v.steady, v.at)) <= v.count
          /\ v.count <= Cardinality(Met(b, t, v.ever, v.at))
      BY Zenon, <2>1 DEF Order, ThreadWalk
    <2>3. \A x \in v.ever : pc'[x] # "none"
      BY Zenon, <1>4, <2>2
    <2>4. \A x \in v.ever \ listed : next'[x] = next[x]
      BY Zenon, <1>1, <2>2
    <2>5. CASE Leader[u] = Leader[t]
      <3>1. walk'[t] = [v EXCEPT !.steady = v.steady \ {u}]
        BY Zenon, <1>1, <2>1, <2>5 DEF Unseen, Listers, Walkers
      <3>2. IsWalk(v)
        BY Zenon DEF GroupInv, Groups
      <3>3. walk'[t] = Walk(v.at, v.count, v.tid, v.steady \ {u}, v.ever, v.top)
        BY Zenon, <3>1, <3>2, WalkChanged
      <3>4. /\ walk'[t].at = v.at /\ walk'[t].count = v.count
            /\ walk'[t].steady = v.steady \ {u} /\ walk'[t].ever = v.ever
        BY <3>3, WalkFields
      <3>5. Members(u) = Members(t) /\ next'[u] = next[u]
        BY Zenon, <1>1, <1>7, <2>5 DEF Members
      <3> HIDE DEF v
      <3>6. v.steady \ {u} \in SUBSET v.steady /\ v.steady \in SUBSET Members(t)
            /\ IsFiniteSet(v.steady)
        BY Zenon, <2>2, FiniteSubset
      <3>7. ASSUME NEW x \in v.ever \ listed'
            PROVE  next'[x] \in v.ever /\ Link(b, Leader[t], x, next'[x], v.steady \ {u})
        <4>1. next'[x] \in v.ever /\ Link(b, Leader[t], x, next'[x], v.steady)
          <5>1. CASE x = u
            <6>1. next[u] \in v.ever /\ Link(b, Leader[t], u, next[u], Members(t))
              BY Zenon, <1>6, <2>2, <2>5, <3>5
            <6>2. Link(b, Leader[t], u, next[u], v.steady)
              BY Zenon, <3>6, <6>1, LinkOfFewer
            <6> QED BY Zenon, <3>5, <5>1, <6>1, <6>2
          <5>2. CASE x # u
            BY Zenon, <1>1, <2>2, <2>4, <5>2
          <5> QED BY Zenon, <5>1, <5>2
        <4>2. Link(b, Leader[t], x, next'[x], v.steady \ {u})
          BY Zenon, <3>6, <4>1, LinkOfFewer
        <4> QED BY Zenon, <4>1, <4>2
      <3>8. Cardinality(Met(b, t, v.steady \ {u}, v.at)) <= v.count
        <4>1. /\ Cardinality(Met(b, t, v.steady \ {u}, v.at)) \in Nat
              /\ Cardinality(Met(b, t, v.steady, v.at)) \in Nat
              /\ Cardinality(Met(b, t, v.steady \ {u}, v.at))
                    <= Cardinality(Met(b, t, v.steady, v.at))
          BY Zenon, <3>6, MetGrows
        <4> QED BY <2>2, <4>1
      <3>9. v.steady \ {u} \subseteq Members(t)' /\ Members(t)' \subseteq v.ever
        BY Zenon, <1>8, <2>2
      <3> QED BY Zenon, <1>2, <2>1, <2>2, <2>3, <3>4, <3>7, <3>8, <3>9 DEF ThreadWalk
    <2>6. CASE Leader[u] # Leader[t]
      <3>1. walk'[t] = v
        BY Zenon, <1>1, <2>6 DEF Unseen, Listers, Walkers
      <3>2. Members(t)' = Members(t)
        BY Zenon, <1>8, <2>6 DEF Members
      <3>3. v.ever \ listed' = v.ever \ listed
        BY Zenon, <1>1, <2>2, <2>6
      <3> QED BY Zenon, <1>2, <2>2, <2>3, <2>4, <3>1, <3>2, <3>3 DEF ThreadWalk
    <2> QED BY Zenon, <2>5, <2>6
  <1> QED BY Zenon, <1>5, <1>9, <1>10 DEF Order

\* The task before which the leader comes is the last born: clone finds it.
LEMMA LastOfList ==
    ASSUME ReadInv, GroupInv, NEW b \in [Task -> Nat], Order(b), NEW t \in Task,
           NEW u \in Task, Create(t, u)
    PROVE  \E l \in Members(t) :
               /\ next' = [next EXCEPT ![l] = u, ![u] = Leader[t]]
               /\ next[l] = Leader[t]
               /\ \A z \in Members(t) : b[z] <= b[l] /\ (z # l => b[z] < b[l])
  <1> DEFINE L == Leader[t]
             l == CHOOSE w \in Members(t) : next[w] = L
  <1>1. next' = [next EXCEPT ![l] = u, ![u] = L] /\ pc[t] = "user" /\ sys' = sys
    BY Zenon DEF Create, Join, Change
  <1>2. Leader \in [Task -> Task]
    BY Zenon, <1>1, SystemStays
  <1>3. /\ L \in Task /\ Leader[L] = L /\ pc[L] # "none" /\ L \in listed
        /\ listed \subseteq Task /\ \A x \in listed : pc[x] # "none"
    BY Zenon, <1>1, <1>2 DEF GroupInv, Groups
  <1>4. \E w \in Members(t) : next[w] = L
    <2>1. PICK w \in listed : next[w] = L
      BY Zenon, <1>3 DEF Order, Ring
    <2>2. L \in Members(w)
      BY Zenon, <2>1 DEF Order, Ring
    <2>3. w \in Members(t)
      BY Zenon, <1>3, <2>2 DEF Members
    <2> QED BY Zenon, <2>1, <2>3
  <1>5. l \in Members(t) /\ next[l] = L
    BY Zenon, <1>4
  <1> HIDE DEF l
  <1>6. l \in listed /\ l \in Task /\ Leader[l] = L /\ Members(l) = Members(t)
    BY Zenon, <1>3, <1>5 DEF Members
  <1>7. Link(b, L, l, L, Members(t))
    BY Zenon, <1>5, <1>6 DEF Order, Ring
  <1>8. ~(b[l] < b[L])
    <2>1. l # L => b[L] < b[l]
      BY Zenon, <1>3, <1>6 DEF Order, Born
    <2>2. b[l] \in Nat /\ b[L] \in Nat
      BY Zenon, <1>3, <1>6
    <2> QED BY <2>1, <2>2
  <1>9. \A z \in Members(t) : b[z] <= b[l]
    BY Zenon, <1>7, <1>8 DEF Link
  <1>10. \A z \in Members(t) : z # l => b[z] < b[l]
    <2>1. \A z \in Members(t) : z \in Task /\ pc[z] # "none" /\ Leader[z] = L /\ b[z] \in Nat
      BY Zenon, <1>3 DEF Members
    <2>2. \A z \in Members(t) : z # l => b[z] # b[l]
      BY Zenon, <1>3, <1>6, <2>1 DEF Order, Born
    <2> QED BY <1>6, <1>9, <2>1, <2>2
  <1> QED BY Zenon, <1>1, <1>5, <1>9, <1>10

\* A new task is the last of its list, born after all the others.
LEMMA JoinOrder ==
    ASSUME Counting, ReadInv, GroupInv, NEW b \in [Task -> Nat], Order(b), NEW t \in Task,
           NEW u \in Task, Create(t, u) \/ Fork(t, u)
    PROVE  \E c \in [Task -> Nat] : Order(c)'
  <1>1. /\ sys' = sys /\ changes' = changes + 1 /\ pc[t] = "user" /\ pc[u] = "none"
        /\ pc' = [pc EXCEPT ![u] = "user"]
        /\ listed' = listed \cup {u}
    BY Zenon DEF Create, Fork, Join, Change
  <1>2. /\ Leader' = Leader /\ Leader \in [Task -> Task]
        /\ \A x \in Task : Members(x)' = {y \in listed' : Leader[y] = Leader[x]}
    BY Zenon, <1>1, SystemStays
  <1>3. /\ listed \subseteq Task /\ u \notin listed /\ next \in [Task -> Task]
        /\ \A x \in listed : pc[x] # "none"
        /\ changes \in Nat
    BY Zenon, <1>1 DEF GroupInv, Groups
  <1>4. \A x \in Task : pc'[x] = IF x = u THEN "user" ELSE pc[x]
    BY Zenon, <1>1 DEF ReadInv, Shape, TypeOK
  <1>c. PICK c \in [Task -> Nat] : c = [b EXCEPT ![u] = changes + 1]
    <2>1. [b EXCEPT ![u] = changes + 1] \in [Task -> Nat]
      BY <1>3
    <2> QED BY Zenon, <2>1
  <1>5. /\ c \in [Task -> Nat] /\ c[u] = changes + 1
        /\ \A x \in Task : x # u => c[x] = b[x]
    BY Zenon, <1>3, <1>c
  <1>6. \A x \in Task : pc[x] # "none" => /\ x # u /\ b[x] <= changes /\ c[x] = b[x]
                                          /\ c[x] < c[u]
    BY <1>1, <1>3, <1>5 DEF Order, Born
  \* The group of the new task: its leader exists, or is the new task.
  <1> DEFINE L == Leader[u]
  <1>7. /\ L \in Task
        /\ u # L => pc[L] # "none" /\ Leader[L] = L
        /\ u = L => \A x \in Task : pc[x] # "none" => Leader[x] # u
    <2>1. L \in Task
      BY Zenon, <1>2
    <2>2. u # L => pc[L] # "none" /\ Leader[L] = L
      BY Zenon, <1>1 DEF Create, Fork, GroupInv, Groups
    <2>3. u = L => \A x \in Task : pc[x] # "none" => Leader[x] # u
      BY Zenon, <1>1 DEF GroupInv, Groups
    <2> QED BY Zenon, <2>1, <2>2, <2>3
  <1>8. Born(c)'
    <2>1. ASSUME NEW x \in Task, pc'[x] # "none"
          PROVE  /\ c[x] <= changes'
                 /\ x # Leader[x] => c[Leader[x]] < c[x]
                 /\ \A y \in Task : pc'[y] # "none" /\ Leader[y] = Leader[x] /\ c[y] = c[x]
                                       => y = x
      <3>1. CASE x = u
        <4>1. c[x] <= changes'
          BY <1>1, <1>3, <1>5, <3>1
        <4>2. x # Leader[x] => c[Leader[x]] < c[x]
          BY Zenon, <1>6, <1>7, <3>1
        <4>3. \A y \in Task : pc[y] # "none" => c[y] # c[u]
          <5>1. \A y \in Task : c[y] \in Nat
            BY Zenon, <1>5
          <5> QED BY <1>6, <5>1
        <4> QED BY Zenon, <1>4, <3>1, <4>1, <4>2, <4>3
      <3>2. CASE x # u
        <4>1. pc[x] # "none"
          BY Zenon, <1>4, <2>1, <3>2
        <4>2. b[x] \in Nat /\ b[x] <= changes /\ c[x] = b[x]
          BY Zenon, <1>6, <4>1
        <4>3. c[x] <= changes'
          BY <1>1, <1>3, <4>2
        <4>4. x # Leader[x] => c[Leader[x]] < c[x]
          <5>1. Leader[x] \in Task /\ pc[Leader[x]] # "none"
            BY Zenon, <1>2, <4>1 DEF GroupInv, Groups
          <5> QED BY Zenon, <1>6, <4>1, <4>2, <5>1 DEF Order, Born
        <4>5. \A y \in Task : pc[y] # "none" /\ Leader[y] = Leader[x] /\ c[y] = c[x] => y = x
          BY Zenon, <1>6, <4>1 DEF Order, Born
        <4>6. c[u] # c[x]
          BY <1>5, <1>6, <4>1
        <4> QED BY Zenon, <1>4, <4>3, <4>4, <4>5, <4>6
      <3> QED BY Zenon, <3>1, <3>2
    <2> QED BY Zenon, <1>2, <2>1 DEF Born
  <1>9. \A x \in Task : /\ Leader[x] = L => Members(x)' = Members(x) \cup {u}
                        /\ Leader[x] # L => Members(x)' = Members(x)
    BY Zenon, <1>1, <1>2 DEF Members
  <1>10. ASSUME NEW x \in listed, NEW y \in Members(x), NEW S \in SUBSET listed,
                Link(b, Leader[x], x, y, S)
         PROVE  Link(c, Leader[x], x, y, S)
    <2>1. /\ x \in Task /\ y \in Task /\ pc[x] # "none" /\ pc[y] # "none"
          /\ \A z \in S : z \in Task /\ pc[z] # "none"
      BY Zenon, <1>3 DEF Members
    <2>2. b[x] = c[x] /\ b[y] = c[y] /\ \A z \in S : b[z] = c[z]
      BY Zenon, <1>6, <2>1
    <2> QED BY Zenon, <1>10, <2>2, OrderAgrees
  <1>11. ASSUME NEW x \in listed, Leader[x] # L
         PROVE  /\ next'[x] = next[x] /\ x \in Task /\ Members(x)' = Members(x)
                /\ next[x] \in Members(x)
                /\ Link(c, Leader[x], x, next[x], Members(x))
    <2>1. x \in Task /\ next[x] \in Members(x) /\ Link(b, Leader[x], x, next[x], Members(x))
      BY Zenon, <1>3 DEF Order, Ring
    <2>2. next'[x] = next[x]
      <3>1. CASE Fork(t, u)
        BY Zenon, <1>3, <2>1, <3>1 DEF Fork, Join
      <3>2. CASE Create(t, u)
        <4>1. PICK l \in Members(t) : next' = [next EXCEPT ![l] = u, ![u] = Leader[t]]
          BY Zenon, <3>2, LastOfList
        <4>3. Leader[t] = L
          BY Zenon, <3>2 DEF Create
        <4>4. x # l /\ x # u
          BY Zenon, <1>3, <1>11, <4>3 DEF Members
        <4> QED BY Zenon, <1>3, <2>1, <4>1, <4>4
      <3> QED BY Zenon, <3>1, <3>2
    <2>3. Link(c, Leader[x], x, next[x], Members(x))
      BY Zenon, <1>10, <2>1 DEF Members
    <2> QED BY Zenon, <1>9, <1>11, <2>1, <2>2, <2>3
  <1>12. ASSUME NEW x \in listed, Leader[x] = L
         PROVE  /\ next'[x] \in Members(x) \cup {u}
                /\ Link(c, L, x, next'[x], Members(x) \cup {u})
    <2>1. x \in Task /\ pc[x] # "none" /\ x # u
      BY Zenon, <1>1, <1>3
    <2>2. CASE Create(t, u)
      <3>1. PICK l \in Members(t) :
               /\ next' = [next EXCEPT ![l] = u, ![u] = Leader[t]]
               /\ next[l] = Leader[t]
               /\ \A z \in Members(t) : b[z] <= b[l] /\ (z # l => b[z] < b[l])
        BY <2>2, LastOfList
      <3>2. /\ Leader[t] = L /\ Members(x) = Members(t) /\ Members(x) \subseteq listed
            /\ x \in Members(x) /\ l \in Task /\ pc[l] # "none" /\ l # u
        BY Zenon, <1>1, <1>3, <1>12, <2>2 DEF Create, Members
      <3>3. \A z \in Members(x) : /\ z \in Task /\ c[z] = b[z] /\ c[z] < c[u]
                                  /\ c[z] \in Nat
        BY Zenon, <1>3, <1>5, <1>6, <3>2
      <3>4. CASE x = l
        <4>1. next'[x] = u
          BY Zenon, <1>3, <2>1, <3>1, <3>4
        <4>2. \A z \in Members(x) \cup {u} : ~(c[x] < c[z] /\ c[z] < c[u])
          <5>1. \A z \in Members(x) : c[z] <= c[x]
            BY Zenon, <3>1, <3>2, <3>3, <3>4
          <5>2. c[u] \in Nat /\ c[x] \in Nat
            BY Zenon, <1>5, <2>1
          <5> QED BY <3>3, <5>1, <5>2
        <4>3. Link(c, L, x, u, Members(x) \cup {u})
          BY Zenon, <3>2, <3>3, <4>2 DEF Link
        <4> QED BY Zenon, <4>1, <4>3
      <3>5. CASE x # l
        <4>1. next'[x] = next[x]
          BY Zenon, <1>3, <2>1, <3>1, <3>5
        <4>2. next[x] \in Members(x) /\ Link(b, L, x, next[x], Members(x))
          BY Zenon, <1>12 DEF Order, Ring
        <4>3. Link(c, L, x, next[x], Members(x))
          BY Zenon, <1>10, <1>12, <3>2, <4>2
        <4>4. /\ next[x] \in Task /\ c[next[x]] < c[u] /\ c[x] < c[l] /\ l \in Members(x)
              /\ Members(x) \in SUBSET Task
          BY Zenon, <3>1, <3>2, <3>3, <3>5, <4>2
        <4>5. Link(c, L, x, next[x], Members(x) \cup {u})
          BY Zenon, <1>5, <1>7, <2>1, <4>3, <4>4, LinkWithMore
        <4> QED BY Zenon, <4>1, <4>2, <4>5
      <3> QED BY Zenon, <3>4, <3>5
    <2>3. CASE Fork(t, u)
      BY Zenon, <1>7, <1>12, <2>1, <2>3 DEF Fork
    <2> QED BY Zenon, <2>2, <2>3
  <1>13. /\ next'[u] \in Members(u) \cup {u}
         /\ Link(c, L, u, next'[u], Members(u) \cup {u})
    <2>1. \A z \in Members(u) : z \in Task /\ pc[z] # "none" /\ c[z] \in Nat /\ c[z] <= c[u]
      BY <1>3, <1>5, <1>6 DEF Members
    <2>2. c[u] \in Nat
      BY Zenon, <1>5
    <2>3. \A z \in Members(u) \cup {u} : c[z] <= c[u]
      BY <2>1, <2>2
    <2>4. next'[u] = L /\ L \in Members(u) \cup {u}
      <3>1. CASE Fork(t, u)
        BY Zenon, <1>3, <3>1 DEF Fork, Join
      <3>2. CASE Create(t, u)
        <4>1. PICK l \in Members(t) : next' = [next EXCEPT ![l] = u, ![u] = Leader[t]]
          BY Zenon, <3>2, LastOfList
        <4>2. Leader[t] = L /\ u # L
          BY Zenon, <3>2 DEF Create
        <4>3. L \in Members(u)
          BY Zenon, <1>7, <4>2 DEF GroupInv, Groups, Members
        <4> QED BY Zenon, <1>3, <4>1, <4>2, <4>3
      <3> QED BY Zenon, <3>1, <3>2
    <2> QED BY Zenon, <2>3, <2>4 DEF Link
  <1>14. ASSUME NEW x \in listed \cup {u} PROVE \E p \in listed' : next'[p] = x
    <2>1. CASE Fork(t, u)
      <3>1. next' = [next EXCEPT ![u] = u]
        BY Zenon, <2>1 DEF Fork, Join
      <3>2. CASE x = u
        BY Zenon, <1>1, <1>3, <3>1, <3>2
      <3>3. CASE x \in listed
        <4>1. PICK p \in listed : next[p] = x
          BY Zenon, <3>3 DEF Order, Ring
        <4> QED BY Zenon, <1>1, <1>3, <3>1, <4>1
      <3> QED BY Zenon, <3>2, <3>3
    <2>2. CASE Create(t, u)
      <3>1. PICK l \in Members(t) : /\ next' = [next EXCEPT ![l] = u, ![u] = Leader[t]]
                                    /\ next[l] = Leader[t]
        BY Zenon, <2>2, LastOfList
      <3>2. l \in listed /\ l \in Task /\ l # u /\ u \in listed'
        BY Zenon, <1>1, <1>3 DEF Members
      <3>3. next'[l] = u /\ next'[u] = Leader[t]
        BY Zenon, <1>3, <3>1, <3>2
      <3>4. CASE x = u \/ x = Leader[t]
        BY Zenon, <1>1, <3>2, <3>3, <3>4
      <3>5. CASE x # u /\ x # Leader[t]
        <4>1. PICK p \in listed : next[p] = x
          BY Zenon, <3>5 DEF Order, Ring
        <4>2. p # l /\ p # u /\ p \in Task
          BY Zenon, <1>3, <3>1, <3>5, <4>1
        <4> QED BY Zenon, <1>1, <1>3, <3>1, <4>1, <4>2
      <3> QED BY Zenon, <3>4, <3>5
    <2> QED BY Zenon, <2>1, <2>2
  <1>15. Ring(c)'
    <2>1. ASSUME NEW x \in listed'
          PROVE  /\ next'[x] \in Members(x)'
                 /\ Link(c, Leader'[x], x, next'[x], Members(x)')
                 /\ \E p \in listed' : next'[p] = x
      <3>1. x \in listed \cup {u} /\ x \in Task /\ Leader'[x] = Leader[x]
        BY Zenon, <1>1, <1>2, <1>3
      <3>2. \E p \in listed' : next'[p] = x
        BY Zenon, <1>14, <3>1
      <3>3. CASE x = u
        <4>1. Members(u)' = Members(u) \cup {u}
          BY Zenon, <1>9
        <4> QED BY Zenon, <1>13, <3>1, <3>2, <3>3, <4>1
      <3>4. CASE x \in listed /\ Leader[x] = L
        <4>1. Members(x)' = Members(x) \cup {u}
          BY Zenon, <1>9, <3>1, <3>4
        <4>2. /\ next'[x] \in Members(x) \cup {u}
              /\ Link(c, L, x, next'[x], Members(x) \cup {u})
          BY Zenon, <1>12, <3>4
        <4> QED BY Zenon, <3>1, <3>2, <3>4, <4>1, <4>2
      <3>5. CASE x \in listed /\ Leader[x] # L
        <4>1. /\ next'[x] = next[x] /\ Members(x)' = Members(x)
              /\ next[x] \in Members(x)
              /\ Link(c, Leader[x], x, next[x], Members(x))
          BY Zenon, <1>11, <3>5
        <4> QED BY Zenon, <3>1, <3>2, <4>1
      <3> QED BY Zenon, <3>1, <3>3, <3>4, <3>5
    <2> QED BY Zenon, <2>1 DEF Ring
  <1>16. ASSUME NEW x \in Task \ listed, x # u PROVE next'[x] = next[x]
    <2>1. CASE Fork(t, u)
      BY Zenon, <1>3, <1>16, <2>1 DEF Fork, Join
    <2>2. CASE Create(t, u)
      <3>1. PICK l \in Members(t) : next' = [next EXCEPT ![l] = u, ![u] = Leader[t]]
        BY Zenon, <2>2, LastOfList
      <3>2. x # l
        BY Zenon DEF Members
      <3> QED BY Zenon, <1>3, <1>16, <3>1, <3>2
    <2> QED BY Zenon, <2>1, <2>2
  <1>17. ASSUME NEW x \in Task PROVE ThreadWalk(c, x)'
    <2> SUFFICES ASSUME pc'[x] = "threads" PROVE ThreadWalk(c, x)'
      BY Zenon DEF ThreadWalk
    <2> DEFINE v == walk[x]
    <2>1. pc[x] = "threads"
      BY Zenon, <1>1, <1>4
    <2>2. /\ v.at \in v.ever /\ v.count \in Nat /\ IsFiniteSet(v.ever)
          /\ \A z \in v.ever : z \in Task /\ pc[z] # "none" /\ Leader[z] = Leader[x]
          /\ v.steady \subseteq Members(x) /\ Members(x) \subseteq v.ever /\ x \in v.steady
          /\ \A z \in v.ever \ listed :
                 next[z] \in v.ever /\ Link(b, Leader[x], z, next[z], v.steady)
          /\ Cardinality(Met(b, x, v.steady, v.at)) <= v.count
          /\ v.count <= Cardinality(Met(b, x, v.ever, v.at))
      BY Zenon, <2>1 DEF Order, ThreadWalk
    <2>3. \A z \in v.ever : z \in Task /\ z # u /\ pc'[z] # "none" /\ c[z] = b[z]
      BY Zenon, <1>4, <1>6, <2>2
    <2>4. /\ Met(c, x, v.steady, v.at) = Met(b, x, v.steady, v.at)
          /\ Met(c, x, v.ever, v.at) = Met(b, x, v.ever, v.at)
      <3>1. x \in v.ever /\ v.at \in v.ever /\ v.steady \subseteq v.ever
        BY Zenon, <2>2
      <3>2. \A z \in v.ever : Prec(c, x, z, v.at) <=> Prec(b, x, z, v.at)
        BY Zenon, <2>3, <3>1 DEF Prec
      <3> QED BY Zenon, <3>1, <3>2 DEF Met
    <2>5. \A z \in v.ever \ listed :
             next'[z] = next[z] /\ Link(c, Leader[x], z, next[z], v.steady)
      <3> TAKE z \in v.ever \ listed
      <3>1. next'[z] = next[z]
        BY Zenon, <1>16, <2>3
      <3>2. next[z] \in v.ever /\ Link(b, Leader[x], z, next[z], v.steady)
        BY Zenon, <2>2
      <3>3. \A y \in v.steady : y \in v.ever
        BY Zenon, <2>2
      <3>4. b[z] = c[z] /\ b[next[z]] = c[next[z]] /\ \A y \in v.steady : b[y] = c[y]
        BY Zenon, <2>3, <3>2, <3>3
      <3>5. Link(c, Leader[x], z, next[z], v.steady)
        <4> HIDE DEF v
        <4> QED BY Zenon, <3>2, <3>4, OrderAgrees
      <3> QED BY Zenon, <3>1, <3>5
    <2>6. v.ever \ listed' = v.ever \ listed
      BY Zenon, <1>1, <2>3
    <2>7. CASE Leader[x] = L
      <3>1. walk'[x] = Notice(v, u)
        <4>1. ~Fork(t, u)
          BY Zenon, <1>7, <2>1, <2>7 DEF Fork
        <4>2. Create(t, u) /\ Leader[t] = L /\ Seen(Listers(t), u)
          BY Zenon, <4>1 DEF Create
        <4> QED BY Zenon, <2>1, <2>7, <4>2 DEF Seen, Listers, Walkers
      <3>3. walk'[x] = Walk(v.at, v.count, v.tid, v.steady, v.ever \cup {u}, v.top)
        BY Zenon, <3>1 DEF Notice
      <3>4. /\ walk'[x].at = v.at /\ walk'[x].count = v.count
            /\ walk'[x].steady = v.steady /\ walk'[x].ever = v.ever \cup {u}
        BY <3>3, WalkFields
      <3> HIDE DEF v
      <3>5. IsFiniteSet(v.ever \cup {u}) /\ Members(x)' = Members(x) \cup {u}
        BY Zenon, <1>9, <2>2, <2>7, FiniteAdd
      <3>6. v.count <= Cardinality(Met(c, x, v.ever \cup {u}, v.at))
        <4>1. /\ Cardinality(Met(c, x, v.ever, v.at)) \in Nat
              /\ Cardinality(Met(c, x, v.ever \cup {u}, v.at)) \in Nat
              /\ Cardinality(Met(c, x, v.ever, v.at))
                    <= Cardinality(Met(c, x, v.ever \cup {u}, v.at))
          <5>1. v.ever \subseteq v.ever \cup {u}
            BY Zenon
          <5> QED BY Zenon, <3>5, <5>1, MetGrows
        <4> QED BY <2>2, <2>4, <4>1
      <3>7. (v.ever \cup {u}) \ listed' = v.ever \ listed
        BY Zenon, <1>1, <2>6
      <3>8. \A z \in v.ever \cup {u} : z \in Task /\ pc'[z] # "none" /\ Leader[z] = Leader[x]
        BY Zenon, <1>4, <2>2, <2>3, <2>7
      <3>9. v.steady \subseteq Members(x)' /\ Members(x)' \subseteq v.ever \cup {u}
        BY Zenon, <2>2, <3>5
      <3> QED BY Zenon, <1>2, <2>2, <2>4, <2>5, <3>4, <3>5, <3>6, <3>7, <3>8, <3>9 DEF ThreadWalk
    <2>8. CASE Leader[x] # L
      <3>1. walk'[x] = v
        BY Zenon, <2>8 DEF Create, Fork, Seen, Listers, Walkers
      <3>2. Members(x)' = Members(x)
        BY Zenon, <1>9, <2>8
      <3> QED BY Zenon, <1>2, <2>2, <2>3, <2>4, <2>5, <2>6, <3>1, <3>2 DEF ThreadWalk
    <2> QED BY Zenon, <2>7, <2>8
  <1> QED BY Zenon, <1>8, <1>15, <1>17 DEF Order

\* Every step keeps the order of the lists, and counts as the property says.
LEMMA NextKeepsOrder ==
    ASSUME Counting, ReadInv, GroupInv, NEW b \in [Task -> Nat], Order(b), Next
    PROVE  (\E c \in [Task -> Nat] : Order(c)') /\ \A t \in Task : CountAnswer(t)
  <1>1. PICK t \in Task : Calls(t) \/ Reading(t) \/ Environment(t)
    BY Zenon DEF Next
  <1>2. \A u \in Task : FilesAnswer(u)
    BY Zenon, NextKeepsGroups
  <1>3. changes \in Nat
    BY Zenon DEF GroupInv, Groups
  <1>4. CASE Environment(t)
    <2>1. \A u \in Task : CountAnswer(u)
      <3>1. \A u \in Task : Inside(u) => pc'[u] = pc[u]
        BY Zenon, <1>4, ReadersStay
      <3> QED BY Zenon, <3>1 DEF CountAnswer, Returns, Inside
    <2>2. CASE Unlist(t)
      BY Zenon, <2>1, <2>2, UnlistOrder
    <2>3. CASE \E u \in Task : Create(t, u) \/ Fork(t, u)
      BY Zenon, <2>1, <2>3, JoinOrder
    <2>4. CASE \/ DropMm(t) \/ Open(t) \/ (\E s \in 0 .. Slots - 1 : Close(t, s))
               \/ GrowStack(t) \/ Recycle(t)
      <3>1. /\ UNCHANGED <<sys, next, listed>> /\ changes' = changes + 1
            /\ pc' = pc \/ (pc' = [pc EXCEPT ![t] = "exiting"] /\ pc[t] = "user")
        BY Zenon, <2>4 DEF DropMm, Open, Close, GrowStack, Recycle, Change
      <3>2. \A x \in Task : /\ pc'[x] = "none" <=> pc[x] = "none"
                            /\ pc'[x] = "threads" => pc[x] = "threads"
        BY Zenon, <3>1 DEF ReadInv, Shape, TypeOK
      <3>3. \A x \in Task : pc[x] = "threads" => walk'[x] = walk[x]
        BY Zenon, <2>4 DEF DropMm, Open, Close, GrowStack, Recycle, Seen, Unseen, Walkers
      <3>4. changes' \in Nat /\ changes' >= changes
        BY <1>3, <3>1
      <3>5. /\ Born(b)' /\ Ring(b)'
            /\ \A x \in Task : (pc'[x] = "threads" => pc[x] = "threads" /\ walk'[x] = walk[x])
                                  => ThreadWalk(b, x)'
        BY Zenon, <3>1, <3>2, <3>4, OrderStays
      <3>6. Order(b)'
        BY Zenon, <3>2, <3>3, <3>5 DEF Order
      <3> QED BY Zenon, <2>1, <3>6
    <2> QED BY Zenon, <1>4, <2>2, <2>3, <2>4 DEF Environment
  <1>5. ASSUME Calls(t) \/ Reading(t), ThreadWalk(b, t)', ThreadsAnswer(t)
        PROVE  (\E c \in [Task -> Nat] : Order(c)') /\ \A u \in Task : CountAnswer(u)
    <2>1. /\ UNCHANGED <<sys, next, listed, changes>>
          /\ pc[t] \in Active /\ pc'[t] \in Active
          /\ \A u \in Task \ {t} : pc'[u] = pc[u]
          /\ \A u \in Task : pc[u] # "compare" /\ u # t => walk'[u] = walk[u]
      BY Zenon, <1>5, ReaderStep DEF GroupInv
    <2>2. \A x \in Task : pc'[x] = "none" <=> pc[x] = "none"
      BY Zenon, <2>1 DEF Active
    <2>3. changes' \in Nat /\ changes' >= changes
      BY <1>3, <2>1
    <2>4. /\ Born(b)' /\ Ring(b)'
          /\ \A x \in Task : (pc'[x] = "threads" => pc[x] = "threads" /\ walk'[x] = walk[x])
                                => ThreadWalk(b, x)'
      BY Zenon, <2>1, <2>2, <2>3, OrderStays
    <2>5. \A x \in Task \ {t} : ThreadWalk(b, x)'
      BY Zenon, <2>1, <2>4
    <2>6. Order(b)'
      BY Zenon, <1>5, <2>4, <2>5 DEF Order
    <2>7. \A u \in Task : CountAnswer(u)
      <3>1. \A u \in Task \ {t} : CountAnswer(u)
        BY Zenon, <2>1 DEF CountAnswer, Returns, Inside
      <3>2. CountAnswer(t)
        BY Zenon, <1>2, <1>5 DEF FilesAnswer, ThreadsAnswer, CountAnswer
      <3> QED BY Zenon, <3>1, <3>2
    <2> QED BY Zenon, <2>6, <2>7
  <1>6. CASE Calls(t)
    <2>1. pc[t] = "user" /\ pc'[t] \in {"user", "compare", "switch"}
      BY Zenon, <1>6 DEF Calls, Store, Read, Return, Go, ReadInv, Shape, TypeOK
    <2>2. ThreadWalk(b, t)' /\ ThreadsAnswer(t)
      BY Zenon, <2>1 DEF ThreadWalk, ThreadsAnswer, CountAnswer, Returns, Inside
    <2> QED BY Zenon, <1>5, <1>6, <2>2
  <1>7. CASE Switch(t)
    BY Zenon, <1>5, <1>7, SwitchCounts DEF Reading
  <1>8. CASE WalkThreads(t)
    BY Zenon, <1>5, <1>8, ThreadsWalk DEF Reading
  <1>9. CASE Compare(t) \/ WalkFiles(t) \/ WalkStacks(t)
    <2>1. \/ \E r, q, x : q # 5 /\ Return(t, Reply(r, q, x))
          \/ \E l \in Labels \ {"user", "threads"} : \E v, w : Go(t, l, v, w)
      <3>1. CASE Compare(t)
        <4>1. Compared(t) /\ pc[t] = "compare" /\ NONE # 5
          BY <3>1, ThreadInfoAssumption DEF Compare, ReadInv, Local
        <4>2. val[t] \in 0 .. 4
          BY Zenon, <4>1 DEF Compared
        <4> QED BY <3>1, <4>1, <4>2 DEF Compare, Labels
      <3>2. CASE WalkFiles(t)
        BY <3>2 DEF WalkFiles, Labels
      <3>3. CASE WalkStacks(t)
        BY <3>3 DEF WalkStacks, Advance, Labels
      <3> QED BY Zenon, <1>9, <3>1, <3>2, <3>3
    <2>2. ThreadWalk(b, t)' /\ ThreadsAnswer(t)
      BY Zenon, <2>1, NoCount
    <2> QED BY Zenon, <1>5, <1>9, <2>2 DEF Reading
  <1> QED BY Zenon, <1>1, <1>4, <1>6, <1>7, <1>8, <1>9 DEF Reading

\* Nothing happens.
LEMMA StutterOrder ==
    ASSUME ReadInv, GroupInv, NEW b \in [Task -> Nat], Order(b), UNCHANGED vars
    PROVE  Order(b)'
  <1>1. UNCHANGED <<sys, pc, walk, next, listed, changes>>
    BY DEF vars, locals, process
  <1>2. changes' \in Nat /\ changes' >= changes
    BY <1>1 DEF GroupInv, Groups
  <1>3. /\ Born(b)' /\ Ring(b)'
        /\ \A x \in Task : (pc'[x] = "threads" => pc[x] = "threads" /\ walk'[x] = walk[x])
                              => ThreadWalk(b, x)'
    BY <1>1, <1>2, OrderStays
  <1> QED BY <1>1, <1>3 DEF Order

-----------------------------------------------------------------------------
\* A search that a step leaves alone stays right.
LEMMA SearchStays ==
    ASSUME ReadInv, NEW x \in Task, SearchWalk(x), UNCHANGED <<sys, next, listed>>,
           pc'[x] = "stacks" =>
               /\ pc[x] = "stacks"
               /\ walk'[x].at = walk[x].at /\ walk'[x].count = walk[x].count
               /\ walk'[x].tid = walk[x].tid /\ walk'[x].ever = walk[x].ever
    PROVE  SearchWalk(x)'
  <1>1. Leader' = Leader /\ Members(x)' = Members(x)
    BY Zenon, SystemStays DEF Members
  <1> QED BY Zenon, <1>1 DEF SearchWalk

\* A read that goes on elsewhere than in a search, or returns without one.
LEMMA NoSearch ==
    ASSUME ReadInv, NEW t \in Task,
           \/ \E r, q, x : q # 7 /\ Return(t, Reply(r, q, x))
           \/ \E l \in Labels \ {"user", "stacks"} : \E v, w : Go(t, l, v, w)
    PROVE  SearchWalk(t)' /\ SearchAnswer(t)
  <1>1. CASE \E r, q, x : q # 7 /\ Return(t, Reply(r, q, x))
    <2>1. PICK r, q, x : q # 7 /\ Return(t, Reply(r, q, x))
      BY Zenon, <1>1
    <2>2. pc'[t] = "user" /\ reply'[t] = Reply(r, q, x)
      BY Zenon, <2>1 DEF Return, ReadInv, Shape, TypeOK
    <2>3. reply'[t].question = q
      BY <2>2 DEF Reply
    <2> QED BY Zenon, <2>1, <2>2, <2>3 DEF SearchWalk, SearchAnswer
  <1>2. CASE \E l \in Labels \ {"user", "stacks"} : \E v, w : Go(t, l, v, w)
    <2>1. PICK l \in Labels \ {"user", "stacks"} : pc'[t] = l
      BY Zenon, <1>2 DEF Go, ReadInv, Shape, TypeOK
    <2> QED BY Zenon, <2>1 DEF SearchWalk, SearchAnswer, Returns
  <1> QED BY Zenon, <1>1, <1>2

\* Where a search begins: at the reader, with the list as it is.
LEMMA SwitchSearches ==
    ASSUME ReadInv, GroupInv, NEW b, Ring(b), NEW t \in Task, Switch(t)
    PROVE  SearchWalk(t)' /\ SearchAnswer(t)
  <1> DEFINE q == val[t]
             M == Members(t)
             k == stack[Leader[t]]
  <1>1. /\ pc[t] = "switch" /\ q \in Int /\ NONE # 7
        /\ UNCHANGED <<sys, listed, next>>
    BY ThreadInfoAssumption DEF Switch, Quiet, process, ReadInv, Shape, TypeOK
  <1>2. /\ Leader' = Leader /\ Leader \in [Task -> Task] /\ Members(t)' = M
    BY Zenon, <1>1, SystemStays DEF Members
  <1>3. \/ \E r, p, x : p # 7 /\ Return(t, Reply(r, p, x))
        \/ Go(t, "stacks", q, Walk(t, 0, NONE, M, M, k))
        \/ \E w : Go(t, "files", q, w)
        \/ \E w : Go(t, "threads", q, w)
    BY <1>1 DEF Switch
  <1>4. CASE \E r, p, x : p # 7 /\ Return(t, Reply(r, p, x))
    BY Zenon, <1>4, NoSearch
  <1>5. CASE (\E w : Go(t, "files", q, w)) \/ (\E w : Go(t, "threads", q, w))
    BY Zenon, <1>5, NoSearch DEF Labels
  <1>6. CASE Go(t, "stacks", q, Walk(t, 0, NONE, M, M, k))
    <2> HIDE DEF M, k
    <2>1. pc'[t] = "stacks" /\ walk'[t] = Walk(t, 0, NONE, M, M, k)
      BY <1>6, GoesOn DEF Labels
    <2>2. walk'[t].at = t /\ walk'[t].count = 0 /\ walk'[t].ever = M
      BY <2>1, WalkFields
    <2>3. t \in M /\ M \subseteq listed /\ M \subseteq Task
      BY Zenon, <1>1 DEF GroupInv, Groups, Members, M
    <2>4. \A x \in M : Leader[x] = Leader[t] /\ next[x] \in M
      <3>1. \A x \in M : Leader[x] = Leader[t] /\ Members(x) = M
        BY Zenon DEF Members, M
      <3> QED BY Zenon, <2>3, <3>1 DEF Ring
    <2>5. SearchWalk(t)'
      BY <1>1, <1>2, <2>1, <2>2, <2>3, <2>4 DEF SearchWalk
    <2> QED BY Zenon, <2>1, <2>5 DEF SearchAnswer, Returns
  <1> QED BY Zenon, <1>3, <1>4, <1>5, <1>6

\* One thread of a search: the first sets tid, as no stack is empty, and the next
\* was listed too.
LEMMA StacksSearch ==
    ASSUME ReadInv, GroupInv, SearchInv, NEW t \in Task, WalkStacks(t)
    PROVE  SearchWalk(t)' /\ SearchAnswer(t)
  <1> DEFINE size == stack[Leader[t]]
             v == walk[t]
             w == IF size > v.count THEN [v EXCEPT !.count = size, !.tid = v.at] ELSE v
             n == IF size > v.count THEN size ELSE v.count
             m == IF size > v.count THEN v.at ELSE v.tid
             E == v.ever
  <1>1. /\ pc[t] = "stacks" /\ UNCHANGED <<sys, next, listed>>
        /\ Go(t, "oops", 0, NoWalk) \/ Advance(t, 7, w.tid, w)
    BY Zenon DEF WalkStacks, Quiet, process
  <1>2. Leader' = Leader /\ Leader[t] \in Task /\ Members(t)' = Members(t)
    BY Zenon, <1>1, SystemStays DEF Members
  <1>3. /\ v.at \in E /\ Members(t) \subseteq E
        /\ \A x \in E : x \in Task /\ Leader[x] = Leader[t] /\ next[x] \in E
        /\ v.count \in Nat /\ (v.count = 0 \/ v.tid \in E)
    BY Zenon, <1>1 DEF SearchInv, SearchWalk
  <1>4. IsWalk(v) /\ size \in Nat \ {0}
    BY Zenon, <1>2 DEF GroupInv, Groups
  <1>5. w = Walk(v.at, n, m, v.steady, E, v.top)
    <2>1. v = Walk(v.at, v.count, v.tid, v.steady, v.ever, v.top)
      BY Zenon, <1>4 DEF IsWalk
    <2>2. [v EXCEPT !.count = size, !.tid = v.at]
             = Walk(v.at, size, v.at, v.steady, v.ever, v.top)
      BY Zenon, <1>4, WalkChangedTwice
    <2> QED BY Zenon, <2>1, <2>2
  <1>6. m \in E /\ n \in Nat
    BY <1>3, <1>4
  <1> HIDE DEF w, n, m
  <1>7. w.at = v.at /\ w.tid = m /\ w.ever = E /\ w.count = n /\ IsWalk(w)
    BY <1>5, WalkFields
  <1>8. CASE Go(t, "oops", 0, NoWalk)
    BY Zenon, <1>8, NoSearch DEF Labels
  <1>9. CASE Return(t, Reply(SIZE, 7, w.tid))
    <2>1. pc'[t] = "user" /\ reply'[t] = Reply(SIZE, 7, m)
      BY Zenon, <1>7, <1>9 DEF Return, ReadInv, Shape, TypeOK
    <2>2. reply'[t].answer = m
      BY <2>1 DEF Reply
    <2> QED BY Zenon, <1>6, <2>1, <2>2 DEF SearchWalk, SearchAnswer
  <1>10. CASE Go(t, pc[t], val[t], [w EXCEPT !.at = next[w.at]])
    <2>1. [w EXCEPT !.at = next[w.at]] = Walk(next[v.at], n, m, w.steady, E, w.top)
      BY <1>7, WalkChanged
    <2>2. pc'[t] = "stacks" /\ walk'[t] = Walk(next[v.at], n, m, w.steady, E, w.top)
      BY <1>1, <1>10, <2>1, GoesOn DEF Labels
    <2>3. /\ walk'[t].at = next[v.at] /\ walk'[t].count = n /\ walk'[t].tid = m
          /\ walk'[t].ever = E
      BY <2>2, WalkFields
    <2>4. SearchWalk(t)'
      BY Zenon, <1>1, <1>2, <1>3, <1>6, <2>2, <2>3 DEF SearchWalk
    <2> QED BY Zenon, <2>2, <2>4 DEF SearchAnswer, Returns
  <1> QED BY Zenon, <1>1, <1>8, <1>9, <1>10 DEF Advance

\* A task leaves its list: who pointed to it points to the task behind it.
LEMMA UnlistSearch ==
    ASSUME ReadInv, GroupInv, SearchInv, NEW u \in Task, Unlist(u)
    PROVE  SearchInv'
  <1>1. /\ sys' = sys /\ pc' = [pc EXCEPT ![u] = "gone"]
        /\ next' = [w \in Task |-> IF w \in listed /\ next[w] = u THEN next[u] ELSE next[w]]
        /\ listed' = listed \ {u}
        /\ Unseen(Listers(u), u)
    BY Zenon DEF Unlist
  <1> SUFFICES ASSUME NEW t \in Task, pc'[t] = "stacks"
               PROVE  SearchWalk(t)'
    BY Zenon DEF SearchInv, SearchWalk
  <1>2. /\ Leader' = Leader /\ Members(t)' \subseteq Members(t)
    BY Zenon, <1>1, SystemStays DEF Members
  <1>3. pc[t] = "stacks" /\ SearchWalk(t)
    BY Zenon, <1>1 DEF SearchInv, ReadInv, Shape, TypeOK
  <1>4. /\ walk'[t].at = walk[t].at /\ walk'[t].count = walk[t].count
        /\ walk'[t].tid = walk[t].tid /\ walk'[t].ever = walk[t].ever
    <2>1. \/ walk'[t] = walk[t]
          \/ walk'[t] = [walk[t] EXCEPT !.steady = walk[t].steady \ {u}]
      BY Zenon, <1>1 DEF Unseen
    <2>2. IsWalk(walk[t])
      BY Zenon DEF GroupInv, Groups
    <2>3. CASE walk'[t] = [walk[t] EXCEPT !.steady = walk[t].steady \ {u}]
      <3>1. walk'[t] = Walk(walk[t].at, walk[t].count, walk[t].tid, walk[t].steady \ {u},
                            walk[t].ever, walk[t].top)
        BY Zenon, <2>2, <2>3, WalkChanged
      <3> QED BY <3>1, WalkFields
    <2> QED BY Zenon, <2>1, <2>3
  <1>5. \A x \in walk[t].ever : x \in Task /\ Leader[x] = Leader[t] /\ next'[x] \in walk[t].ever
    BY Zenon, <1>1, <1>3 DEF SearchWalk
  <1> QED BY Zenon, <1>2, <1>3, <1>4, <1>5 DEF SearchWalk

\* A new task is noted by the searches of its process; other lists do not change.
LEMMA JoinSearch ==
    ASSUME ReadInv, GroupInv, SearchInv, NEW b \in [Task -> Nat], Order(b),
           NEW t \in Task, NEW u \in Task, Create(t, u) \/ Fork(t, u)
    PROVE  SearchInv'
  <1>1. /\ sys' = sys /\ pc[t] = "user" /\ pc[u] = "none"
        /\ pc' = [pc EXCEPT ![u] = "user"] /\ listed' = listed \cup {u}
    BY Zenon DEF Create, Fork, Join, Change
  <1>2. /\ Leader' = Leader /\ Leader \in [Task -> Task]
        /\ \A x \in Task : Members(x)' = {y \in listed' : Leader[y] = Leader[x]}
    BY Zenon, <1>1, SystemStays
  <1>3. next \in [Task -> Task]
    BY Zenon DEF GroupInv, Groups
  <1> SUFFICES ASSUME NEW x \in Task, pc'[x] = "stacks"
               PROVE  SearchWalk(x)'
    BY Zenon DEF SearchInv, SearchWalk
  <1> DEFINE E == walk[x].ever
  <1>4. pc[x] = "stacks" /\ SearchWalk(x)
    BY Zenon, <1>1 DEF SearchInv, ReadInv, Shape, TypeOK
  <1>5. /\ walk[x].at \in E /\ Members(x) \subseteq E
        /\ \A y \in E : y \in Task /\ Leader[y] = Leader[x] /\ next[y] \in E
        /\ walk[x].count \in Nat /\ (walk[x].count = 0 \/ walk[x].tid \in E)
    BY Zenon, <1>4 DEF SearchWalk
  <1>6. CASE Leader[u] # Leader[x]
    <2>1. walk'[x] = walk[x]
      BY Zenon, <1>6 DEF Create, Fork, Seen, Listers, Walkers
    <2>2. Members(x)' = Members(x)
      BY Zenon, <1>1, <1>2, <1>6 DEF Members
    <2>3. \A y \in E : next'[y] = next[y]
      <3>1. CASE Create(t, u)
        <4>1. PICK l \in Members(t) : next' = [next EXCEPT ![l] = u, ![u] = Leader[t]]
          BY Zenon, <3>1, LastOfList
        <4>2. Leader[l] = Leader[t] /\ Leader[u] = Leader[t]
          BY Zenon, <3>1 DEF Members, Create
        <4>3. \A y \in E : y # l /\ y # u
          BY Zenon, <1>5, <1>6, <4>2
        <4>4. \A y \in Task : y # l /\ y # u => next'[y] = next[y]
          BY Zenon, <1>3, <4>1
        <4> QED BY Zenon, <1>5, <4>3, <4>4
      <3>2. CASE Fork(t, u)
        <4>1. next' = [next EXCEPT ![u] = u]
          BY Zenon, <3>2 DEF Fork, Join
        <4> QED BY Zenon, <1>3, <1>5, <1>6, <4>1
      <3> QED BY Zenon, <3>1, <3>2
    <2> QED BY Zenon, <1>2, <1>4, <1>5, <2>1, <2>2, <2>3 DEF SearchWalk
  <1>7. CASE Leader[u] = Leader[x]
    <2>1. Create(t, u)
      <3>1. pc[x] # "none" /\ pc[u] = "none"
        BY <1>1, <1>4
      <3>2. pc[Leader[x]] # "none"
        BY Zenon, <3>1 DEF GroupInv, Groups
      <3>3. Leader[u] # u
        BY Zenon, <1>7, <3>1, <3>2
      <3> QED BY Zenon, <3>3 DEF Fork
    <2>2. PICK l : next' = [next EXCEPT ![l] = u, ![u] = Leader[t]]
      BY Zenon, <2>1 DEF Create, Join
    <2>3. Leader[u] = Leader[t] /\ walk'[x] = Notice(walk[x], u)
      BY Zenon, <1>4, <1>7, <2>1 DEF Create, Seen, Listers, Walkers
    <2>4. /\ walk'[x].at = walk[x].at /\ walk'[x].count = walk[x].count
          /\ walk'[x].tid = walk[x].tid /\ walk'[x].ever = E \cup {u}
      <3>1. walk'[x] = Walk(walk[x].at, walk[x].count, walk[x].tid, walk[x].steady,
                            E \cup {u}, walk[x].top)
        BY Zenon, <2>3 DEF Notice
      <3> HIDE DEF E
      <3> QED BY <3>1, WalkFields
    <2>5. Members(x)' \subseteq E \cup {u}
      BY Zenon, <1>1, <1>2, <1>5 DEF Members
    <2>6. Leader[x] \in E
      BY Zenon, <1>2, <1>4, <1>5 DEF GroupInv, Groups, Members
    <2>7. \A y \in Task : next'[y] \in {next[y], u, Leader[t]}
      BY <1>3, <2>2
    <2>8. next'[u] = Leader[t]
      BY <1>3, <2>2
    <2>9. \A y \in E \cup {u} :
              y \in Task /\ Leader[y] = Leader[x] /\ next'[y] \in E \cup {u}
      BY Zenon, <1>5, <1>7, <2>3, <2>6, <2>7, <2>8
    <2> QED BY Zenon, <1>2, <1>5, <2>4, <2>5, <2>9 DEF SearchWalk
  <1> QED BY Zenon, <1>6, <1>7

\* Every step keeps the searches, and answers question 7 with a member.
LEMMA NextKeepsSearch ==
    ASSUME ReadInv, GroupInv, SearchInv, NEW b \in [Task -> Nat], Order(b), Next
    PROVE  SearchInv' /\ \A t \in Task : SearchAnswer(t)
  <1>1. PICK t \in Task : Calls(t) \/ Reading(t) \/ Environment(t)
    BY Zenon DEF Next
  <1>2. CASE Environment(t)
    <2>1. \A u \in Task : SearchAnswer(u)
      <3>1. \A u \in Task : Inside(u) => pc'[u] = pc[u]
        BY Zenon, <1>2, ReadersStay
      <3> QED BY Zenon, <3>1 DEF SearchAnswer, Returns, Inside
    <2>2. CASE Unlist(t)
      BY Zenon, <2>1, <2>2, UnlistSearch
    <2>3. CASE \E u \in Task : Create(t, u) \/ Fork(t, u)
      BY Zenon, <2>1, <2>3, JoinSearch
    <2>4. CASE \/ DropMm(t) \/ Open(t) \/ (\E s \in 0 .. Slots - 1 : Close(t, s))
               \/ GrowStack(t) \/ Recycle(t)
      <3>1. /\ UNCHANGED <<sys, next, listed>>
            /\ pc' = pc \/ (pc' = [pc EXCEPT ![t] = "exiting"] /\ pc[t] = "user")
        BY Zenon, <2>4 DEF DropMm, Open, Close, GrowStack, Recycle, Change
      <3>2. \A x \in Task : pc'[x] = "stacks" => pc[x] = "stacks"
        BY Zenon, <3>1 DEF ReadInv, Shape, TypeOK
      <3>3. \A x \in Task : pc[x] = "stacks" => walk'[x] = walk[x]
        BY Zenon, <2>4 DEF DropMm, Open, Close, GrowStack, Recycle, Seen, Unseen, Walkers
      <3>4. SearchInv'
        BY Zenon, <3>1, <3>2, <3>3, SearchStays DEF SearchInv
      <3> QED BY Zenon, <2>1, <3>4
    <2> QED BY Zenon, <1>2, <2>2, <2>3, <2>4 DEF Environment
  <1>3. ASSUME Calls(t) \/ Reading(t), SearchWalk(t)', SearchAnswer(t)
        PROVE  SearchInv' /\ \A u \in Task : SearchAnswer(u)
    <2>1. /\ UNCHANGED <<sys, next, listed>>
          /\ \A u \in Task \ {t} : pc'[u] = pc[u]
          /\ \A u \in Task : pc[u] # "compare" /\ u # t => walk'[u] = walk[u]
      BY Zenon, <1>3, ReaderStep DEF GroupInv
    <2>2. \A x \in Task \ {t} : SearchWalk(x)'
      BY Zenon, <2>1, SearchStays DEF SearchInv
    <2>3. \A u \in Task \ {t} : SearchAnswer(u)
      BY Zenon, <2>1 DEF SearchAnswer, Returns, Inside
    <2> QED BY Zenon, <1>3, <2>2, <2>3 DEF SearchInv
  <1>4. CASE Calls(t)
    <2>1. pc[t] = "user" /\ pc'[t] \in {"user", "compare", "switch"}
      BY Zenon, <1>4 DEF Calls, Store, Read, Return, Go, ReadInv, Shape, TypeOK
    <2>2. SearchWalk(t)' /\ SearchAnswer(t)
      BY Zenon, <2>1 DEF SearchWalk, SearchAnswer, Returns, Inside
    <2> QED BY Zenon, <1>3, <1>4, <2>2
  <1>5. CASE Switch(t)
    BY Zenon, <1>3, <1>5, SwitchSearches DEF Reading, Order
  <1>6. CASE WalkStacks(t)
    BY Zenon, <1>3, <1>6, StacksSearch DEF Reading
  <1>7. CASE Compare(t) \/ WalkThreads(t) \/ WalkFiles(t)
    <2>1. \/ \E r, q, x : q # 7 /\ Return(t, Reply(r, q, x))
          \/ \E l \in Labels \ {"user", "stacks"} : \E v, w : Go(t, l, v, w)
      <3>1. CASE Compare(t)
        <4>1. Compared(t) /\ pc[t] = "compare" /\ NONE # 7
          BY <3>1, ThreadInfoAssumption DEF Compare, ReadInv, Local
        <4>2. val[t] \in 0 .. 4
          BY Zenon, <4>1 DEF Compared
        <4> QED BY <3>1, <4>1, <4>2 DEF Compare, Labels
      <3>2. CASE WalkFiles(t)
        BY <3>2 DEF WalkFiles, Labels
      <3>3. CASE WalkThreads(t)
        BY <3>3 DEF WalkThreads, Advance, Labels
      <3> QED BY Zenon, <1>7, <3>1, <3>2, <3>3
    <2>2. SearchWalk(t)' /\ SearchAnswer(t)
      BY Zenon, <2>1, NoSearch
    <2> QED BY Zenon, <1>3, <1>7, <2>2 DEF Reading
  <1> QED BY Zenon, <1>1, <1>2, <1>4, <1>5, <1>6, <1>7 DEF Reading

-----------------------------------------------------------------------------
\* The facts about cardinalities that the lemmas about the walks assume.
LEMMA CountingHolds == Counting
  <1>1. /\ IsFiniteSet({}) /\ Cardinality({}) = 0
        /\ \A x : IsFiniteSet({x})
        /\ \A S : IsFiniteSet(S) => Cardinality(S) \in Nat
    BY Zenon, FS_EmptySet, FS_Singleton, FS_CardinalityType
  <1>2. \A m, n \in Int : IsFiniteSet(m .. n)
    BY FS_Interval
  <1>3. \A S : \A T \in SUBSET S :
           IsFiniteSet(S) => IsFiniteSet(T) /\ Cardinality(T) <= Cardinality(S)
    BY Zenon, FS_Subset
  <1>4. \A S, x :
           IsFiniteSet(S) =>
               /\ IsFiniteSet(S \cup {x})
               /\ Cardinality(S \cup {x})
                     = IF x \in S THEN Cardinality(S) ELSE Cardinality(S) + 1
    BY Zenon, FS_AddElement
  <1> QED BY Zenon, <1>1, <1>2, <1>3, <1>4 DEF Counting

\* An element of a sequence, and a sequence with one more.
LEMMA SequenceElement ==
    ASSUME NEW S, NEW s \in Seq(S), NEW i \in 1 .. Len(s)
    PROVE  s[i] \in S
  OBVIOUS

\* Append.
LEMMA SequenceAppended ==
    ASSUME NEW S, NEW s \in Seq(S), NEW e \in S
    PROVE  /\ Append(s, e) \in Seq(S)
           /\ Len(Append(s, e)) = Len(s) + 1
           /\ \A i \in 1 .. Len(s) : Append(s, e)[i] = s[i]
           /\ Append(s, e)[Len(s) + 1] = e
  OBVIOUS

\* Nothing is stored and nobody reads at the start.
LEMMA InitHolds == Init => ReadInv
  <1> SUFFICES ASSUME Init PROVE ReadInv
    BY Zenon
  <1>1. nodes \in Seq([pid : Task, value : Int]) /\ Len(nodes) = 0
    BY DEF Init
  <1>2. Shape
    BY <1>1 DEF Init, Shape, TypeOK
  <1>3. \A t \in Task : pc[t] \in {"user", "none"} /\ mine[t] = NONE
    BY Zenon DEF Init
  <1> QED BY Zenon, <1>2, <1>3 DEF ReadInv, Compared, Filed, Local, Inside, Walking

\* What another task's step leaves alone stays right.
LEMMA Untouched ==
    ASSUME ReadInv, NEW t \in Task,
           UNCHANGED <<sys, value, nodes>>,
           pc'[t] = pc[t], val'[t] = val[t], mine'[t] = mine[t],
           pc[t] = "compare" => walk'[t] = walk[t]
    PROVE  IF Part' = 1 THEN Compared(t)' ELSE (Filed(t) /\ Local(t))'
  <1>1. Part' = Part
    BY Zenon DEF Part
  <1>2. Part = 1 => Compared(t)'
    BY Zenon DEF ReadInv, Compared
  <1>3. Part # 1 => Filed(t)' /\ Local(t)'
    BY <1>1 DEF ReadInv, Filed, Local, Found, Inside
  <1> QED BY Zenon, <1>1, <1>2, <1>3

-----------------------------------------------------------------------------
\* A read that returns is back in user code with its reply.
LEMMA ReturnStep ==
    ASSUME ReadInv, NEW t \in Task, NEW r, Return(t, r), Quiet
    PROVE  ReadInv' /\ pc'[t] = "user" /\ reply'[t] = r
  <1>1. UNCHANGED <<sys, value, nodes, mine>>
    BY Zenon DEF Quiet, driver
  <1>2. Shape' /\ pc'[t] = "user" /\ reply'[t] = r
    BY <1>1 DEF ReadInv, Shape, TypeOK, Return
  <1>3. \A u \in Task \ {t} : pc'[u] = pc[u] /\ val'[u] = val[u] /\ walk'[u] = walk[u]
    BY Zenon DEF ReadInv, Shape, TypeOK, Return
  <1>4. \A u \in Task \ {t} :
            IF Part' = 1 THEN Compared(u)' ELSE Filed(u)' /\ Local(u)'
    BY Zenon, <1>1, <1>3, Untouched
  <1>5. Part' = 1 => Compared(t)'
    BY Zenon, <1>2 DEF Compared, Walking
  <1>6. Part' # 1 => Filed(t)' /\ Local(t)'
    BY <1>1, <1>2 DEF ReadInv, Filed, Found, Local, Inside, Walking, Part
  <1> QED BY Zenon, <1>2, <1>4, <1>5, <1>6 DEF ReadInv

\* A read that goes on: what is left to show is about the reader itself.
LEMMA GoStep ==
    ASSUME ReadInv, NEW t \in Task, NEW label \in Labels, NEW v \in Int, NEW w,
           Go(t, label, v, w), Quiet,
           (pc'[t] = label /\ val'[t] = v /\ walk'[t] = w) =>
               IF Part = 1 THEN Compared(t)' ELSE Local(t)'
    PROVE  ReadInv' /\ pc'[t] = label
  <1>1. UNCHANGED <<sys, value, nodes, mine, reply>>
    BY Zenon DEF Quiet, driver, Go
  <1>2. Shape' /\ pc'[t] = label /\ val'[t] = v /\ walk'[t] = w
    BY Zenon, <1>1 DEF ReadInv, Shape, TypeOK, Go, Labels
  <1>3. \A u \in Task \ {t} : pc'[u] = pc[u] /\ val'[u] = val[u] /\ walk'[u] = walk[u]
    BY Zenon DEF ReadInv, Shape, TypeOK, Go
  <1>4. \A u \in Task \ {t} :
            IF Part' = 1 THEN Compared(u)' ELSE Filed(u)' /\ Local(u)'
    BY Zenon, <1>1, <1>3, Untouched
  <1>5. Part' = Part
    BY Zenon, <1>1 DEF Part
  <1>6. Part # 1 => Filed(t)'
    BY Zenon, <1>1 DEF ReadInv, Filed, Found
  <1> QED BY Zenon, <1>2, <1>4, <1>5, <1>6 DEF ReadInv

\* The value that the search of the list finds is a number, and the task's own
\* if it has stored one.
LEMMA SearchFindsOwn ==
    ASSUME ReadInv, Part # 1, NEW t \in Task, NEW v \in Values, Search(t, v)
    PROVE  v \in Int /\ (mine[t] # NONE => v = mine[t])
  <1>1. Filed(t) /\ nodes \in Seq([pid : Task, value : Int])
    BY Zenon DEF ReadInv, Shape, TypeOK
  <1>2. \A i \in 1 .. Len(nodes) : nodes[i] \in [pid : Task, value : Int]
    BY Zenon, <1>1, SequenceElement
  <1>3. v \in Int
    BY <1>2 DEF Values, Questions
  <1>4. ASSUME mine[t] # NONE PROVE v = mine[t]
    <2>1. PICK i \in 1 .. Len(nodes) : Found(t, i) /\ nodes[i].value = mine[t]
      BY Zenon, <1>1, <1>4 DEF Filed
    <2>2. PICK j \in 1 .. Len(nodes) : Found(t, j) /\ v = nodes[j].value
      BY Zenon, <2>1 DEF Search
    <2>3. Len(nodes) \in Nat
      BY <1>1
    <2>4. i = j
      BY <2>1, <2>2, <2>3 DEF Found
    <2> QED BY Zenon, <2>1, <2>2, <2>4
  <1> QED BY Zenon, <1>3, <1>4

\* demo_read up to its first comparison.
LEMMA ReadStep ==
    ASSUME ReadInv, NEW t \in Task, NEW length, Read(t, length)
    PROVE  ReadInv'
  <1>1. Quiet
    BY Zenon DEF Read
  <1>2. CASE Return(t, Reply(EINVAL, NONE, NONE))
    BY Zenon, <1>1, <1>2, ReturnStep
  <1>3. CASE Part = 1 /\ Go(t, "compare", 0, Walk(NONE, 0, NONE, {}, {value}, 0))
    <2> DEFINE w == Walk(NONE, 0, NONE, {}, {value}, 0)
    <2>1. w.ever = {value} /\ IsFiniteSet({value})
      BY Zenon, FS_Singleton DEF Walk
    <2>2. value' = value
      BY Zenon, <1>1 DEF Quiet, driver
    <2> HIDE DEF w
    <2>3. (pc'[t] = "compare" /\ val'[t] = 0 /\ walk'[t] = w) => Compared(t)'
      BY <2>1, <2>2 DEF Compared, Walking
    <2>4. Go(t, "compare", 0, w)
      BY Zenon, <1>3 DEF w
    <2> QED BY <1>1, <1>3, <2>3, <2>4, GoStep DEF Labels
  <1>4. CASE Part # 1 /\ \E v \in Values : Search(t, v) /\ Go(t, "switch", v, NoWalk)
    <2>1. PICK v \in Values : Search(t, v) /\ Go(t, "switch", v, NoWalk)
      BY Zenon, <1>4
    <2>2. v \in Int /\ (mine[t] # NONE => v = mine[t])
      BY Zenon, <1>4, <2>1, SearchFindsOwn
    <2>3. mine' = mine
      BY Zenon, <1>1 DEF Quiet
    <2>4. (pc'[t] = "switch" /\ val'[t] = v /\ walk'[t] = NoWalk) => Local(t)'
      BY Zenon, <2>2, <2>3 DEF Local, Walking
    <2> QED BY Zenon, <1>1, <1>4, <2>1, <2>2, <2>4, GoStep DEF Labels
  <1> QED BY Zenon, <1>2, <1>3, <1>4 DEF Read

\* One comparison of part 1.
LEMMA CompareStep ==
    ASSUME ReadInv, NEW t \in Task, Compare(t)
    PROVE  ReadInv' /\ OwnAnswer(t) /\ GlobalAnswer(t)
  <1> DEFINE w == walk[t]
             q == val[t]
  <1>1. Part = 1 /\ Compared(t) /\ pc[t] = "compare" /\ Quiet
    BY Zenon DEF ReadInv, Compare, Local
  <1>2. /\ q \in 0 .. 4 /\ value \in w.ever /\ IsFiniteSet(w.ever)
        /\ \A p \in 0 .. q - 1 : w.ever # {p}
    BY Zenon, <1>1 DEF Compared
  <1>3. \/ value = q /\ Return(t, Reply(SIZE, q, t))
        \/ value # q /\ q = 4 /\ Return(t, Reply(EINVAL, NONE, NONE))
        \/ value # q /\ q # 4 /\ Go(t, "compare", q + 1, w)
    BY Zenon DEF Compare
  <1>4. Cardinality(w.ever) = 1 => w.ever = {value}
    BY <1>2, FS_Singleton
  <1>5. Questions = 0 .. 4
    BY <1>1 DEF Questions
  <1>6. OwnAnswer(t)
    BY Zenon, <1>1 DEF OwnAnswer
  <1> HIDE DEF w, q
  <1>7. CASE value = q /\ Return(t, Reply(SIZE, q, t))
    <2>1. ReadInv' /\ reply'[t] = Reply(SIZE, q, t)
      BY Zenon, <1>1, <1>7, ReturnStep
    <2>2. reply'[t].ret = SIZE /\ reply'[t].question = value
      BY <1>7, <2>1 DEF Reply
    <2>3. GlobalAnswer(t)
      BY Zenon, <1>2, <1>4, <1>5, <1>7, <2>2 DEF GlobalAnswer, w
    <2> QED BY Zenon, <1>6, <2>1, <2>3
  <1>8. CASE value # q /\ q = 4 /\ Return(t, Reply(EINVAL, NONE, NONE))
    <2>1. ReadInv' /\ reply'[t] = Reply(EINVAL, NONE, NONE)
      BY Zenon, <1>1, <1>8, ReturnStep
    <2>2. reply'[t].ret # SIZE
      BY <2>1 DEF Reply, EINVAL, SIZE
    <2>3. Cardinality(w.ever) = 1 => ~(w.ever \subseteq Questions)
      <3> SUFFICES ASSUME Cardinality(w.ever) = 1 PROVE value \notin 0 .. 4
        BY Zenon, <1>2, <1>5
      <3>1. w.ever = {value}
        BY Zenon, <1>4
      <3>2. value \notin 0 .. 3
        BY <1>2, <1>8, <3>1
      <3> QED BY <1>8, <3>2
    <2>4. GlobalAnswer(t)
      BY Zenon, <2>2, <2>3 DEF GlobalAnswer, w
    <2> QED BY Zenon, <1>6, <2>1, <2>4
  <1>9. CASE value # q /\ q # 4 /\ Go(t, "compare", q + 1, w)
    <2>1. value' = value
      BY Zenon, <1>1 DEF Quiet, driver
    <2>2. q + 1 \in 0 .. 4 /\ q + 1 \in Int /\ q + 1 - 1 = q
      BY <1>2, <1>9
    <2>3. \A p \in 0 .. q : w.ever # {p}
      BY <1>2, <1>9
    <2>4. (pc'[t] = "compare" /\ val'[t] = q + 1 /\ walk'[t] = w) => Compared(t)'
      BY <1>2, <2>1, <2>2, <2>3 DEF Compared, Walking
    <2>5. ReadInv' /\ pc'[t] = "compare"
      BY Zenon, <1>1, <1>9, <2>2, <2>4, GoStep DEF Labels
    <2>6. GlobalAnswer(t)
      BY Zenon, <2>5 DEF GlobalAnswer, Returns
    <2> QED BY Zenon, <1>6, <2>5, <2>6
  <1> QED BY Zenon, <1>3, <1>7, <1>8, <1>9

\* The comparisons of parts 2 and 3.
LEMMA SwitchStep ==
    ASSUME ReadInv, NEW t \in Task, Switch(t)
    PROVE  ReadInv' /\ OwnAnswer(t) /\ GlobalAnswer(t)
  <1> DEFINE q == val[t]
  <1>1. Part # 1 /\ Local(t) /\ pc[t] = "switch" /\ Quiet /\ q \in Int
    BY Zenon DEF ReadInv, Switch, Compared, Shape, TypeOK
  <1>2. mine[t] # NONE => q = mine[t]
    BY Zenon, <1>1 DEF Local, Inside
  <1>3. GlobalAnswer(t)
    BY Zenon, <1>1 DEF GlobalAnswer
  <1>4. \/ q \in 0 .. 4 /\ Return(t, Reply(SIZE, q, t))
        \/ Part = 3 /\ q = 5 /\ \E w : Go(t, "threads", q, w)
        \/ Part = 3 /\ q = 6 /\ \E w : Go(t, "files", q, w)
        \/ Part = 3 /\ q = 7 /\ \E w : Go(t, "stacks", q, w)
        \/ /\ q \notin 0 .. 4 /\ ~(Part = 3 /\ q \in 5 .. 7)
           /\ Return(t, Reply(EINVAL, NONE, NONE))
    BY <1>1 DEF Switch
  <1>5. CASE q \in 0 .. 4 /\ Return(t, Reply(SIZE, q, t))
    <2>1. ReadInv' /\ reply'[t] = Reply(SIZE, q, t)
      BY Zenon, <1>1, <1>5, ReturnStep
    <2>2. OwnAnswer(t)
      BY <1>2, <1>5, <2>1 DEF OwnAnswer, Reply, Questions
    <2> QED BY Zenon, <1>3, <2>1, <2>2
  <1>6. ASSUME Part = 3, NEW l \in Walking, NEW w, Go(t, l, q, w),
               q = (IF l = "threads" THEN 5 ELSE IF l = "files" THEN 6 ELSE 7)
        PROVE  ReadInv' /\ OwnAnswer(t)
    <2>1. UNCHANGED <<sys, mine>>
      BY Zenon, <1>1 DEF Quiet
    <2>2. (pc'[t] = l /\ val'[t] = q /\ walk'[t] = w) => Local(t)'
      BY Zenon, <1>2, <1>6, <2>1 DEF Local, Walking, Part
    <2>3. ReadInv' /\ pc'[t] = l
      BY <1>1, <1>6, <2>2, GoStep DEF Labels, Walking
    <2> QED BY Zenon, <2>3 DEF OwnAnswer, Returns, Walking
  <1>7. CASE /\ q \notin 0 .. 4 /\ ~(Part = 3 /\ q \in 5 .. 7)
             /\ Return(t, Reply(EINVAL, NONE, NONE))
    <2>1. ReadInv' /\ reply'[t] = Reply(EINVAL, NONE, NONE)
      BY Zenon, <1>1, <1>7, ReturnStep
    <2>2. q \notin Questions
      BY <1>1, <1>7 DEF Questions
    <2>3. OwnAnswer(t)
      BY <1>2, <2>1, <2>2 DEF OwnAnswer, Reply
    <2> QED BY Zenon, <1>3, <2>1, <2>3
  <1> QED BY Zenon, <1>3, <1>4, <1>5, <1>6, <1>7 DEF Walking

\* One turn of a walk of part 3.
LEMMA WalkStep ==
    ASSUME ReadInv, NEW t \in Task,
           WalkThreads(t) \/ WalkFiles(t) \/ WalkStacks(t)
    PROVE  ReadInv' /\ OwnAnswer(t) /\ GlobalAnswer(t)
  <1>1. pc[t] \in Walking /\ Quiet
    BY Zenon DEF WalkThreads, WalkFiles, WalkStacks, Walking
  <1>2. Part # 1 /\ Local(t) /\ Part = 3 /\ val[t] \in Int
    BY Zenon, <1>1 DEF ReadInv, Compared, Local, Shape, TypeOK
  <1>3. GlobalAnswer(t)
    BY Zenon, <1>2 DEF GlobalAnswer
  <1>4. val[t] \in 5 .. 7 /\ (mine[t] # NONE => val[t] = mine[t])
    BY <1>1, <1>2 DEF Local, Inside, Walking
  <1>5. \/ \E x : Return(t, Reply(SIZE, val[t], x))
        \/ \E w : Go(t, pc[t], val[t], w)
        \/ Go(t, "oops", 0, NoWalk)
    <2>1. CASE WalkThreads(t)
      <3>1. val[t] = 5
        BY Zenon, <1>2, <2>1 DEF Local, WalkThreads
      <3> QED BY Zenon, <2>1, <3>1 DEF WalkThreads, Advance
    <2>2. CASE WalkFiles(t)
      <3>1. val[t] = 6
        BY Zenon, <1>2, <2>2 DEF Local, WalkFiles
      <3> QED BY Zenon, <2>2, <3>1 DEF WalkFiles
    <2>3. CASE WalkStacks(t)
      <3>1. val[t] = 7
        BY Zenon, <1>2, <2>3 DEF Local, WalkStacks
      <3> QED BY Zenon, <2>3, <3>1 DEF WalkStacks, Advance
    <2> QED BY Zenon, <2>1, <2>2, <2>3
  <1>6. ASSUME NEW x, Return(t, Reply(SIZE, val[t], x)) PROVE ReadInv' /\ OwnAnswer(t)
    <2>1. ReadInv' /\ reply'[t] = Reply(SIZE, val[t], x)
      BY Zenon, <1>1, <1>6, ReturnStep
    <2>2. val[t] \in Questions
      BY <1>2, <1>4 DEF Questions
    <2>3. OwnAnswer(t)
      BY <1>4, <2>1, <2>2 DEF OwnAnswer, Reply
    <2> QED BY Zenon, <2>1, <2>3
  <1>7. ASSUME NEW w, Go(t, pc[t], val[t], w) PROVE ReadInv' /\ OwnAnswer(t)
    <2>1. UNCHANGED <<sys, mine>>
      BY Zenon, <1>1 DEF Quiet
    <2>2. (pc'[t] = pc[t] /\ val'[t] = val[t] /\ walk'[t] = w) => Local(t)'
      BY Zenon, <1>1, <1>2, <2>1 DEF Local, Inside, Part
    <2>3. ReadInv' /\ pc'[t] = pc[t]
      BY <1>1, <1>2, <1>7, <2>2, GoStep DEF Labels, Walking
    <2> QED BY Zenon, <1>1, <2>3 DEF OwnAnswer, Returns, Walking
  <1>8. CASE Go(t, "oops", 0, NoWalk)
    <2>1. (pc'[t] = "oops" /\ val'[t] = 0 /\ walk'[t] = NoWalk) => Local(t)'
      BY Zenon DEF Local, Inside, Walking
    <2>2. ReadInv' /\ pc'[t] = "oops"
      BY <1>1, <1>2, <1>8, <2>1, GoStep DEF Labels
    <2> QED BY Zenon, <1>3, <2>2 DEF OwnAnswer, Returns
  <1> QED BY Zenon, <1>3, <1>5, <1>6, <1>7, <1>8

-----------------------------------------------------------------------------
\* Nobody returns in a step that leaves the readers where they are.
LEMMA NoReturn ==
    ASSUME NEW t \in Task, Inside(t) => pc'[t] = pc[t]
    PROVE  OwnAnswer(t) /\ GlobalAnswer(t)
  BY Zenon DEF OwnAnswer, GlobalAnswer, Returns, Inside

\* sysfs_store: a new node before the others, or a new value of the number.
LEMMA StoreStep ==
    ASSUME ReadInv, NEW t \in Task, NEW input \in Inputs, Store(t, input)
    PROVE  ReadInv' /\ pc' = pc
  <1>1. /\ value' = Scan(input)
        /\ nodes' = IF Part = 1 THEN nodes ELSE Push(t, value')
        /\ mine' = [mine EXCEPT ![t] = IF input = BAD THEN NONE ELSE input]
        /\ Seen({u \in Task : pc[u] = "compare"}, value')
        /\ UNCHANGED <<sys, pc, val, reply>>
        /\ pc[t] = "user"
    BY Zenon DEF Store
  <1>2. sys \in Systems /\ nodes \in Seq([pid : Task, value : Int])
    BY Zenon DEF ReadInv, Shape, TypeOK
  <1>3. input # BAD => input \in Int
    BY Zenon, <1>2, ThreadInfoAssumption DEF Inputs
  <1>4. value' \in Int
    BY Zenon, <1>1, <1>3 DEF Scan, ReadInv, Shape, TypeOK
  <1> DEFINE new == [pid |-> t, value |-> value']
  <1>5. new \in [pid : Task, value : Int]
    BY Zenon, <1>4
  <1>6. nodes' \in Seq([pid : Task, value : Int])
    BY Zenon, <1>1, <1>2, <1>5, SequenceAppended DEF Push
  <1>7. Shape'
    <2>1. mine' \in [Task -> Int \cup {NONE}]
      BY Zenon, <1>1, <1>3 DEF ReadInv, Shape, TypeOK
    <2>2. DOMAIN walk' = Task
      BY Zenon, <1>1 DEF Seen
    <2> QED BY Zenon, <1>1, <1>4, <1>6, <2>1, <2>2 DEF ReadInv, Shape, TypeOK
  <1>8. Part' = Part
    BY Zenon, <1>1 DEF Part
  <1>9. ASSUME Part = 1, NEW u \in Task PROVE Compared(u)'
    <2>1. Compared(u)
      BY Zenon, <1>9 DEF ReadInv
    <2>2. ASSUME pc[u] = "compare"
          PROVE  /\ value' \in walk'[u].ever
                 /\ IsFiniteSet(walk'[u].ever)
                 /\ \A q \in 0 .. val[u] - 1 : walk'[u].ever # {q}
      <3>1. walk'[u] = Notice(walk[u], value')
        BY Zenon, <1>1, <2>2 DEF Seen
      <3>2. walk'[u].ever = walk[u].ever \cup {value'}
        BY <3>1 DEF Notice, Walk
      <3>3. value \in walk[u].ever /\ IsFiniteSet(walk[u].ever)
        BY Zenon, <2>1, <2>2 DEF Compared
      <3>4. IsFiniteSet(walk'[u].ever)
        BY Zenon, <3>2, <3>3, FS_AddElement
      <3>5. \A q : walk'[u].ever = {q} => walk[u].ever = {q}
        BY Zenon, <3>2, <3>3
      <3> QED BY Zenon, <2>1, <2>2, <3>2, <3>4, <3>5 DEF Compared
    <2> QED BY Zenon, <1>1, <2>1, <2>2 DEF Compared
  <1>10. ASSUME Part # 1, NEW u \in Task PROVE Filed(u)' /\ Local(u)'
    <2>1. Filed(u) /\ Local(u)
      BY Zenon, <1>10 DEF ReadInv
    <2>2. /\ Len(nodes') = Len(nodes) + 1 /\ Len(nodes) \in Nat
          /\ \A i \in 1 .. Len(nodes) : nodes'[i] = nodes[i]
          /\ nodes'[Len(nodes) + 1] = new
      BY <1>1, <1>2, <1>5, <1>10, SequenceAppended DEF Push
    <2>3. CASE u = t
      <3>1. ASSUME mine'[t] # NONE PROVE mine'[t] = value'
        BY Zenon, <1>1, <3>1 DEF Scan, ReadInv, Shape, TypeOK
      <3> PICK k \in Nat : k = Len(nodes) + 1
        BY <2>2
      <3>2. k \in 1 .. Len(nodes') /\ Found(t, k)' /\ nodes'[k].value = value'
        BY <2>2 DEF Found
      <3>3. Filed(t)'
        BY Zenon, <3>1, <3>2 DEF Filed
      <3>4. Local(t)'
        BY Zenon, <1>1 DEF Local, Inside, Walking
      <3> QED BY Zenon, <2>3, <3>3, <3>4
    <2>4. CASE u # t
      <3>1. mine'[u] = mine[u]
        BY Zenon, <1>1, <2>4 DEF ReadInv, Shape, TypeOK
      <3>2. \A i \in 1 .. Len(nodes) : Found(u, i) => Found(u, i)'
        BY <2>2, <2>4 DEF Found
      <3>3. Filed(u)'
        BY <2>1, <2>2, <3>1, <3>2 DEF Filed
      <3>4. Local(u)'
        BY Zenon, <1>1, <2>1, <3>1 DEF Local, Inside, Part
      <3> QED BY Zenon, <3>3, <3>4
    <2> QED BY Zenon, <2>3, <2>4
  <1> QED BY Zenon, <1>1, <1>7, <1>8, <1>9, <1>10 DEF ReadInv

\* Changes of processes under the readers: tasks that read stay where they are.
LEMMA EnvironmentStep ==
    ASSUME ReadInv, NEW t \in Task, Environment(t)
    PROVE  ReadInv' /\ \A u \in Task : Inside(u) => pc'[u] = pc[u]
  <1> USE DEF driver
  <1>1. /\ UNCHANGED <<sys, value, nodes, val>>
        /\ pc' \in [Task -> Labels]
        /\ DOMAIN reply' = Task
        /\ DOMAIN walk' = Task
    BY Zenon DEF Environment, Create, Fork, Join, DropMm, Unlist, Open, Close, GrowStack,
       Recycle, Change, Seen, Unseen, ReadInv, Shape, TypeOK, Labels
  <1>2. \A u \in Task : pc'[u] = pc[u] \/ (~Inside(u) /\ ~Inside(u)')
    BY Zenon DEF Environment, Create, Fork, Join, DropMm, Unlist, Open, Close, GrowStack,
       Recycle, Change, ReadInv, Shape, TypeOK, Inside
  <1>3. \A u \in Task : pc[u] = "compare" => walk'[u] = walk[u]
    BY Zenon DEF Environment, Create, Fork, Join, DropMm, Unlist, Open, Close, GrowStack,
       Recycle, Change, Seen, Unseen, Listers, Walkers
  <1>4. /\ mine' \in [Task -> Int \cup {NONE}]
        /\ \A u \in Task : mine'[u] \in {mine[u], NONE}
    BY Zenon DEF Environment, Create, Fork, Join, DropMm, Unlist, Open, Close, GrowStack,
       Recycle, Change, ReadInv, Shape, TypeOK
  <1>5. Shape' /\ Part' = Part
    BY Zenon, <1>1, <1>4 DEF ReadInv, Shape, TypeOK, Labels, Part
  <1>6. ASSUME Part = 1, NEW u \in Task PROVE Compared(u)'
    BY Zenon, <1>1, <1>2, <1>3, <1>6 DEF ReadInv, Compared, Inside, Walking
  <1>7. ASSUME Part # 1, NEW u \in Task PROVE Filed(u)' /\ Local(u)'
    <2>1. Filed(u) /\ Local(u)
      BY Zenon, <1>7 DEF ReadInv
    <2>2. Filed(u)'
      BY Zenon, <1>1, <1>4, <2>1 DEF Filed, Found
    <2>3. Local(u)'
      BY Zenon, <1>1, <1>2, <1>4, <1>5, <2>1 DEF Local, Inside, Walking
    <2> QED BY Zenon, <2>2, <2>3
  <1> QED BY Zenon, <1>2, <1>5, <1>6, <1>7 DEF ReadInv

\* Every step keeps the invariant, and answers as the two properties say.
LEMMA NextAnswers ==
    ASSUME ReadInv, Next
    PROVE  ReadInv' /\ \A t \in Task : OwnAnswer(t) /\ GlobalAnswer(t)
  <1>1. PICK t \in Task : Calls(t) \/ Reading(t) \/ Environment(t)
    BY Zenon DEF Next
  <1>2. CASE \E input \in Inputs : Store(t, input)
    BY Zenon, <1>2, StoreStep, NoReturn
  <1>3. CASE \E length \in Lengths : Read(t, length)
    <2>1. ReadInv'
      BY Zenon, <1>3, ReadStep
    <2>2. \A u \in Task : Inside(u) => pc'[u] = pc[u]
      BY Zenon, <1>3 DEF Read, Return, Go, Inside, ReadInv, Shape, TypeOK
    <2> QED BY Zenon, <2>1, <2>2, NoReturn
  <1>4. CASE Reading(t)
    <2>1. ReadInv' /\ OwnAnswer(t) /\ GlobalAnswer(t)
      BY Zenon, <1>4, CompareStep, SwitchStep, WalkStep DEF Reading
    <2>2. \E x : pc' = [pc EXCEPT ![t] = x]
      BY Zenon, <1>4 DEF Reading, Compare, Switch, WalkThreads, WalkFiles, WalkStacks, Advance,
         Return, Go
    <2>3. \A u \in Task \ {t} : pc'[u] = pc[u]
      BY Zenon, <2>2 DEF ReadInv, Shape, TypeOK
    <2> QED BY Zenon, <2>1, <2>3, NoReturn
  <1>5. CASE Environment(t)
    BY Zenon, <1>5, EnvironmentStep, NoReturn
  <1> QED BY Zenon, <1>1, <1>2, <1>3, <1>4, <1>5 DEF Calls

\* Stuttering.
LEMMA StutterAnswers ==
    ASSUME ReadInv, UNCHANGED vars
    PROVE  ReadInv' /\ \A t \in Task : OwnAnswer(t) /\ GlobalAnswer(t)
  <1>1. UNCHANGED <<sys, value, nodes, pc, val, walk, reply, mine>>
    BY Zenon DEF vars, driver, locals
  <1>2. Shape'
    BY Zenon, <1>1 DEF ReadInv, Shape, TypeOK
  <1>3. \A t \in Task : IF Part' = 1 THEN Compared(t)' ELSE Filed(t)' /\ Local(t)'
    BY Zenon, <1>1, Untouched
  <1>4. \A t \in Task : OwnAnswer(t) /\ GlobalAnswer(t)
    BY Zenon, <1>1, NoReturn
  <1> QED BY Zenon, <1>2, <1>3, <1>4 DEF ReadInv

-----------------------------------------------------------------------------
\* The inductive invariant of sysfs_store and demo_read.
THEOREM ReadInvariance == Spec => []ReadInv
  <1>1. ReadInv /\ [Next]_vars => ReadInv'
    BY Zenon, NextAnswers, StutterAnswers
  <1> QED BY <1>1, InitHolds, PTL DEF Spec

\* Parts 2 and 3: a task that has stored a number is answered that question,
\* whatever other tasks store and however processes change in between.
THEOREM OwnChoiceIsAnswered == Spec => AnswersOwnChoice
  <1>1. ReadInv /\ [Next]_vars => [\A t \in Task : OwnAnswer(t)]_vars
    BY Zenon, NextAnswers, StutterAnswers
  <1> QED BY <1>1, ReadInvariance, PTL DEF Spec, AnswersOwnChoice, OwnAnswer

\* Part 1: the question answered is one the number asked during the call, and
\* the one if it did not change.
THEOREM GlobalNumberIsAnswered == Spec => AnswersGlobal
  <1>1. ReadInv /\ [Next]_vars => [\A t \in Task : GlobalAnswer(t)]_vars
    BY Zenon, NextAnswers, StutterAnswers
  <1> QED BY <1>1, ReadInvariance, PTL DEF Spec, AnswersGlobal, GlobalAnswer

\* The processes, and what the walks over their files and stacks have met: GroupInv
\* is an invariant of the drivers under any changes of processes.
THEOREM GroupInvariance == Spec => []GroupInv
  <1>1. Init => GroupInv
    BY Zenon, CountingHolds, InitGroups
  <1>2. ReadInv /\ GroupInv /\ [Next]_vars => GroupInv'
    BY Zenon, CountingHolds, NextKeepsGroups, StutterGroups
  <1> QED BY <1>1, <1>2, ReadInvariance, PTL DEF Spec

\* Part 3, question 7: the search over the threads ends at the reader itself, unless
\* the stack of the process has grown since the read began.
THEOREM StackIsReaders == Spec => StackAnswerIsReader
  <1>1. ReadInv /\ GroupInv /\ [Next]_vars => [\A t \in Task : StackAnswer(t)]_vars
    <2>1. ASSUME ReadInv, GroupInv, Next PROVE \A t \in Task : StackAnswer(t)
      BY Zenon, <2>1, CountingHolds, NextKeepsGroups
    <2> QED BY Zenon, <2>1
  <1> QED BY <1>1, ReadInvariance, GroupInvariance, PTL
          DEF Spec, StackAnswerIsReader, StackAnswer

\* The lists, and what the counts of threads have met: CountInv is an invariant of the
\* drivers under any changes of processes.
THEOREM CountInvariance == Spec => []CountInv
  <1>1. Init => CountInv
    BY CountingHolds, InitGroups, InitOrder DEF CountInv
  <1>2. ReadInv /\ CountInv /\ [Next]_vars => CountInv'
    <2>1. ASSUME ReadInv, CountInv, Next PROVE CountInv'
      BY <2>1, CountingHolds, NextKeepsGroups, NextKeepsOrder DEF CountInv
    <2>2. ASSUME ReadInv, CountInv, UNCHANGED vars PROVE CountInv'
      BY <2>2, StutterGroups, StutterOrder DEF CountInv
    <2> QED BY <2>1, <2>2
  <1> QED BY <1>1, <1>2, ReadInvariance, PTL DEF Spec

\* Part 3, questions 5 and 6: a count is no less than what was there throughout the
\* read and no more than what was there at some time.
THEOREM CountsArePlausible == Spec => CountIsPlausible
  <1>1. ReadInv /\ CountInv /\ [Next]_vars => [\A t \in Task : CountAnswer(t)]_vars
    <2>1. ASSUME ReadInv, CountInv, Next PROVE \A t \in Task : CountAnswer(t)
      BY <2>1, CountingHolds, NextKeepsOrder DEF CountInv
    <2> QED BY <2>1
  <1> QED BY <1>1, ReadInvariance, CountInvariance, PTL
          DEF Spec, CountIsPlausible, CountAnswer

\* Part 3, question 7: the thread named in the answer was a thread of the reader's
\* process during the read.
THEOREM StackAnswersAreMembers == Spec => StackAnswerIsMember
  <1>1. Init => SearchInv
    BY Zenon DEF Init, SearchInv, SearchWalk
  <1>2. ReadInv /\ CountInv /\ SearchInv /\ [Next]_vars => SearchInv'
    <2>1. ASSUME ReadInv, CountInv, SearchInv, Next PROVE SearchInv'
      BY Zenon, <2>1, NextKeepsSearch DEF CountInv
    <2>2. ASSUME ReadInv, SearchInv, UNCHANGED vars PROVE SearchInv'
      <3>1. UNCHANGED <<sys, pc, walk, next, listed>>
        BY <2>2 DEF vars, locals, process
      <3> QED BY Zenon, <2>2, <3>1, SearchStays DEF SearchInv
    <2> QED BY Zenon, <2>1, <2>2
  <1>3. ReadInv /\ CountInv /\ SearchInv /\ [Next]_vars => [\A t \in Task : SearchAnswer(t)]_vars
    <2>1. ASSUME ReadInv, CountInv, SearchInv, Next PROVE \A t \in Task : SearchAnswer(t)
      BY Zenon, <2>1, NextKeepsSearch DEF CountInv
    <2> QED BY Zenon, <2>1
  <1> QED BY <1>1, <1>2, <1>3, ReadInvariance, CountInvariance, PTL
          DEF Spec, StackAnswerIsMember, SearchAnswer
=============================================================================
