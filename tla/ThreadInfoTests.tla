-------------------------- MODULE ThreadInfoTests --------------------------
(***************************************************************************)
(* The test programs of Assignment_1 as clients of ThreadInfo.  A program  *)
(* gives each of its tasks a sequence of system calls and checks; running  *)
(* it interleaves the tasks in every way.  The ten threads of a program    *)
(* are scaled down to two; the sleeps that keep threads alive until the    *)
(* checks are done are taken to be long enough.  ANY is the program that   *)
(* makes any calls at all, within the bounds of its system.                *)
(***************************************************************************)
EXTENDS ThreadInfo

CONSTANTS
    m, u, n,     \* the main task of a program, and two more
    Suite        \* the programs to run on a system

ASSUME TestsAssumption == {m, u, n} = Task /\ DOMAIN Suite = Systems

VARIABLES
    prog,        \* the program that runs
    ip,          \* the next instruction of each task
    failed       \* some check has failed

testvars == <<vars, prog, ip, failed>>

ANY == [t \in Task |-> NONE]

\* Instructions.
STORE(v) == <<"store", v>>
OPEN == <<"open">>
CLOSE(s) == <<"close", s>>
READ == <<"read">>
FORK(t) == <<"fork", t>>
THREAD(t) == <<"pthread_create", t>>
AWAIT(t) == <<"await", t>>
EXPECT(q, x) == <<"expect", Reply(SIZE, q, x)>>
EXPECT_STRLEN(q, x) == <<"expect", Reply(4, q, x)>>  \* a pid of four digits

Tasks(mp, up, wp) ==
    [t \in Task |-> CASE t = m -> mp [] t = u -> up [] t = n -> wp]
Alone(p) == Tasks(p, << >>, << >>)

\* Ask a question and check the answer, through two newly opened files.
Ask(q, x) == <<OPEN, STORE(q), OPEN, READ, EXPECT(q, x)>>

-----------------------------------------------------------------------------
user_prog_1(option) == Alone(Ask(option, m))
user_prog_1_in_turn(o1, o2) == Tasks(Ask(o1, m) \o <<FORK(u)>>, Ask(o2, u), << >>)
\* Two runs of user_prog_1 side by side, as the readme of part 2 asks for.
user_prog_1_and_2(o1, o2) == Tasks(<<FORK(u)>> \o Ask(o1, m), Ask(o2, u), << >>)

test1 == Alone(<<OPEN, STORE(0), OPEN, READ, EXPECT_STRLEN(0, m), CLOSE(3), CLOSE(4)>>)
test2 == Alone(<<OPEN, STORE(0), STORE(1), OPEN, READ, EXPECT(1, m)>>)
test3 == Alone(Ask(2, m))
test4 == Alone(Ask(3, m))
test5 == Alone(Ask(4, m))

\* Parent and child share both files and ask different questions.
test6 == Tasks(<<OPEN, STORE(0), OPEN, FORK(u), AWAIT(u), READ, EXPECT(0, m)>>,
               <<STORE(1), READ, EXPECT(1, u), CLOSE(3), CLOSE(4)>>,
               << >>)

\* A chain of processes, each with a question of its own (its pid modulo 5).
test7(x, y, z) ==
    Tasks(<<OPEN, STORE(x), FORK(u), AWAIT(u), OPEN, READ, EXPECT(x, m)>>,
          <<OPEN, STORE(y), FORK(n), AWAIT(n), OPEN, READ, EXPECT(y, u)>>,
          <<OPEN, STORE(z), OPEN, READ, EXPECT(z, n)>>)

test8 == Tasks(<<OPEN, STORE(0), STORE(1), STORE(3), OPEN, FORK(u), AWAIT(u),
                 READ, EXPECT(3, m), READ, EXPECT(3, m)>>,
               <<STORE(1), READ, EXPECT(1, u), CLOSE(3), CLOSE(4)>>,
               << >>)

test9 == Alone(<<THREAD(u), THREAD(n)>> \o Ask(5, 3))

\* One thread stores, another reads.
test10 == Tasks(<<THREAD(u), THREAD(n)>>,
                <<AWAIT(n), OPEN, READ, EXPECT(5, 3)>>,
                <<OPEN, STORE(5)>>)

test11 == Tasks(<<THREAD(n), THREAD(u)>>,
                <<OPEN, STORE(6), OPEN, OPEN, READ, EXPECT(6, 6)>>,
                << >>)
test12 == Tasks(<<THREAD(n), THREAD(u)>>,
                <<OPEN, STORE(6), OPEN, OPEN, CLOSE(3), READ, EXPECT(6, 5)>>,
                << >>)

\* Another thread has the largest stack.
test13 == Alone(<<THREAD(u), THREAD(n)>> \o Ask(7, n))

multi1 == Alone(<<THREAD(u), THREAD(n)>> \o Ask(5, 3))
multi2 == Tasks(<<THREAD(n), THREAD(u)>>, Ask(6, 5), << >>)
multi3 == Alone(<<THREAD(u), THREAD(n)>> \o Ask(7, m))

\* The programs meant for each driver.
Single == {test1, test2, test3, test4, test5} \cup {user_prog_1(o) : o \in 0 .. 4}
Suite1 == Single \cup {user_prog_1_in_turn(x, y) : x, y \in 0 .. 4}
Suite2 == Single \cup {test6, test8}
          \cup {test7(x, y, z) : x, y, z \in {0, 2, 4}}
          \cup {user_prog_1_and_2(x, y) : x, y \in {0, 1, 3}}
Suite3 == Single \cup {test9, test10, test11, test12, test13, multi1, multi2, multi3}

-----------------------------------------------------------------------------
TestInit ==
    /\ Init
    /\ prog \in Suite[sys]
    /\ ip = [t \in Task |-> 1]
    /\ failed = FALSE

Ended(t) == ip[t] > Len(prog[t])

Execute(t, i) ==
    \/ i[1] = "store" /\ Store(t, i[2]) /\ UNCHANGED failed
    \/ i[1] = "open" /\ Open(t) /\ UNCHANGED failed
    \/ i[1] = "close" /\ Close(t, i[2]) /\ UNCHANGED failed
    \/ i[1] = "read" /\ Read(t, SIZE) /\ UNCHANGED failed
    \/ i[1] = "fork" /\ Fork(t, i[2]) /\ UNCHANGED failed
    \/ i[1] = "pthread_create" /\ Create(t, i[2]) /\ UNCHANGED failed
    \/ i[1] = "await" /\ Ended(i[2]) /\ UNCHANGED <<vars, failed>>
    \/ /\ i[1] = "expect"
       /\ failed' = (failed \/ reply[t] # i[2])
       /\ UNCHANGED vars

\* A task with a program runs it; one without makes any calls.
Work(t) ==
    /\ prog # ANY /\ pc[t] = "user" /\ ~Ended(t)
    /\ Execute(t, prog[t][ip[t]])
    /\ ip' = [ip EXCEPT ![t] = @ + 1]
    /\ UNCHANGED <<sys, prog>>

AnyCall(t) ==
    /\ prog = ANY
    /\ Calls(t) \/ Environment(t)
    /\ UNCHANGED <<prog, ip, failed>>

Serve(t) == Reading(t) /\ UNCHANGED <<prog, ip, failed>>

TestNext == \E t \in Task : Work(t) \/ AnyCall(t) \/ Serve(t)

\* A task keeps running, in the kernel and in a test program.
TestSpec ==
    /\ TestInit /\ [][TestNext]_testvars
    /\ \A t \in Task : WF_testvars(Work(t)) /\ WF_testvars(Serve(t))

\* Every check of every program succeeds, however its tasks are interleaved,
\* but for three: test1 compares the return value with the length of the answer
\* (the driver returns the length asked for) and test13 expects the thread with
\* the largest stack (the driver sees one stack), so they always fail; test10
\* reads in another thread than it stored in, which gets what was on the
\* kernel's stack.
Verdicts ==
    /\ failed => prog \in {test1, test10, test13}
    /\ prog \in {test1, test13} /\ (\A t \in Task : Ended(t)) => failed
=============================================================================
