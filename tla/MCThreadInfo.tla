---------------------------- MODULE MCThreadInfo ----------------------------
(* The drivers of Assignment_1, each with its test programs and with a few *)
(* tasks that make any calls.                                              *)
EXTENDS ThreadInfoTests, TLC

Processes == [t \in Task |-> t]
Threads == [t \in Task |-> m]

\* What the test programs need.
Tested(part, leader) ==
    [part |-> part, leader |-> leader, first |-> {m}, readers |-> Task,
     inputs |-> {0}, lengths |-> {SIZE}, slots |-> 7, stores |-> 9, changes |-> 9]

\* Two processes store and read; in part 2 the second is forked, or ends and
\* its pid is used again.
Any1 == [Tested(1, Processes) EXCEPT !.first = {m, u}, !.readers = {m, u},
            !.inputs = {0, 4, 9, BAD}, !.lengths = {2, SIZE},
            !.slots = 5, !.stores = 3, !.changes = 0]
Any2 == [Any1 EXCEPT !.part = 2, !.first = {m}, !.inputs = {0, 9, BAD}, !.changes = 1]
\* One thread reads while the others change the process.
Any3 == [Tested(3, Threads) EXCEPT !.readers = {u}, !.inputs = {5},
            !.slots = 4, !.stores = 1, !.changes = 3]

MCSuite == Tested(1, Processes) :> Suite1 @@ Tested(2, Processes) :> Suite2
           @@ Tested(3, Threads) :> Suite3
           @@ Any1 :> {ANY} @@ Any2 :> {ANY} @@ Any3 :> {ANY}
MCSystems == {Tested(1, Processes), Tested(2, Processes), Tested(3, Threads),
              Any1, Any2, Any3}
=============================================================================
