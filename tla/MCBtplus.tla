------------------------------ MODULE MCBtplus ------------------------------
(* The programs of Assignment_2 on an empty address space, and any calls   *)
(* on address spaces of a few pages with two or three areas and holes that *)
(* fit an area exactly, with a page to spare and not.                      *)
EXTENDS BtplusTests, TLC

CONSTANT t1

\* The areas of a layout: first page, pages, protection.
Layout(top, areas) ==
    [p \in 1 .. top |->
        IF \E x \in areas : p \in Pages(x[1], x[2])
        THEN LET x == CHOOSE x \in areas : p \in Pages(x[1], x[2])
             IN  [prot |-> x[3], val |-> IF p = x[1] THEN 7 ELSE 8]
        ELSE NONE]

Tested ==
    [threads |-> {t0}, top |-> 48, base |-> 30, huge |-> HUGE, prots |-> {"ro", "rw"},
     layout |-> Layout(48, {}), users |-> {"ok"}, topdown |-> TRUE,
     calls |-> 4, changes |-> 50]

\* One thread, with structs that cannot be read or written.
Alone(areas) ==
    [threads |-> {t0}, top |-> 8, base |-> 7, huge |-> 3, prots |-> {"none", "ro", "rw"},
     layout |-> Layout(8, areas), users |-> {"ok", "readonly", "unreadable"},
     topdown |-> FALSE, calls |-> 2, changes |-> 0]

\* Two threads: two ioctls side by side, or one while the address space changes.
Two(areas, n, k) ==
    [Alone(areas) EXCEPT !.threads = {t0, t1}, !.top = 5, !.base = 4,
        !.layout = Layout(5, areas), !.users = {"ok"},
        !.calls = n, !.changes = k]

MCAlone == {Alone({<<1, 2, "rw">>, <<5, 1, "ro">>, <<6, 1, "none">>}),
            Alone({<<2, 3, "rw">>}),
            Alone({<<3, 1, "ro">>, <<4, 2, "rw">>}),
            Alone({<<2, 1, "rw">>, <<4, 3, "rw">>})}
MCTwo == {Two({<<1, 2, "rw">>}, 2, 0), Two({<<1, 2, "rw">>}, 1, 2)}
MCSystems == {Tested} \cup MCAlone \cup MCTwo
MCSuite == [s \in MCSystems |->
               IF s = Tested THEN Passing \cup Failing \cup Either ELSE {ANY}]
=============================================================================
