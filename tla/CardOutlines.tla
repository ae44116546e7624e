---------------------------- MODULE CardOutlines ----------------------------
(***************************************************************************)
(* Proof outlines of the card's programs: before each line of a program a  *)
(* set of data, such that every line leads from the data before it to the  *)
(* data after it as long as no interrupt came late.  They are the core of  *)
(* the inductive invariant of CardPrograms.                                *)
(***************************************************************************)
EXTENDS CardPrograms

\* The lines that programs are made of.
Bit == {SET, UNSET}
Openings ==
    {create_device_handle(dma, irq, ka, kb) :
        dma \in Bit, irq \in Bit, ka \in Byte, kb \in Byte}
CipherCalls ==
    {encrypt(size, m) : size \in Nat, m \in {0, 1}} \cup
    {decrypt(size, m) : size \in Nat, m \in {0, 1}}
References ==
    {create_encrpyted_buffer(ka, kb) : ka \in Byte, kb \in Byte} \cup
    {turn_back(ka, kb) : ka \in Byte, kb \in Byte}
Comparisons ==
    {isValid(what, with) : what \in {"text", "card"}, with \in {"expected", "message"}}
Loops == {again(back, n) : back \in Nat, n \in Nat}
Mappings == {map_card(size) : size \in Nat}
Processes ==
    {fork(j) : j \in Nat} \cup {kill(j) : j \in Nat} \cup
    {wait(js) : js \in SUBSET Nat}
Plain == {close_handle, unmap_card, take, strncpy_card, passed, join_unset, exit}

ProgramLine ==
    UNION {Openings, CipherCalls, References, Comparisons, Loops, Mappings,
           Processes, Plain}

IsCall(l) == l.do \in {"encrypt", "decrypt"}

\* Does the code use the card's memory, or decrypt more than one chunk?
OnCard(code) ==
    \E n \in 1 .. Len(code) :
        code[n].do = "strncpy" \/ (IsCall(code[n]) /\ code[n].mapped = 1)
Short(size) == size <= 32768
TooLong(code) ==
    /\ ~OnCard(code)
    /\ \E n \in 1 .. Len(code) : code[n].do = "decrypt" /\ ~Short(code[n].size)

-----------------------------------------------------------------------------
\* What a line of a program works on.
Shifts == {JUNK} \cup 0 .. LETTERS - 1
Data ==
    [text : SUBSET Shifts, expected : SUBSET (0 .. LETTERS - 1), key : Nat,
     card : SUBSET Shifts, stuck : BOOLEAN]

D(text, expected, key, onCard, isStuck) ==
    [text |-> text, expected |-> expected, key |-> key, card |-> onCard,
     stuck |-> isStuck]

\* The message is one of text, and so on.
Knows(texts, expecteds, keys, cards, stucks) ==
    [text : texts, expected : expecteds, key : keys, card : cards, stuck : stucks]

\* The message is plain, and nobody has used the card's memory.
Idle == Knows({{0}}, SUBSET (0 .. LETTERS - 1), Nat, {{0}}, {FALSE})

Any == SUBSET (0 .. LETTERS - 1)
Keyed(x, E, K) == Knows({{x}}, E, K, {{0}}, {FALSE})

\* The lock is lost in a call for a mapped message.
Ready == Keyed(0, Any, {30 + 17})
Locked(E, C) == Knows({{0}}, E, {30 + 17}, C, {TRUE})

\* What the lines make of messages.
TurnedBy(l, key, message) == {Turn(Command(l.do, l.size), key, x) : x \in message}
CardAfter(l, d) ==
    TurnedBy(l, d.key, d.card) \cup IF l.size <= Chunk(l.do) THEN {} ELSE d.card
Encrypted(a, b) == {Distance(x, encryptMessage(a, b, x)) : x \in Text}
Decrypted(a, b, S) ==
    {Distance(x, decryptMessage(a, b, Shifted(x, s))) : x \in Text, s \in S}

Compares(l, d) ==
    (IF l.what = "text" THEN d.text ELSE d.card)
        = (IF l.with = "expected" THEN d.expected ELSE {0})

\* Lines that leave the data alone, lines that work on them, and lines at
\* which a process may end.
Silent == {"close", "unmap", "map", "passed", "fork", "kill", "wait", "join", "again"}
Working == {"open", "take", "strncpy", "expect", "unexpect"}
Ends == {"exit", "join"}
Quiet == {"close", "passed", "fork", "kill", "wait", "join", "exit"}

\* What the other lines make of the data, and what an ioctl does.
After(l, d) ==
    CASE l.do = "open" -> D(d.text, d.expected, l.fd.key, d.card, d.stuck)
      [] l.do = "take" -> D({0}, d.expected, d.key, d.card, d.stuck)
      [] l.do = "strncpy" -> D(d.text, d.expected, d.key, {0}, d.stuck)
      [] l.do = "expect" ->
            D(d.text, Encrypted(l.a, l.b), d.key, d.card, d.stuck)
      [] l.do = "unexpect" ->
            D(d.text, Decrypted(l.a, l.b, d.expected), d.key, d.card, d.stuck)

Called(l, d) ==
    IF l.mapped = 0
    THEN D(TurnedBy(l, d.key, d.text), d.expected, d.key, d.card, d.stuck)
    ELSE D(d.text, d.expected, d.key, CardAfter(l, d), TRUE)

\* The line leads from the data in P to those in Q.  A mapped call of several
\* ioctls does not come further than its first.
LineRule(l, P, Q) ==
    /\ l.do \in Silent => P \subseteq Q
    /\ l.do = "map" => l.size <= 1024 * KB - 168
    /\ l.do \in Ends => \A d \in P : d.text = {0}
    /\ l.do \in Working => \A d \in P : After(l, d) \in Q
    /\ IsCall(l) => \A d \in P : ~d.stuck =>
           Called(l, d) \in (IF l.mapped = 1 /\ Ioctls(l.do, l.size) # 1 THEN P ELSE Q)
    /\ l.do = "valid" => \A d \in P : Compares(l, d) => d \in Q

\* Line n of the code does so, wherever it goes on, and comparisons come out
\* unless they may fail.
Rule(code, note, n, mayFail) ==
    /\ LineRule(code[n], note[n], note[n + 1])
    /\ code[n].do = "again" =>
           code[n].back \in 1 .. n - 1 /\ note[n] \subseteq note[n - code[n].back]
    /\ code[n].do = "valid" => mayFail \/ \A d \in note[n] : Compares(code[n], d)

\* The same of a line that is not the end of a loop.
Goes(l, P, Q, mayFail) ==
    /\ LineRule(l, P, Q)
    /\ l.do # "again"
    /\ l.do = "valid" => mayFail \/ \A d \in P : Compares(l, d)

\* The code leads from pre to post.
Leads(code, pre, post, mayFail) ==
    \E note \in [1 .. Len(code) + 1 -> SUBSET Data] :
        /\ note[1] = pre
        /\ note[Len(code) + 1] = post
        /\ \A n \in 1 .. Len(code) : Rule(code, note, n, mayFail)

Code(code, pre, post, mayFail) ==
    code \in Seq(ProgramLine) /\ Leads(code, pre, post, mayFail)

\* A proof outline.  Code that uses the card's memory does not come to its
\* end; all other code does so with a plain message.
Outline(code, note) ==
    /\ note \in [1 .. Len(code) + 1 -> SUBSET Data]
    /\ note[1] = Idle
    /\ note[Len(code) + 1] = IF OnCard(code) THEN {} ELSE Idle
    /\ \A n \in 1 .. Len(code) : Rule(code, note, n, TooLong(code))

Note(code) == CHOOSE note : Outline(code, note)

SoundCode(code) ==
    /\ code \in Seq(ProgramLine)
    /\ \E note : Outline(code, note)
    /\ OnCard(code) => \A n \in 1 .. Len(code) : code[n].do \notin Ends

\* Code that stays out of the card's memory, and forks and kills these.
Work(code, kids) ==
    /\ Code(code, Idle, Idle, TooLong(code))
    /\ ~OnCard(code)
    /\ \A n \in 1 .. Len(code) : code[n].do \in {"fork", "kill"} => code[n].child \in kids

\* Only a program of one process uses the card's memory, and the first
\* process is neither forked nor killed.
SoundRun(r) ==
    /\ 1 \in DOMAIN r
    /\ \A t \in DOMAIN r : SoundCode(r[t].code)
    /\ \A t \in DOMAIN r : OnCard(r[t].code) => DOMAIN r = {1}
    /\ \A t \in DOMAIN r : \A n \in 1 .. Len(r[t].code) :
           r[t].code[n].do \in {"fork", "kill"} =>
               r[t].code[n].child \in DOMAIN r \ {1}

Fine(runs) == \A r \in runs : SoundRun(r)

-----------------------------------------------------------------------------
ProcState ==
    [state : {"new", "run", "exit", "killed"}, verdict : {"none", "passed", "failed"},
     at : Nat, round : Nat, calls : Nat, open : BOOLEAN,
     fd : [dma : Bit, irq : Bit, key : Nat],
     text : SUBSET Shifts, part : SUBSET Shifts,
     expected : SUBSET (0 .. LETTERS - 1)]

\* Where a process in state p is in its outline, if it is in one.
InOutline(code, p, onCard, isStuck) ==
    /\ D(p.text, p.expected, p.fd.key, onCard, isStuck) \in Note(code)[p.at]
    /\ p.calls > 0 /\ code[p.at].mapped = 0 =>
           p.part = TurnedBy(code[p.at], p.fd.key, p.text)

\* Between calls there is no part of a message; within a mapped call of
\* several ioctls the lock is lost.
InCall(code, p, isStuck) ==
    /\ p.calls = 0 => p.part = {}
    /\ p.calls > 0 => /\ p.at <= Len(code) /\ IsCall(code[p.at])
                      /\ code[p.at].mapped = 1 => isStuck

\* How a process in state p ended.
Explained(code, p, wasLate) ==
    /\ p.verdict = "failed" => wasLate \/ TooLong(code)
    /\ p.state = "exit" /\ p.verdict # "failed" /\ ~wasLate => p.text = {0}
    /\ OnCard(code) => p.state \notin {"exit", "killed"}

Holds(code, p, rounds, onCard, isStuck, wasLate) ==
    /\ p \in ProcState
    /\ p.at \in 1 .. Len(code) + 1
    /\ p.round \in 1 .. rounds
    /\ InCall(code, p, isStuck)
    /\ ~wasLate /\ p.state = "run" => InOutline(code, p, onCard, isStuck)
    /\ Explained(code, p, wasLate)

\* The inductive invariant.
ProgramsInv ==
    /\ test \in Tests /\ SoundRun(run)
    /\ DOMAIN proc = DOMAIN run
    /\ card \subseteq Shifts /\ stuck \in BOOLEAN /\ late \in BOOLEAN
    /\ DOMAIN run = {1} => ~late
    /\ DOMAIN run # {1} => card = {0} /\ ~stuck
    /\ \A t \in DOMAIN run :
           Holds(run[t].code, proc[t], MaxRounds[test[1]], card, stuck, late)
=============================================================================
