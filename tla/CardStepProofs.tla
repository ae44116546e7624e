--------------------------- MODULE CardStepProofs ---------------------------
(***************************************************************************)
(* A process of the card's programs that follows its proof outline stays in*)
(* it, whatever the other processes do: first one process, then the actions*)
(* of CardPrograms, and with them the inductive invariant.                 *)
(***************************************************************************)
EXTENDS CardOutlines, TLAPS

\* The fields of a line.
LEMMA Fields ==
    \A l \in ProgramLine :
        /\ l.do = "open" => l.fd \in [dma : Bit, irq : Bit, key : Nat]
        /\ IsCall(l) => l.size \in Nat /\ l.mapped \in {0, 1}
        /\ l.do \in {"expect", "unexpect"} => l.a \in Byte /\ l.b \in Byte
  <1> DEFINE Typed(l) ==
        /\ l.do = "open" => l.fd \in [dma : Bit, irq : Bit, key : Nat]
        /\ IsCall(l) => l.size \in Nat /\ l.mapped \in {0, 1}
        /\ l.do \in {"expect", "unexpect"} => l.a \in Byte /\ l.b \in Byte
  <1> SUFFICES ASSUME NEW l \in ProgramLine PROVE Typed(l)
    BY Zenon
  <1>1. CASE l \in Openings
    <2>1. PICK dma \in Bit, irq \in Bit, ka \in Byte, kb \in Byte :
              l = create_device_handle(dma, irq, ka, kb)
      BY <1>1 DEF Openings
    <2>2. ka + kb \in Nat
      BY DEF Byte
    <2> QED BY <2>1, <2>2 DEF create_device_handle, IsCall
  <1>2. CASE l \in CipherCalls
    BY <1>2 DEF CipherCalls, encrypt, decrypt, IsCall
  <1>3. CASE l \in References
    BY <1>3 DEF References, create_encrpyted_buffer, turn_back, IsCall
  <1>4. CASE l \in Comparisons \cup Loops \cup Mappings
    BY <1>4 DEF Comparisons, Loops, Mappings, isValid, again, map_card, IsCall
  <1>5. CASE l \in Processes \cup Plain
    BY <1>5 DEF Processes, Plain, fork, kill, wait, close_handle, unmap_card, take,
                strncpy_card, passed, join_unset, exit, IsCall
  <1> QED BY Zenon, <1>1, <1>2, <1>3, <1>4, <1>5 DEF ProgramLine

-----------------------------------------------------------------------------
\* The outline of a sound code, and the rule of the line that comes next.
LEMMA RuleAt ==
    ASSUME NEW code, SoundCode(code)
    PROVE  /\ code \in Seq(ProgramLine) /\ Outline(code, Note(code))
           /\ Note(code)[1] = Idle
           /\ Note(code)[Len(code) + 1] = IF OnCard(code) THEN {} ELSE Idle
           /\ \A n \in 1 .. Len(code) :
                 code[n] \in ProgramLine /\ Rule(code, Note(code), n, TooLong(code))
           /\ \A n \in 1 .. Len(code) + 1 : n <= Len(code) => n \in 1 .. Len(code)
  <1>1. code \in Seq(ProgramLine) /\ \E note : Outline(code, note)
    BY Zenon DEF SoundCode
  <1>2. Outline(code, Note(code))
    BY Zenon, <1>1 DEF Note
  <1>3. \A n \in 1 .. Len(code) : code[n] \in ProgramLine
    BY <1>1
  <1>4. \A n \in 1 .. Len(code) + 1 : n <= Len(code) => n \in 1 .. Len(code)
    BY <1>1
  <1> HIDE DEF Note
  <1> QED BY Zenon, <1>1, <1>2, <1>3, <1>4 DEF Outline

\* A process that goes on to the next line with data the outline has there.
LEMMA OnwardHolds ==
    ASSUME NEW code, SoundCode(code), NEW rounds, NEW onCard, NEW isStuck, NEW wasLate,
           NEW cardNow, NEW stuckNow, NEW p, NEW q,
           Holds(code, p, rounds, onCard, isStuck, wasLate), p.state = "run", p.at <= Len(code),
           q \in ProcState, q.state = "run", q.at = p.at + 1, q.round = p.round, q.calls = 0,
           q.part = {}, q.verdict \in {p.verdict, "passed"},
           ~wasLate => D(q.text, q.expected, q.fd.key, cardNow, stuckNow) \in Note(code)[p.at + 1]
    PROVE  Holds(code, q, rounds, cardNow, stuckNow, wasLate)
  <1>1. q.at \in 1 .. Len(code) + 1
    <2>1. p.at \in 1 .. Len(code) + 1 /\ Len(code) \in Nat
      BY RuleAt DEF Holds
    <2> QED BY <2>1
  <1>2. InCall(code, q, stuckNow) /\ q.round \in 1 .. rounds
    BY DEF InCall, Holds
  <1>3. ~wasLate => InOutline(code, q, cardNow, stuckNow)
    BY DEF InOutline
  <1>4. Explained(code, q, wasLate)
    BY DEF Explained, Holds
  <1> QED BY Zenon, <1>1, <1>2, <1>3, <1>4 DEF Holds

\* Before a line that is no call there is no part of a message.
LEMMA BetweenCalls ==
    ASSUME NEW code, NEW rounds, NEW onCard, NEW isStuck, NEW wasLate, NEW p,
           Holds(code, p, rounds, onCard, isStuck, wasLate), ~IsCall(code[p.at])
    PROVE  p.calls = 0 /\ p.part = {}
  BY DEF Holds, InCall, ProcState

\* What the rule of the next line says of the data before and after it.
LEMMA LineLeads ==
    ASSUME NEW code, SoundCode(code), NEW rounds, NEW onCard, NEW isStuck, NEW wasLate, NEW p,
           Holds(code, p, rounds, onCard, isStuck, wasLate), p.state = "run", p.at <= Len(code)
    PROVE  /\ p.at \in 1 .. Len(code) /\ code[p.at] \in ProgramLine /\ p \in ProcState
           /\ Rule(code, Note(code), p.at, TooLong(code))
           /\ LineRule(code[p.at], Note(code)[p.at], Note(code)[p.at + 1])
           /\ ~wasLate => D(p.text, p.expected, p.fd.key, onCard, isStuck) \in Note(code)[p.at]
  <1>1. p.at \in 1 .. Len(code) /\ p \in ProcState
    BY Zenon, RuleAt DEF Holds
  <1>2. Rule(code, Note(code), p.at, TooLong(code)) /\ code[p.at] \in ProgramLine
    BY Zenon, <1>1, RuleAt
  <1>3. ~wasLate => D(p.text, p.expected, p.fd.key, onCard, isStuck) \in Note(code)[p.at]
    BY Zenon DEF Holds, InOutline
  <1> HIDE DEF Note
  <1> QED BY Zenon, <1>1, <1>2, <1>3 DEF Rule

\* A line that leaves the data alone: close, unmap, fork and the like.
LEMMA SilentHolds ==
    ASSUME NEW code, SoundCode(code), NEW rounds, NEW onCard, NEW isStuck, NEW wasLate, NEW p, NEW q,
           Holds(code, p, rounds, onCard, isStuck, wasLate), p.state = "run", p.at <= Len(code),
           code[p.at].do \in Silent,
           q \in ProcState, q.state = "run", q.at = p.at + 1, q.round = p.round, q.calls = p.calls,
           q.part = p.part, q.verdict \in {p.verdict, "passed"}, q.text = p.text,
           q.expected = p.expected, q.fd = p.fd
    PROVE  Holds(code, q, rounds, onCard, isStuck, wasLate)
  <1>0. /\ LineRule(code[p.at], Note(code)[p.at], Note(code)[p.at + 1])
        /\ ~wasLate => D(p.text, p.expected, p.fd.key, onCard, isStuck) \in Note(code)[p.at]
    BY LineLeads
  <1>1. ~IsCall(code[p.at])
    BY DEF IsCall, Silent
  <1>2. q.calls = 0 /\ q.part = {}
    BY Zenon, <1>1, BetweenCalls
  <1>3. ~wasLate => D(q.text, q.expected, q.fd.key, onCard, isStuck) \in Note(code)[p.at + 1]
    <2>1. Note(code)[p.at] \subseteq Note(code)[p.at + 1]
      BY Zenon, <1>0 DEF LineRule
    <2> QED BY Zenon, <1>0, <2>1
  <1> QED BY Zenon, <1>2, <1>3, OnwardHolds

\* A line that works on the data: open, take, strncpy, expect, unexpect.
LEMMA WorkingHolds ==
    ASSUME NEW code, SoundCode(code), NEW rounds, NEW onCard, NEW isStuck, NEW wasLate, NEW p, NEW q,
           NEW cardNow,
           Holds(code, p, rounds, onCard, isStuck, wasLate), p.state = "run", p.at <= Len(code),
           code[p.at].do \in Working,
           q \in ProcState, q.state = "run", q.at = p.at + 1, q.round = p.round, q.calls = p.calls,
           q.part = p.part, q.verdict = p.verdict,
           D(q.text, q.expected, q.fd.key, cardNow, isStuck)
               = After(code[p.at], D(p.text, p.expected, p.fd.key, onCard, isStuck))
    PROVE  Holds(code, q, rounds, cardNow, isStuck, wasLate)
  <1>0. /\ LineRule(code[p.at], Note(code)[p.at], Note(code)[p.at + 1])
        /\ ~wasLate => D(p.text, p.expected, p.fd.key, onCard, isStuck) \in Note(code)[p.at]
    BY LineLeads
  <1>1. ~IsCall(code[p.at])
    BY DEF IsCall, Working
  <1>2. q.calls = 0 /\ q.part = {} /\ q.verdict \in {p.verdict, "passed"}
    BY Zenon, <1>1, BetweenCalls
  <1>3. ~wasLate => D(q.text, q.expected, q.fd.key, cardNow, isStuck) \in Note(code)[p.at + 1]
    <2>1. \A d \in Note(code)[p.at] : After(code[p.at], d) \in Note(code)[p.at + 1]
      BY Zenon, <1>0 DEF LineRule
    <2> QED BY Zenon, <1>0, <2>1
  <1> QED BY Zenon, <1>2, <1>3, OnwardHolds

-----------------------------------------------------------------------------
\* A late interrupt explains more, not less.
LEMMA LateHolds ==
    ASSUME NEW code, NEW p, NEW rounds, NEW onCard, NEW isStuck, NEW wasLate, NEW isLate,
           Holds(code, p, rounds, onCard, isStuck, wasLate), isLate = wasLate \/ isLate = TRUE
    PROVE  Holds(code, p, rounds, onCard, isStuck, isLate)
  BY DEF Holds, Explained

\* A process that is killed, which never happens to one on the card.
LEMMA KilledHolds ==
    ASSUME NEW code, NEW p, NEW rounds, NEW onCard, NEW isStuck, NEW wasLate,
           Holds(code, p, rounds, onCard, isStuck, wasLate), ~OnCard(code)
    PROVE  Holds(code, [p EXCEPT !.state = "killed"], rounds, onCard, isStuck, wasLate)
  <1> DEFINE q == [p EXCEPT !.state = "killed"]
  <1>1. q \in ProcState
    BY DEF Holds, ProcState
  <1>2. /\ q.state = "killed" /\ q.at = p.at /\ q.round = p.round /\ q.calls = p.calls
        /\ q.part = p.part /\ q.verdict = p.verdict
    BY DEF Holds, ProcState
  <1> HIDE DEF q
  <1>3. InCall(code, q, isStuck) /\ Explained(code, q, wasLate)
    BY <1>2 DEF Holds, InCall, Explained
  <1>4. Holds(code, q, rounds, onCard, isStuck, wasLate)
    BY <1>1, <1>2, <1>3 DEF Holds
  <1> QED BY Zenon, <1>4 DEF q

\* A process that ends, with or without a failed comparison.
LEMMA ExitHolds ==
    ASSUME NEW code, NEW p, NEW q, NEW rounds, NEW onCard, NEW isStuck, NEW wasLate,
           Holds(code, p, rounds, onCard, isStuck, wasLate), ~OnCard(code), q \in ProcState,
           q.state = "exit", q.at = p.at, q.round = p.round, q.calls = p.calls, q.part = p.part,
           q.text = p.text, q.verdict = "failed" => wasLate \/ TooLong(code),
           ~wasLate /\ q.verdict # "failed" => p.text = {0}
    PROVE  Holds(code, q, rounds, onCard, isStuck, wasLate)
  <1>1. InCall(code, q, isStuck) /\ Explained(code, q, wasLate)
    BY DEF Holds, InCall, Explained
  <1> QED BY <1>1 DEF Holds

\* A process that has just been made, before the first line of its outline.
LEMMA FreshHolds ==
    ASSUME NEW code, SoundCode(code), NEW rounds \in Nat \ {0}, NEW wasLate, NEW state,
           state \in {"new", "run"}
    PROVE  Holds(code, Fresh(state), rounds, {0}, FALSE, wasLate)
  <1> DEFINE p == Fresh(state)
  <1>1. p \in ProcState
    <2>1. {0} \in SUBSET Shifts /\ {} \in SUBSET Shifts /\ {0} \in SUBSET (0 .. LETTERS - 1)
      BY DEF Shifts, LETTERS
    <2> QED BY <2>1 DEF Fresh, ProcState, Bit
  <1>2. /\ p.state = state /\ p.at = 1 /\ p.round = 1 /\ p.calls = 0 /\ p.part = {}
        /\ p.verdict = "none" /\ p.text = {0} /\ p.expected = {0} /\ p.fd.key = 0
    BY DEF Fresh
  <1> HIDE DEF p
  <1>3. 1 \in 1 .. Len(code) + 1 /\ 1 \in 1 .. rounds
    BY RuleAt
  <1>4. D({0}, {0}, 0, {0}, FALSE) \in Idle
    <2>1. {0} \in SUBSET (0 .. LETTERS - 1) /\ 0 \in Nat
      BY DEF LETTERS
    <2> DEFINE f == FALSE
    <2> HIDE DEF f
    <2>2. D({0}, {0}, 0, {0}, f) \in Knows({{0}}, SUBSET (0 .. LETTERS - 1), Nat, {{0}}, {f})
      BY <2>1 DEF Knows, D
    <2> QED BY Zenon, <2>2 DEF Idle, f
  <1>5. InOutline(code, p, {0}, FALSE)
    <2>1. ~(0 > 0)
      OBVIOUS
    <2>2. D(p.text, p.expected, p.fd.key, {0}, FALSE) \in Note(code)[p.at]
      <3>1. Note(code)[1] = Idle
        BY Zenon, RuleAt
      <3>2. D(p.text, p.expected, p.fd.key, {0}, FALSE) = D({0}, {0}, 0, {0}, FALSE)
        BY Zenon, <1>2
      <3> QED BY Zenon, <1>2, <1>4, <3>1, <3>2
    <2> QED BY Zenon, <1>2, <2>1, <2>2 DEF InOutline
  <1>6. InCall(code, p, FALSE) /\ Explained(code, p, wasLate)
    BY <1>2 DEF InCall, Explained
  <1>7. Holds(code, p, rounds, {0}, FALSE, wasLate)
    BY Zenon, <1>1, <1>2, <1>3, <1>5, <1>6 DEF Holds
  <1> QED BY Zenon, <1>7 DEF p

\* The end of a loop leads back into the outline.
LEMMA BackHolds ==
    ASSUME NEW code, SoundCode(code), NEW rounds \in Nat, NEW onCard, NEW isStuck, NEW wasLate, NEW p,
           Holds(code, p, rounds, onCard, isStuck, wasLate), p.state = "run", p.at <= Len(code),
           code[p.at].do = "again", p.round < rounds, NEW q,
           q = [p EXCEPT !.at = @ - code[p.at].back, !.round = @ + 1]
    PROVE  Holds(code, q, rounds, onCard, isStuck, wasLate)
  <1> DEFINE b == code[p.at].back
  <1>0. /\ p.at \in 1 .. Len(code) /\ p \in ProcState /\ Len(code) \in Nat
        /\ Rule(code, Note(code), p.at, TooLong(code))
        /\ ~wasLate => D(p.text, p.expected, p.fd.key, onCard, isStuck) \in Note(code)[p.at]
    BY LineLeads, RuleAt
  <1>1. b \in 1 .. p.at - 1 /\ Note(code)[p.at] \subseteq Note(code)[p.at - b]
    BY Zenon, <1>0 DEF Rule
  <1>2. p.calls = 0 /\ p.part = {}
    <2>1. ~IsCall(code[p.at])
      BY DEF IsCall
    <2> QED BY Zenon, <2>1, BetweenCalls
  <1>3. p.at - b \in 1 .. Len(code) /\ p.at - b \in Nat /\ p.round + 1 \in 1 .. rounds
        /\ p.round + 1 \in Nat
    BY <1>0, <1>1 DEF Holds
  <1>4. /\ q.at = p.at - b /\ q.round = p.round + 1 /\ q.state = "run" /\ q.calls = 0 /\ q.part = {}
        /\ q.text = p.text /\ q.expected = p.expected /\ q.fd = p.fd /\ q.verdict = p.verdict
        /\ q \in ProcState
    <2> HIDE DEF b
    <2>1. q = [p EXCEPT !.at = @ - b, !.round = @ + 1]
      BY DEF b
    <2> QED BY Zenon, <1>0, <1>2, <1>3, <2>1 DEF ProcState
  <1> HIDE DEF b
  <1>5. ~wasLate => InOutline(code, q, onCard, isStuck)
    <2>1. ~wasLate => D(q.text, q.expected, q.fd.key, onCard, isStuck) \in Note(code)[q.at]
      BY Zenon, <1>0, <1>1, <1>4
    <2> QED BY <1>4, <2>1 DEF InOutline
  <1>6. InCall(code, q, isStuck) /\ Explained(code, q, wasLate)
    BY <1>4 DEF Holds, InCall, Explained
  <1>7. q.at \in 1 .. Len(code) + 1
    BY <1>0, <1>3, <1>4
  <1> QED BY Zenon, <1>3, <1>4, <1>5, <1>6, <1>7 DEF Holds

-----------------------------------------------------------------------------
\* One ioctl on the program's own buffer, the last of its call or not.
LEMMA CallHolds ==
    ASSUME NEW code, SoundCode(code), NEW rounds, NEW onCard, NEW isStuck, NEW wasLate, NEW p,
           Holds(code, p, rounds, onCard, isStuck, wasLate), p.state = "run", p.at <= Len(code),
           IsCall(code[p.at]), code[p.at].mapped = 0, ~isStuck, NEW o \in SUBSET Shifts,
           ~wasLate => o = TurnedBy(code[p.at], p.fd.key, p.text)
    PROVE  /\ Holds(code, [p EXCEPT !.at = p.at + 1, !.text = p.part \cup o, !.part = {}, !.calls = 0],
                    rounds, onCard, isStuck, wasLate)
           /\ Holds(code, [p EXCEPT !.part = p.part \cup o, !.calls = p.calls + 1],
                    rounds, onCard, isStuck, wasLate)
  <1> DEFINE l == code[p.at]
             d == D(p.text, p.expected, p.fd.key, onCard, isStuck)
             q == [p EXCEPT !.at = p.at + 1, !.text = p.part \cup o, !.part = {}, !.calls = 0]
             r == [p EXCEPT !.part = p.part \cup o, !.calls = p.calls + 1]
  <1>0. /\ p \in ProcState /\ p.at \in 1 .. Len(code)
        /\ LineRule(l, Note(code)[p.at], Note(code)[p.at + 1])
        /\ ~wasLate => d \in Note(code)[p.at]
    BY LineLeads
  <1>1. ~wasLate => p.part \cup o = TurnedBy(l, p.fd.key, p.text)
    <2>1. CASE p.calls = 0
      BY <2>1 DEF Holds, InCall
    <2>2. CASE p.calls > 0
      BY <2>2 DEF Holds, InOutline
    <2> QED BY <1>0, <2>1, <2>2 DEF ProcState
  <1>2. p.part \cup o \in SUBSET Shifts /\ p.calls + 1 \in Nat /\ p.at + 1 \in Nat /\ p.calls + 1 > 0
        /\ p.calls + 1 # 0 /\ {} \in SUBSET Shifts
    BY <1>0 DEF ProcState
  <1>3. /\ q \in ProcState /\ q.state = "run" /\ q.at = p.at + 1 /\ q.round = p.round /\ q.calls = 0
        /\ q.part = {} /\ q.verdict = p.verdict /\ q.text = p.part \cup o /\ q.expected = p.expected
        /\ q.fd = p.fd
    BY Zenon, <1>0, <1>2 DEF ProcState
  <1>4. /\ r \in ProcState /\ r.state = "run" /\ r.at = p.at /\ r.round = p.round
        /\ r.calls = p.calls + 1 /\ r.part = p.part \cup o /\ r.verdict = p.verdict
        /\ r.text = p.text /\ r.expected = p.expected /\ r.fd = p.fd
    BY Zenon, <1>0, <1>2 DEF ProcState
  <1> HIDE DEF q, r
  <1>5. ~wasLate => D(q.text, q.expected, q.fd.key, onCard, isStuck) \in Note(code)[p.at + 1]
    <2> SUFFICES ASSUME ~wasLate PROVE D(q.text, q.expected, q.fd.key, onCard, isStuck) \in Note(code)[p.at + 1]
      OBVIOUS
    <2>1. l.mapped # 1
      OBVIOUS
    <2>2. \A e \in Note(code)[p.at] : ~e.stuck => Called(l, e) \in Note(code)[p.at + 1]
      BY <1>0, <2>1 DEF LineRule
    <2>3. d.stuck = isStuck /\ d.text = p.text /\ d.key = p.fd.key /\ d.expected = p.expected
          /\ d.card = onCard
      BY DEF D
    <2>4. Called(l, d) = D(TurnedBy(l, p.fd.key, p.text), p.expected, p.fd.key, onCard, isStuck)
      BY Zenon, <2>3 DEF Called
    <2> HIDE DEF l, d
    <2> QED BY Zenon, <1>0, <1>1, <1>3, <2>2, <2>3, <2>4
  <1>6. Holds(code, q, rounds, onCard, isStuck, wasLate)
    <2>1. q.verdict \in {p.verdict, "passed"}
      BY Zenon, <1>3
    <2> QED BY Zenon, <1>3, <1>5, <2>1, OnwardHolds
  <1>7. InCall(code, r, isStuck)
    BY <1>0, <1>2, <1>4 DEF InCall
  <1>8. ~wasLate => InOutline(code, r, onCard, isStuck)
    BY Zenon, <1>0, <1>1, <1>4 DEF InOutline
  <1>9. Explained(code, r, wasLate)
    BY Zenon, <1>4 DEF Holds, Explained
  <1>10. Holds(code, r, rounds, onCard, isStuck, wasLate)
    BY Zenon, <1>4, <1>7, <1>8, <1>9 DEF Holds
  <1> QED BY Zenon, <1>6, <1>10 DEF q, r

\* One ioctl on the card's memory: the only one of its call, or its first.
LEMMA MappedCallHolds ==
    ASSUME NEW code, SoundCode(code), NEW rounds, NEW onCard, NEW isStuck, NEW wasLate, NEW p,
           Holds(code, p, rounds, onCard, isStuck, wasLate), p.state = "run", p.at <= Len(code),
           IsCall(code[p.at]), code[p.at].mapped = 1, isStuck = FALSE, wasLate = FALSE
    PROVE  LET cardNow == CardAfter(code[p.at], D(p.text, p.expected, p.fd.key, onCard, isStuck)) IN
           /\ p.calls = 0
           /\ Ioctls(code[p.at].do, code[p.at].size) = 1 =>
                Holds(code, [p EXCEPT !.at = p.at + 1, !.calls = 0], rounds, cardNow, TRUE, wasLate)
           /\ Ioctls(code[p.at].do, code[p.at].size) # 1 =>
                Holds(code, [p EXCEPT !.calls = p.calls + 1], rounds, cardNow, TRUE, wasLate)
  <1> DEFINE l == code[p.at]
             d == D(p.text, p.expected, p.fd.key, onCard, isStuck)
             q == [p EXCEPT !.at = p.at + 1, !.calls = 0]
             r == [p EXCEPT !.calls = p.calls + 1]
             one == Ioctls(l.do, l.size) = 1
             yes == TRUE
  <1> HIDE DEF yes
  <1>0. /\ p \in ProcState /\ p.at \in 1 .. Len(code)
        /\ LineRule(l, Note(code)[p.at], Note(code)[p.at + 1]) /\ d \in Note(code)[p.at]
    BY LineLeads
  <1>1. p.calls = 0 /\ p.part = {}
    BY <1>0 DEF Holds, InCall, ProcState
  <1>2. p.calls + 1 \in Nat /\ p.at + 1 \in Nat /\ p.calls + 1 > 0 /\ p.calls + 1 # 0
    BY <1>0 DEF ProcState
  <1>3. /\ q \in ProcState /\ q.state = "run" /\ q.at = p.at + 1 /\ q.round = p.round /\ q.calls = 0
        /\ q.part = {} /\ q.verdict = p.verdict /\ q.text = p.text /\ q.expected = p.expected
        /\ q.fd = p.fd
    BY Zenon, <1>0, <1>1, <1>2 DEF ProcState
  <1>4. /\ r \in ProcState /\ r.state = "run" /\ r.at = p.at /\ r.round = p.round
        /\ r.calls = p.calls + 1 /\ r.part = {} /\ r.verdict = p.verdict
        /\ r.text = p.text /\ r.expected = p.expected /\ r.fd = p.fd
    BY Zenon, <1>0, <1>1, <1>2 DEF ProcState
  <1> HIDE DEF q, r
  <1> DEFINE cardNow == CardAfter(l, d)
  <1>5. \A e \in Note(code)[p.at] : ~e.stuck =>
            Called(l, e) \in (IF one THEN Note(code)[p.at + 1] ELSE Note(code)[p.at])
    BY <1>0 DEF LineRule
  <1>6. D(p.text, p.expected, p.fd.key, cardNow, yes)
            \in (IF one THEN Note(code)[p.at + 1] ELSE Note(code)[p.at])
    <2>3. d.stuck = isStuck /\ d.text = p.text /\ d.key = p.fd.key /\ d.expected = p.expected
      BY DEF D
    <2>4. l.mapped # 0
      OBVIOUS
    <2>5. Called(l, d) = D(p.text, p.expected, p.fd.key, cardNow, yes)
      <3>1. Called(l, d) = D(p.text, p.expected, p.fd.key, cardNow, TRUE)
        BY Zenon, <2>3, <2>4 DEF Called
      <3> QED BY Zenon, <3>1 DEF yes
    <2> HIDE DEF l, d, one, cardNow
    <2> QED BY Zenon, <1>0, <1>5, <2>3, <2>5
   <1> HIDE DEF cardNow
  <1>7. one => Holds(code, q, rounds, cardNow, yes, wasLate)
    <2> SUFFICES ASSUME one PROVE Holds(code, q, rounds, cardNow, yes, wasLate)
      BY Zenon
    <2>1. q.verdict \in {p.verdict, "passed"}
      BY Zenon, <1>3
    <2>2. D(q.text, q.expected, q.fd.key, cardNow, yes) \in Note(code)[p.at + 1]
      BY Zenon, <1>3, <1>6
    <2> QED BY Zenon, <1>3, <2>1, <2>2, OnwardHolds
  <1>8. ~one => Holds(code, r, rounds, cardNow, yes, wasLate)
    <2> SUFFICES ASSUME ~one PROVE Holds(code, r, rounds, cardNow, yes, wasLate)
      BY Zenon
    <2>0. yes
      BY Zenon DEF yes
    <2>1. InCall(code, r, yes)
      BY <1>0, <2>0, <1>2, <1>4 DEF InCall
    <2>2. InOutline(code, r, cardNow, yes)
      <3>1. l.mapped # 0
        OBVIOUS
      <3> QED BY Zenon, <1>4, <1>6, <3>1 DEF InOutline
    <2>3. Explained(code, r, wasLate)
      BY Zenon, <1>4 DEF Holds, Explained
    <2> QED BY Zenon, <1>4, <2>1, <2>2, <2>3 DEF Holds
  <1> QED BY Zenon, <1>1, <1>7, <1>8 DEF q, r, cardNow, yes

\* The same in a program that is alone with the card.
LEMMA MappedCalls ==
    ASSUME NEW code, SoundCode(code), NEW rounds, NEW onCard, NEW p,
           Holds(code, p, rounds, onCard, FALSE, FALSE), p.state = "run", p.at <= Len(code),
           IsCall(code[p.at]), code[p.at].mapped = 1
    PROVE  LET cardNow == CardAfter(code[p.at], D(p.text, p.expected, p.fd.key, onCard, FALSE)) IN
           /\ p.calls = 0
           /\ Ioctls(code[p.at].do, code[p.at].size) = 1 =>
                Holds(code, [p EXCEPT !.at = p.at + 1, !.calls = 0], rounds, cardNow, TRUE, FALSE)
           /\ Ioctls(code[p.at].do, code[p.at].size) # 1 =>
                Holds(code, [p EXCEPT !.calls = p.calls + 1], rounds, cardNow, TRUE, FALSE)
  <1> DEFINE no == FALSE
  <1>1. no = FALSE /\ Holds(code, p, rounds, onCard, no, no)
    BY Zenon
  <1> HIDE DEF no
  <1>2.  LET cardNow == CardAfter(code[p.at], D(p.text, p.expected, p.fd.key, onCard, no)) IN
           /\ p.calls = 0
           /\ Ioctls(code[p.at].do, code[p.at].size) = 1 =>
                Holds(code, [p EXCEPT !.at = p.at + 1, !.calls = 0], rounds, cardNow, TRUE, no)
           /\ Ioctls(code[p.at].do, code[p.at].size) # 1 =>
                Holds(code, [p EXCEPT !.calls = p.calls + 1], rounds, cardNow, TRUE, no)
    BY Zenon, <1>1, MappedCallHolds
  <1> QED BY Zenon, <1>2 DEF no

\* A comparison that comes out leads on, and one that does not is explained.
LEMMA ValidHolds ==
    ASSUME NEW code, SoundCode(code), NEW rounds, NEW onCard, NEW isStuck, NEW wasLate, NEW p, NEW q,
           Holds(code, p, rounds, onCard, isStuck, wasLate), p.state = "run", p.at <= Len(code),
           code[p.at].do = "valid", q \in ProcState, q.state = "run", q.at = p.at + 1,
           q.round = p.round, q.calls = p.calls, q.part = p.part, q.verdict = p.verdict,
           q.text = p.text, q.expected = p.expected, q.fd = p.fd,
           Compares(code[p.at], D(p.text, p.expected, p.fd.key, onCard, isStuck))
    PROVE  Holds(code, q, rounds, onCard, isStuck, wasLate)
  <1>0. /\ LineRule(code[p.at], Note(code)[p.at], Note(code)[p.at + 1])
        /\ ~wasLate => D(p.text, p.expected, p.fd.key, onCard, isStuck) \in Note(code)[p.at]
    BY LineLeads
  <1>1. ~IsCall(code[p.at])
    BY DEF IsCall
  <1>2. q.calls = 0 /\ q.part = {} /\ q.verdict \in {p.verdict, "passed"}
    BY Zenon, <1>1, BetweenCalls
  <1>3. ~wasLate => D(q.text, q.expected, q.fd.key, onCard, isStuck) \in Note(code)[p.at + 1]
    <2>1. \A d \in Note(code)[p.at] : Compares(code[p.at], d) => d \in Note(code)[p.at + 1]
      BY Zenon, <1>0 DEF LineRule
    <2> QED BY Zenon, <1>0, <2>1
  <1> QED BY <1>2, <1>3, OnwardHolds

\* A comparison fails after a late interrupt or in a process that decrypts too
\* much at once.
LEMMA ValidFails ==
    ASSUME NEW code, SoundCode(code), NEW rounds, NEW onCard, NEW isStuck, NEW wasLate, NEW p,
           Holds(code, p, rounds, onCard, isStuck, wasLate), p.state = "run", p.at <= Len(code),
           code[p.at].do = "valid",
           ~Compares(code[p.at], D(p.text, p.expected, p.fd.key, onCard, isStuck))
    PROVE  wasLate \/ TooLong(code)
  <1>0. /\ Rule(code, Note(code), p.at, TooLong(code))
        /\ ~wasLate => D(p.text, p.expected, p.fd.key, onCard, isStuck) \in Note(code)[p.at]
    BY LineLeads
  <1> QED BY Zenon, <1>0 DEF Rule

\* A process ends at such a line, or behind its last line, with a plain message.
LEMMA EndsPlain ==
    ASSUME NEW code, SoundCode(code), NEW rounds, NEW onCard, NEW isStuck, NEW wasLate, NEW p,
           Holds(code, p, rounds, onCard, isStuck, wasLate), p.state = "run",
           p.at > Len(code) \/ code[p.at].do \in Ends
    PROVE  /\ ~wasLate => p.text = {0} /\ ~OnCard(code)
           /\ p.at <= Len(code) => ~OnCard(code)
  <1>1. CASE p.at <= Len(code)
    <2>0. /\ p.at \in 1 .. Len(code)
          /\ LineRule(code[p.at], Note(code)[p.at], Note(code)[p.at + 1])
          /\ ~wasLate => D(p.text, p.expected, p.fd.key, onCard, isStuck) \in Note(code)[p.at]
      BY <1>1, LineLeads
    <2>1. code[p.at].do \in Ends
      BY <1>1, <2>0
    <2>2. ~OnCard(code)
      BY Zenon, <2>0, <2>1 DEF SoundCode
    <2>3. D(p.text, p.expected, p.fd.key, onCard, isStuck).text = p.text
      BY DEF D
    <2>4. ~wasLate => p.text = {0}
      BY Zenon, <2>0, <2>1, <2>3 DEF LineRule
    <2> QED BY Zenon, <2>2, <2>4
  <1>2. CASE p.at > Len(code)
    <2>1. p.at = Len(code) + 1 /\ ~(p.at <= Len(code))
      BY <1>2, RuleAt DEF Holds
    <2>2. ~wasLate => D(p.text, p.expected, p.fd.key, onCard, isStuck)
                        \in IF OnCard(code) THEN {} ELSE Idle
      BY Zenon, <2>1, RuleAt DEF Holds, InOutline
    <2>3. D(p.text, p.expected, p.fd.key, onCard, isStuck) \in Idle => p.text = {0}
      <3>1. \A d \in Idle : d.text = {0}
        BY DEF Idle, Knows
      <3>2. D(p.text, p.expected, p.fd.key, onCard, isStuck).text = p.text
        BY DEF D
      <3> QED BY Zenon, <3>1, <3>2
    <2> QED BY Zenon, <2>1, <2>2, <2>3
  <1>3. Len(code) \in Nat /\ p.at \in 1 .. Len(code) + 1
    BY RuleAt DEF Holds
  <1> QED BY <1>1, <1>2, <1>3

-----------------------------------------------------------------------------
\* What the invariant says of the run and of one of its processes.
LEMMA RunFacts ==
    ASSUME ProgramsInv
    PROVE  /\ SoundRun(run) /\ DOMAIN proc = DOMAIN run
           /\ MaxRounds[test[1]] \in Nat \ {0} /\ MaxIoctls[test[1]] \in Nat \ {0, 1}
  BY Zenon, ProgramsAssumption DEF ProgramsInv

\* What the invariant says of one process of the run.
LEMMA Here ==
    ASSUME ProgramsInv, NEW t \in DOMAIN run
    PROVE  /\ SoundCode(run[t].code)
           /\ OnCard(run[t].code) => DOMAIN run = {1} /\ ~late
           /\ DOMAIN run # {1} => ~OnCard(run[t].code)
           /\ Holds(run[t].code, proc[t], MaxRounds[test[1]], card, stuck, late)
           /\ proc[t] \in ProcState
  <1>1. SoundRun(run)
    BY Zenon, RunFacts
  <1>2. Holds(run[t].code, proc[t], MaxRounds[test[1]], card, stuck, late)
    BY Zenon DEF ProgramsInv
  <1>3. OnCard(run[t].code) => DOMAIN run = {1} /\ ~late
    BY Zenon, <1>1 DEF SoundRun, ProgramsInv
  <1>4. proc[t] \in ProcState
    BY Zenon, <1>2 DEF Holds
  <1> QED BY Zenon, <1>1, <1>2, <1>3, <1>4 DEF SoundRun

\* A step that leaves the test and the run alone.
LEMMA Frame ==
    ASSUME ProgramsInv, UNCHANGED <<test, run>>, DOMAIN proc' = DOMAIN run, card' \subseteq Shifts,
           stuck' \in BOOLEAN, late' \in BOOLEAN, DOMAIN run = {1} => ~late',
           DOMAIN run # {1} => card' = {0} /\ ~stuck',
           \A t \in DOMAIN run :
               Holds(run[t].code, proc'[t], MaxRounds[test[1]], card', stuck', late')
    PROVE  ProgramsInv'
  BY Zenon DEF ProgramsInv

\* A step that changes the state of one process only.
LEMMA SetStep ==
    ASSUME ProgramsInv, NEW t \in DOMAIN run, NEW new, Set(t, new),
           UNCHANGED <<test, run, card, stuck, late>>,
           Holds(run[t].code, new, MaxRounds[test[1]], card, stuck, late)
    PROVE  ProgramsInv'
  <1>1. DOMAIN proc' = DOMAIN run
    BY Zenon, RunFacts DEF Set
  <1>2. \A u \in DOMAIN run : proc'[u] = IF u = t THEN new ELSE proc[u]
    BY Zenon, RunFacts DEF Set
  <1>3. \A u \in DOMAIN run :
            Holds(run[u].code, proc'[u], MaxRounds[test[1]], card, stuck, late)
    BY Zenon, <1>2 DEF ProgramsInv
  <1>4. /\ card \subseteq Shifts /\ stuck \in BOOLEAN /\ late \in BOOLEAN
        /\ DOMAIN run = {1} => ~late
        /\ DOMAIN run # {1} => card = {0} /\ ~stuck
    BY Zenon DEF ProgramsInv
  <1> QED BY Zenon, <1>1, <1>3, <1>4, Frame

\* Such a step at a line that leaves the data alone.
LEMMA SilentStep ==
    ASSUME ProgramsInv, NEW t \in DOMAIN run, NEW what \in Silent, At(t, what), NEW new,
           new \in ProcState, new.state = "run", new.at = proc[t].at + 1, new.round = proc[t].round,
           new.calls = proc[t].calls, new.part = proc[t].part,
           new.verdict \in {proc[t].verdict, "passed"}, new.text = proc[t].text,
           new.expected = proc[t].expected, new.fd = proc[t].fd,
           Set(t, new), UNCHANGED <<test, run, card, stuck, late>>
    PROVE  ProgramsInv'
  <1>1. /\ SoundCode(run[t].code)
        /\ Holds(run[t].code, proc[t], MaxRounds[test[1]], card, stuck, late)
    BY Zenon, Here
  <1>2. /\ proc[t].state = "run" /\ proc[t].at <= Len(run[t].code)
        /\ run[t].code[proc[t].at].do \in Silent
    BY Zenon DEF At, Line
  <1>3. Holds(run[t].code, new, MaxRounds[test[1]], card, stuck, late)
    BY <1>1, <1>2, SilentHolds
  <1> QED BY <1>3, SetStep

\* The process one line on, with its handle closed or its verdict.
LEMMA OnwardIs ==
    ASSUME NEW t, proc[t] \in ProcState
    PROVE  /\ Onward(t) \in ProcState
           /\ Onward(t) = [proc[t] EXCEPT !.at = proc[t].at + 1]
           /\ Onward(t).at = proc[t].at + 1 /\ Onward(t).state = proc[t].state
           /\ Onward(t).round = proc[t].round /\ Onward(t).calls = proc[t].calls
           /\ Onward(t).part = proc[t].part /\ Onward(t).verdict = proc[t].verdict
           /\ Onward(t).text = proc[t].text /\ Onward(t).expected = proc[t].expected
           /\ Onward(t).fd = proc[t].fd
  BY DEF Onward, ProcState

\* A process that goes on past a line that leaves the data alone.
LEMMA SilentOn ==
    ASSUME ProgramsInv, NEW t \in DOMAIN run, NEW what \in Silent, At(t, what)
    PROVE  Holds(run[t].code, Onward(t), MaxRounds[test[1]], card, stuck, late)
  <1> DEFINE q == Onward(t)
  <1>1. /\ proc[t] \in ProcState /\ proc[t].state = "run" /\ proc[t].at <= Len(run[t].code)
        /\ SoundCode(run[t].code) /\ run[t].code[proc[t].at].do \in Silent
        /\ Holds(run[t].code, proc[t], MaxRounds[test[1]], card, stuck, late)
    BY Zenon, Here DEF At, Line
  <1>2. /\ q \in ProcState /\ q.state = "run" /\ q.at = proc[t].at + 1
        /\ q.round = proc[t].round /\ q.calls = proc[t].calls
        /\ q.part = proc[t].part /\ q.verdict \in {proc[t].verdict, "passed"}
        /\ q.text = proc[t].text /\ q.expected = proc[t].expected /\ q.fd = proc[t].fd
    BY Zenon, <1>1, OnwardIs
  <1> HIDE DEF q
  <1>3. Holds(run[t].code, q, MaxRounds[test[1]], card, stuck, late)
    BY <1>1, <1>2, SilentHolds
  <1> QED BY Zenon, <1>3 DEF q

\* The same when the process just goes on.
LEMMA PlainStep ==
    ASSUME ProgramsInv, NEW t \in DOMAIN run, NEW what \in Silent, At(t, what),
           Set(t, Onward(t)), UNCHANGED <<test, run, card, stuck, late>>
    PROVE  ProgramsInv'
  BY SilentOn, SetStep

\* CloseHandle keeps the invariant.
LEMMA CloseStep ==
    ASSUME ProgramsInv, NEW t \in DOMAIN run, CloseHandle(t)
    PROVE  ProgramsInv'
  <1> DEFINE new == [Onward(t) EXCEPT !.open = FALSE]
  <1>1. proc[t] \in ProcState /\ proc[t].state = "run"
    BY Zenon, Here DEF At, CloseHandle
  <1>2. /\ At(t, "close") /\ Set(t, new) /\ UNCHANGED <<test, run, card, stuck, late>>
        /\ "close" \in Silent
    BY Zenon DEF CloseHandle, Silent
  <1>3. /\ new \in ProcState
        /\ new.at = proc[t].at + 1 /\ new.state = "run"
        /\ new.round = proc[t].round /\ new.calls = proc[t].calls
        /\ new.part = proc[t].part /\ new.verdict \in {proc[t].verdict, "passed"}
        /\ new.text = proc[t].text /\ new.expected = proc[t].expected
        /\ new.fd = proc[t].fd
    <2> DEFINE q == Onward(t)
    <2>1. /\ q \in ProcState /\ q.state = "run" /\ q.at = proc[t].at + 1
          /\ q.round = proc[t].round /\ q.calls = proc[t].calls
          /\ q.part = proc[t].part /\ q.verdict = proc[t].verdict
          /\ q.text = proc[t].text /\ q.expected = proc[t].expected /\ q.fd = proc[t].fd
      BY Zenon, <1>1, OnwardIs
    <2> HIDE DEF q
    <2>2. LET e == [q EXCEPT !.open = FALSE] IN
          /\ e \in ProcState /\ e.state = q.state /\ e.at = q.at
          /\ e.round = q.round /\ e.calls = q.calls /\ e.part = q.part
          /\ e.verdict \in {q.verdict, "passed"} /\ e.text = q.text
          /\ e.expected = q.expected /\ e.fd = q.fd
      BY Zenon, <2>1 DEF ProcState
    <2>3. new = [q EXCEPT !.open = FALSE]
      BY Zenon DEF q
    <2> QED BY Zenon, <2>1, <2>2, <2>3
  <1> HIDE DEF new
  <1> QED BY <1>2, <1>3, SilentStep

\* Passed keeps the invariant.
LEMMA PassedStep ==
    ASSUME ProgramsInv, NEW t \in DOMAIN run, Passed(t)
    PROVE  ProgramsInv'
  <1> DEFINE new == [Onward(t) EXCEPT !.verdict = "passed"]
  <1>1. proc[t] \in ProcState /\ proc[t].state = "run"
    BY Zenon, Here DEF At, Passed
  <1>2. /\ At(t, "passed") /\ Set(t, new) /\ UNCHANGED <<test, run, card, stuck, late>>
        /\ "passed" \in Silent
    BY Zenon DEF Passed, Silent
  <1>3. /\ new \in ProcState
        /\ new.at = proc[t].at + 1 /\ new.state = "run"
        /\ new.round = proc[t].round /\ new.calls = proc[t].calls
        /\ new.part = proc[t].part /\ new.verdict \in {proc[t].verdict, "passed"}
        /\ new.text = proc[t].text /\ new.expected = proc[t].expected
        /\ new.fd = proc[t].fd
    <2> DEFINE q == Onward(t)
    <2>1. /\ q \in ProcState /\ q.state = "run" /\ q.at = proc[t].at + 1
          /\ q.round = proc[t].round /\ q.calls = proc[t].calls
          /\ q.part = proc[t].part /\ q.verdict = proc[t].verdict
          /\ q.text = proc[t].text /\ q.expected = proc[t].expected /\ q.fd = proc[t].fd
      BY Zenon, <1>1, OnwardIs
    <2> HIDE DEF q
    <2>2. LET e == [q EXCEPT !.verdict = "passed"] IN
          /\ e \in ProcState /\ e.state = q.state /\ e.at = q.at
          /\ e.round = q.round /\ e.calls = q.calls /\ e.part = q.part
          /\ e.verdict \in {q.verdict, "passed"} /\ e.text = q.text
          /\ e.expected = q.expected /\ e.fd = q.fd
      BY Zenon, <2>1 DEF ProcState
    <2>3. new = [q EXCEPT !.verdict = "passed"]
      BY Zenon DEF q
    <2> QED BY Zenon, <2>1, <2>2, <2>3
  <1> HIDE DEF new
  <1> QED BY Zenon, <1>2, <1>3, SilentStep

\* UnmapCard and Wait keep the invariant.
LEMMA PlainSteps ==
    ASSUME ProgramsInv, NEW t \in DOMAIN run, UnmapCard(t) \/ Wait(t)
    PROVE  ProgramsInv'
  <1>1. "unmap" \in Silent /\ "wait" \in Silent
    BY DEF Silent
  <1>2. PICK what \in Silent :
        /\ At(t, what) /\ Set(t, Onward(t)) /\ UNCHANGED <<test, run, card, stuck, late>>
    BY Zenon, <1>1 DEF UnmapCard, Wait
  <1> QED BY <1>2, PlainStep

\* Again keeps the invariant, in the loop and out of it.
LEMMA AgainStep ==
    ASSUME ProgramsInv, NEW t \in DOMAIN run, Again(t)
    PROVE  ProgramsInv'
  <1>0. /\ SoundCode(run[t].code) /\ MaxRounds[test[1]] \in Nat
        /\ Holds(run[t].code, proc[t], MaxRounds[test[1]], card, stuck, late)
    BY Zenon, Here, RunFacts
  <1>1. At(t, "again") /\ UNCHANGED <<test, run, card, stuck, late>> /\ "again" \in Silent
    BY Zenon DEF Again, Silent
  <1>2. CASE Set(t, Onward(t))
    BY <1>1, <1>2, PlainStep
  <1>3. CASE /\ proc[t].round < MaxRounds[test[1]]
             /\ Set(t, [proc[t] EXCEPT !.at = @ - Line(t).back, !.round = @ + 1])
    <2> DEFINE p == proc[t]
               code == run[t].code
               new == [p EXCEPT !.at = @ - code[p.at].back, !.round = @ + 1]
    <2>1. p.state = "run" /\ p.at <= Len(code) /\ code[p.at].do = "again"
      BY Zenon, <1>1 DEF At, Line
    <2>2. Set(t, new)
      BY Zenon, <1>3 DEF Line
    <2>3. Holds(code, new, MaxRounds[test[1]], card, stuck, late)
      <3> HIDE DEF code, p
      <3>1. /\ SoundCode(code) /\ Holds(code, p, MaxRounds[test[1]], card, stuck, late)
            /\ p.round < MaxRounds[test[1]]
        BY Zenon, <1>0, <1>3 DEF p, code
      <3> QED BY Zenon, <1>0, <2>1, <3>1, BackHolds
    <2> HIDE DEF new
    <2> QED BY <1>1, <2>2, <2>3, SetStep
  <1> QED BY Zenon, <1>2, <1>3 DEF Again

-----------------------------------------------------------------------------
\* Whatever the reference cipher makes of a letter, its distance is one of the
\* alphabet's.
LEMMA DistancesAreLetters ==
    /\ \A a, b \in Byte : Encrypted(a, b) \in SUBSET (0 .. LETTERS - 1)
    /\ \A a, b \in Byte : \A S \in SUBSET (0 .. LETTERS - 1) :
           Decrypted(a, b, S) \in SUBSET (0 .. LETTERS - 1)
  <1>1. \A x, y \in Int : Distance(x, y) \in 0 .. LETTERS - 1
    BY DEF Distance, LETTERS
  <1>2. \A x \in Int : ToChar(x) \in Int /\ Rem(x) \in Int
    BY DEF ToChar, Rem, LETTERS
  <1>3. \A x \in Int : Lift(x) \in Int /\ Base(x) \in Int
    BY <1>2 DEF Lift, Base, LETTERS
  <1>4. \A a, b \in Byte, x \in Int : decryptChar(a, b, x) \in Int
    <2> SUFFICES ASSUME NEW a \in Byte, NEW b \in Byte, NEW x \in Int
                 PROVE  decryptChar(a, b, x) \in Int
      OBVIOUS
    <2>1. x - b \in Int /\ a \in Int
      BY DEF Byte
    <2>2. Lift(ToChar(x - b)) \in Int
      BY Zenon, <2>1, <1>2, <1>3
    <2>3. Lift(ToChar(x - b)) - a \in Int
      BY <2>1, <2>2
    <2> QED BY Zenon, <2>3, <1>2, <1>3 DEF decryptChar
  <1>5. \A a, b \in Byte, x \in Int : decryptMessage(a, b, x) \in Int
    <2> SUFFICES ASSUME NEW a \in Byte, NEW b \in Byte, NEW x \in Int PROVE decryptMessage(a, b, x) \in Int
      OBVIOUS
    <2>1. Base(x) \in Int
      BY Zenon, <1>3
    <2>2. x - Base(x) \in Int
      BY <2>1
    <2>3. decryptChar(a, b, x - Base(x)) \in Int
      BY Zenon, <2>2, <1>4
    <2>4. decryptChar(a, b, x - Base(x)) + Base(x) \in Int
      BY <2>1, <2>3
    <2> QED BY Zenon, <2>4, <1>2 DEF decryptMessage
  <1>6. \A x \in Text, s \in 0 .. LETTERS - 1 : x \in Int /\ Shifted(x, s) \in Int
    <2> SUFFICES ASSUME NEW x \in Text, NEW s \in 0 .. LETTERS - 1 PROVE x \in Int /\ Shifted(x, s) \in Int
      OBVIOUS
    <2>1. x \in Int /\ s \in Int
      BY DEF Text
    <2>2. Base(x) \in Int
      BY Zenon, <2>1, <1>3
    <2> QED BY <2>1, <2>2 DEF Shifted, LETTERS
  <1>7. \A a, b \in Byte : Encrypted(a, b) \in SUBSET (0 .. LETTERS - 1)
    <2> SUFFICES ASSUME NEW a \in Byte, NEW b \in Byte PROVE Encrypted(a, b) \in SUBSET (0 .. LETTERS - 1)
      OBVIOUS
    <2>1. \A x \in Text : x \in Int /\ encryptMessage(a, b, x) \in Int
      <3> SUFFICES ASSUME NEW x \in Text PROVE x \in Int /\ encryptMessage(a, b, x) \in Int
        OBVIOUS
      <3>1. x \in Int /\ Base(x) \in Int /\ a \in Int /\ b \in Int
        BY <1>3 DEF Text, Byte
      <3> DEFINE c == ToChar(Rem(x - Base(x) + a))
      <3>2. c \in Int
        BY <1>2, <3>1
      <3> HIDE DEF c
      <3>3. ToChar(Rem(c + b)) \in Int
        BY <1>2, <3>1, <3>2
      <3>4. ToChar(ToChar(Rem(c + b)) + Base(x)) \in Int
        BY <1>2, <3>1, <3>3
      <3> QED BY Zenon, <3>1, <3>4 DEF encryptMessage, encryptChar, c
    <2> QED BY Zenon, <1>1, <2>1 DEF Encrypted
  <1>8. \A a, b \in Byte : \A S \in SUBSET (0 .. LETTERS - 1) :
           Decrypted(a, b, S) \in SUBSET (0 .. LETTERS - 1)
    <2> SUFFICES ASSUME NEW a \in Byte, NEW b \in Byte, NEW S \in SUBSET (0 .. LETTERS - 1),
                        NEW z \in Decrypted(a, b, S)
                 PROVE  z \in 0 .. LETTERS - 1
      BY Zenon
    <2>1. PICK x \in Text, s \in S : z = Distance(x, decryptMessage(a, b, Shifted(x, s)))
      BY SMT DEF Decrypted
    <2>2. x \in Int /\ Shifted(x, s) \in Int
      BY Zenon, <1>6
    <2>3. decryptMessage(a, b, Shifted(x, s)) \in Int
      BY Zenon, <2>2, <1>5
    <2> QED BY Zenon, <2>1, <2>2, <2>3, <1>1
  <1> QED BY Zenon, <1>7, <1>8

\* The same of what the card makes of a message.
LEMMA TurnedTyped ==
    \A l : \A key \in Nat : \A m \in SUBSET Shifts : TurnedBy(l, key, m) \in SUBSET Shifts
  <1> SUFFICES ASSUME NEW l, NEW key \in Nat, NEW m \in SUBSET Shifts, NEW z \in TurnedBy(l, key, m)
               PROVE  z \in Shifts
    BY Zenon
  <1>1. PICK x \in m : z = Turn(Command(l.do, l.size), key, x)
    BY Zenon DEF TurnedBy
  <1>2. \A cmd : \A y \in Shifts : Turn(cmd, key, y) \in Shifts
    <2> SUFFICES ASSUME NEW cmd, NEW y \in Shifts PROVE Turn(cmd, key, y) \in Shifts
      OBVIOUS
    <2>1. CASE y = JUNK
      BY Zenon, <2>1 DEF Turn, Shifts
    <2>2. CASE y # JUNK
      <3>1. y \in 0 .. 25
        BY <2>2 DEF Shifts, LETTERS
      <3>2. (y + key) % 26 \in 0 .. 25 /\ (y - key) % 26 \in 0 .. 25
        BY <3>1
      <3>3. Turn(cmd, key, y) \in {(y + key) % 26, (y - key) % 26}
        BY <2>2 DEF Turn, LETTERS
      <3> HIDE DEF Turn
      <3> QED BY <3>2, <3>3 DEF Shifts, LETTERS
    <2> QED BY <2>1, <2>2
  <1> QED BY Zenon, <1>1, <1>2

\* A step of one process at a line that works on the data.
LEMMA WorkingStep ==
    ASSUME ProgramsInv, NEW t \in DOMAIN run, NEW what \in Working, At(t, what), NEW new,
           new \in ProcState, new.state = "run", new.at = proc[t].at + 1, new.round = proc[t].round,
           new.calls = proc[t].calls, new.part = proc[t].part, new.verdict = proc[t].verdict,
           D(new.text, new.expected, new.fd.key, card, stuck)
               = After(Line(t), D(proc[t].text, proc[t].expected, proc[t].fd.key, card, stuck)),
           Set(t, new), UNCHANGED <<test, run, card, stuck, late>>
    PROVE  ProgramsInv'
  <1>1. /\ SoundCode(run[t].code)
        /\ Holds(run[t].code, proc[t], MaxRounds[test[1]], card, stuck, late)
    BY Zenon, Here
  <1>2. /\ proc[t].state = "run" /\ proc[t].at <= Len(run[t].code)
        /\ run[t].code[proc[t].at].do \in Working
    BY Zenon DEF At, Line
  <1>3. D(new.text, new.expected, new.fd.key, card, stuck)
               = After(run[t].code[proc[t].at], D(proc[t].text, proc[t].expected, proc[t].fd.key, card, stuck))
    BY Zenon DEF Line
  <1>4. Holds(run[t].code, new, MaxRounds[test[1]], card, stuck, late)
    BY <1>1, <1>2, <1>3, WorkingHolds
  <1> QED BY <1>4, SetStep

\* The line a process is about to execute.
LEMMA LineTyped ==
    ASSUME ProgramsInv, NEW t \in DOMAIN run, NEW what, At(t, what)
    PROVE  /\ Line(t) \in ProgramLine /\ Line(t).do = what
           /\ proc[t] \in ProcState /\ proc[t].state = "run"
           /\ proc[t].at \in 1 .. Len(run[t].code)
  <1>1. /\ SoundCode(run[t].code)
        /\ Holds(run[t].code, proc[t], MaxRounds[test[1]], card, stuck, late)
    BY Zenon, Here
  <1>2. proc[t].state = "run" /\ proc[t].at <= Len(run[t].code) /\ Line(t).do = what
    BY Zenon DEF At
  <1> QED BY <1>1, <1>2, LineLeads DEF Line

-----------------------------------------------------------------------------
\* What the lines that work on the data make of them.
LEMMA AfterIs ==
    ASSUME NEW l, NEW x, NEW e, NEW k, NEW c, NEW s
    PROVE  /\ l.do = "open" => After(l, D(x, e, k, c, s)) = D(x, e, l.fd.key, c, s)
           /\ l.do = "take" => After(l, D(x, e, k, c, s)) = D({0}, e, k, c, s)
           /\ l.do = "strncpy" => After(l, D(x, e, k, c, s)) = D(x, e, k, {0}, s)
           /\ l.do = "expect" => After(l, D(x, e, k, c, s)) = D(x, Encrypted(l.a, l.b), k, c, s)
           /\ l.do = "unexpect" =>
                 After(l, D(x, e, k, c, s)) = D(x, Decrypted(l.a, l.b, e), k, c, s)
  <1> DEFINE d == D(x, e, k, c, s)
  <1>1. d.text = x /\ d.expected = e /\ d.key = k /\ d.card = c /\ d.stuck = s
    BY DEF D
  <1> HIDE DEF d
  <1>2. /\ l.do = "open" => After(l, d) = D(x, e, l.fd.key, c, s)
        /\ l.do = "take" => After(l, d) = D({0}, e, k, c, s)
        /\ l.do = "strncpy" => After(l, d) = D(x, e, k, {0}, s)
    BY <1>1 DEF After
  <1>3. /\ l.do = "expect" => After(l, d) = D(x, Encrypted(l.a, l.b), k, c, s)
        /\ l.do = "unexpect" => After(l, d) = D(x, Decrypted(l.a, l.b, e), k, c, s)
    BY <1>1 DEF After
  <1> QED BY Zenon, <1>2, <1>3 DEF d

\* CreateDeviceHandle keeps the invariant.
LEMMA OpenStep ==
    ASSUME ProgramsInv, NEW t \in DOMAIN run, CreateDeviceHandle(t)
    PROVE  ProgramsInv'
  <1> DEFINE q == Onward(t)
             l == Line(t)
             new == [q EXCEPT !.open = TRUE, !.fd = l.fd]
  <1>1. At(t, "open") /\ Set(t, new) /\ UNCHANGED <<test, run, card, stuck, late>>
    BY Zenon DEF CreateDeviceHandle
  <1>2. /\ l \in ProgramLine /\ l.do = "open" /\ proc[t] \in ProcState /\ proc[t].state = "run"
        /\ "open" \in Working
    BY Zenon, <1>1, LineTyped DEF Working
  <1>3. /\ q \in ProcState /\ q.state = "run" /\ q.at = proc[t].at + 1
        /\ q.round = proc[t].round /\ q.calls = proc[t].calls
        /\ q.part = proc[t].part /\ q.verdict = proc[t].verdict
        /\ q.text = proc[t].text /\ q.expected = proc[t].expected /\ q.fd = proc[t].fd
    BY Zenon, <1>2, OnwardIs
  <1>4. l.fd \in [dma : Bit, irq : Bit, key : Nat]
    BY Zenon, <1>2, Fields
  <1> HIDE DEF q, l
  <1>5. /\ new \in ProcState /\ new.state = q.state /\ new.at = q.at /\ new.round = q.round
        /\ new.calls = q.calls /\ new.part = q.part /\ new.verdict = q.verdict
        /\ new.text = q.text /\ new.expected = q.expected /\ new.fd = l.fd
    BY Zenon, <1>3, <1>4 DEF ProcState
  <1> HIDE DEF new
  <1>6. D(new.text, new.expected, new.fd.key, card, stuck)
            = After(Line(t), D(proc[t].text, proc[t].expected, proc[t].fd.key, card, stuck))
    BY <1>2, <1>3, <1>5, AfterIs DEF l
  <1>7. /\ new.state = "run" /\ new.at = proc[t].at + 1 /\ new.round = proc[t].round
        /\ new.calls = proc[t].calls /\ new.part = proc[t].part /\ new.verdict = proc[t].verdict
    BY Zenon, <1>3, <1>5
  <1> QED BY Zenon, <1>1, <1>2, <1>5, <1>6, <1>7, WorkingStep

\* Take keeps the invariant.
LEMMA TakeStep ==
    ASSUME ProgramsInv, NEW t \in DOMAIN run, Take(t)
    PROVE  ProgramsInv'
  <1> DEFINE q == Onward(t)
             l == Line(t)
             new == [q EXCEPT !.text = {0}]
  <1>1. At(t, "take") /\ Set(t, new) /\ UNCHANGED <<test, run, card, stuck, late>>
    BY Zenon DEF Take
  <1>2. /\ l \in ProgramLine /\ l.do = "take" /\ proc[t] \in ProcState /\ proc[t].state = "run"
        /\ "take" \in Working
    BY Zenon, <1>1, LineTyped DEF Working
  <1>3. /\ q \in ProcState /\ q.state = "run" /\ q.at = proc[t].at + 1
        /\ q.round = proc[t].round /\ q.calls = proc[t].calls
        /\ q.part = proc[t].part /\ q.verdict = proc[t].verdict
        /\ q.text = proc[t].text /\ q.expected = proc[t].expected /\ q.fd = proc[t].fd
    BY Zenon, <1>2, OnwardIs
  <1>4. {0} \in SUBSET Shifts
    BY DEF Shifts, LETTERS
  <1> HIDE DEF q, l
  <1>5. /\ new \in ProcState /\ new.state = q.state /\ new.at = q.at /\ new.round = q.round
        /\ new.calls = q.calls /\ new.part = q.part /\ new.verdict = q.verdict
        /\ new.text = {0} /\ new.expected = q.expected /\ new.fd = q.fd
    BY Zenon, <1>3, <1>4 DEF ProcState
  <1> HIDE DEF new
  <1>6. D(new.text, new.expected, new.fd.key, card, stuck)
            = After(Line(t), D(proc[t].text, proc[t].expected, proc[t].fd.key, card, stuck))
    BY <1>2, <1>3, <1>5, AfterIs DEF l
  <1>7. /\ new.state = "run" /\ new.at = proc[t].at + 1 /\ new.round = proc[t].round
        /\ new.calls = proc[t].calls /\ new.part = proc[t].part /\ new.verdict = proc[t].verdict
    BY Zenon, <1>3, <1>5
  <1> QED BY Zenon, <1>1, <1>2, <1>5, <1>6, <1>7, WorkingStep

\* Expect keeps the invariant.
LEMMA ExpectStep ==
    ASSUME ProgramsInv, NEW t \in DOMAIN run, Expect(t)
    PROVE  ProgramsInv'
  <1> DEFINE q == Onward(t)
             l == Line(t)
             e == Encrypted(l.a, l.b)
             new == [q EXCEPT !.expected = e]
  <1>1. At(t, "expect") /\ Set(t, new) /\ UNCHANGED <<test, run, card, stuck, late>>
    BY Zenon DEF Expect, Encrypted
  <1>2. /\ l \in ProgramLine /\ l.do = "expect" /\ proc[t] \in ProcState /\ proc[t].state = "run"
        /\ "expect" \in Working
    BY Zenon, <1>1, LineTyped DEF Working
  <1>3. /\ q \in ProcState /\ q.state = "run" /\ q.at = proc[t].at + 1
        /\ q.round = proc[t].round /\ q.calls = proc[t].calls
        /\ q.part = proc[t].part /\ q.verdict = proc[t].verdict
        /\ q.text = proc[t].text /\ q.expected = proc[t].expected /\ q.fd = proc[t].fd
    BY Zenon, <1>2, OnwardIs
  <1>4. e \in SUBSET (0 .. LETTERS - 1)
    BY Zenon, <1>2, Fields, DistancesAreLetters
  <1> HIDE DEF q, l, e
  <1>5. /\ new \in ProcState /\ new.state = q.state /\ new.at = q.at /\ new.round = q.round
        /\ new.calls = q.calls /\ new.part = q.part /\ new.verdict = q.verdict
        /\ new.text = q.text /\ new.expected = e /\ new.fd = q.fd
    BY Zenon, <1>3, <1>4 DEF ProcState
  <1> HIDE DEF new
  <1>6. D(new.text, new.expected, new.fd.key, card, stuck)
            = After(Line(t), D(proc[t].text, proc[t].expected, proc[t].fd.key, card, stuck))
    BY <1>2, <1>3, <1>5, AfterIs DEF l, e
  <1>7. /\ new.state = "run" /\ new.at = proc[t].at + 1 /\ new.round = proc[t].round
        /\ new.calls = proc[t].calls /\ new.part = proc[t].part /\ new.verdict = proc[t].verdict
    BY Zenon, <1>3, <1>5
  <1> QED BY Zenon, <1>1, <1>2, <1>5, <1>6, <1>7, WorkingStep

\* Unexpect keeps the invariant.
LEMMA UnexpectStep ==
    ASSUME ProgramsInv, NEW t \in DOMAIN run, Unexpect(t)
    PROVE  ProgramsInv'
  <1> DEFINE q == Onward(t)
             l == Line(t)
             e == Decrypted(l.a, l.b, q.expected)
             new == [q EXCEPT !.expected = e]
  <1>1. At(t, "unexpect") /\ Set(t, new) /\ UNCHANGED <<test, run, card, stuck, late>>
    BY DEF Unexpect, Decrypted
  <1>2. /\ l \in ProgramLine /\ l.do = "unexpect" /\ proc[t] \in ProcState /\ proc[t].state = "run"
        /\ "unexpect" \in Working
    BY Zenon, <1>1, LineTyped DEF Working
  <1>3. /\ q \in ProcState /\ q.state = "run" /\ q.at = proc[t].at + 1
        /\ q.round = proc[t].round /\ q.calls = proc[t].calls
        /\ q.part = proc[t].part /\ q.verdict = proc[t].verdict
        /\ q.text = proc[t].text /\ q.expected = proc[t].expected /\ q.fd = proc[t].fd
    BY Zenon, <1>2, OnwardIs
  <1>4. e \in SUBSET (0 .. LETTERS - 1)
    BY Zenon, <1>2, <1>3, Fields, DistancesAreLetters DEF ProcState
  <1> HIDE DEF q, l, e
  <1>5. /\ new \in ProcState /\ new.state = q.state /\ new.at = q.at /\ new.round = q.round
        /\ new.calls = q.calls /\ new.part = q.part /\ new.verdict = q.verdict
        /\ new.text = q.text /\ new.expected = e /\ new.fd = q.fd
    BY Zenon, <1>3, <1>4 DEF ProcState
  <1> HIDE DEF new
  <1>6. D(new.text, new.expected, new.fd.key, card, stuck)
            = After(Line(t), D(proc[t].text, proc[t].expected, proc[t].fd.key, card, stuck))
    BY <1>2, <1>3, <1>5, AfterIs DEF l, e
  <1>7. /\ new.state = "run" /\ new.at = proc[t].at + 1 /\ new.round = proc[t].round
        /\ new.calls = proc[t].calls /\ new.part = proc[t].part /\ new.verdict = proc[t].verdict
    BY Zenon, <1>3, <1>5
  <1> QED BY Zenon, <1>1, <1>2, <1>5, <1>6, <1>7, WorkingStep

-----------------------------------------------------------------------------
\* A process that uses the card's memory is alone.
LEMMA AloneStep ==
    ASSUME ProgramsInv, NEW t \in DOMAIN run, OnCard(run[t].code), NEW new, Set(t, new),
           UNCHANGED <<test, run, late>>, card' \subseteq Shifts, stuck' \in BOOLEAN,
           Holds(run[t].code, new, MaxRounds[test[1]], card', stuck', late)
    PROVE  ProgramsInv'
  <1>1. DOMAIN run = {1} /\ ~late /\ late \in BOOLEAN
    BY Zenon, Here DEF ProgramsInv
  <1>2. DOMAIN proc' = DOMAIN run
    BY Zenon, RunFacts DEF Set
  <1>3. \A u \in DOMAIN run : u = t /\ proc'[u] = new
    BY Zenon, <1>1, RunFacts DEF Set
  <1>4. \A u \in DOMAIN run :
            Holds(run[u].code, proc'[u], MaxRounds[test[1]], card', stuck', late')
    BY Zenon, <1>3
  <1> QED BY Zenon, <1>1, <1>2, <1>4, Frame

\* Strncpy keeps the invariant.
LEMMA StrncpyStep ==
    ASSUME ProgramsInv, NEW t \in DOMAIN run, Strncpy(t)
    PROVE  ProgramsInv'
  <1> DEFINE q == Onward(t)
             l == Line(t)
  <1>1. At(t, "strncpy") /\ Set(t, q) /\ UNCHANGED <<test, run, stuck, late>> /\ card' = {0}
    BY Zenon DEF Strncpy
  <1>2. /\ l \in ProgramLine /\ l.do = "strncpy" /\ proc[t] \in ProcState /\ proc[t].state = "run"
        /\ proc[t].at \in 1 .. Len(run[t].code) /\ "strncpy" \in Working
    BY Zenon, <1>1, LineTyped DEF Working
  <1>3. /\ q \in ProcState /\ q.state = "run" /\ q.at = proc[t].at + 1
        /\ q.round = proc[t].round /\ q.calls = proc[t].calls
        /\ q.part = proc[t].part /\ q.verdict = proc[t].verdict
        /\ q.text = proc[t].text /\ q.expected = proc[t].expected /\ q.fd = proc[t].fd
    BY Zenon, <1>2, OnwardIs
  <1>4. OnCard(run[t].code)
    BY Zenon, <1>2 DEF OnCard, Line
  <1>5. /\ SoundCode(run[t].code)
        /\ Holds(run[t].code, proc[t], MaxRounds[test[1]], card, stuck, late)
        /\ stuck \in BOOLEAN
    BY Zenon, Here DEF ProgramsInv
  <1>6. /\ proc[t].at <= Len(run[t].code) /\ run[t].code[proc[t].at].do \in Working
    BY Zenon, <1>1, <1>2 DEF At, Line
  <1> HIDE DEF q
  <1>7. D(q.text, q.expected, q.fd.key, {0}, stuck)
            = After(l, D(proc[t].text, proc[t].expected, proc[t].fd.key, card, stuck))
    BY <1>2, <1>3, AfterIs
  <1>8. D(q.text, q.expected, q.fd.key, {0}, stuck)
            = After(run[t].code[proc[t].at],
                    D(proc[t].text, proc[t].expected, proc[t].fd.key, card, stuck))
    BY Zenon, <1>7 DEF Line
  <1>9. Holds(run[t].code, q, MaxRounds[test[1]], {0}, stuck, late)
    BY <1>2, <1>3, <1>5, <1>6, <1>8, WorkingHolds
  <1>10. {0} \subseteq Shifts
    BY DEF Shifts, LETTERS
  <1> QED BY Zenon, <1>1, <1>4, <1>5, <1>9, <1>10, AloneStep

\* A process that calls encrypt or decrypt.
LEMMA CallingIs ==
    ASSUME ProgramsInv, NEW t \in DOMAIN run, Calling(t)
    PROVE  /\ SoundCode(run[t].code) /\ Line(t) = run[t].code[proc[t].at]
           /\ Holds(run[t].code, proc[t], MaxRounds[test[1]], card, stuck, late)
           /\ proc[t] \in ProcState /\ proc[t].state = "run" /\ proc[t].at <= Len(run[t].code)
           /\ proc[t].at \in 1 .. Len(run[t].code)
           /\ IsCall(Line(t)) /\ Line(t).size \in Nat
           /\ \A m : Turned(t, m) = TurnedBy(Line(t), proc[t].fd.key, m)
           /\ \A m \in SUBSET Shifts : Turned(t, m) \in SUBSET Shifts
  <1>1. PICK what \in {"encrypt", "decrypt"} : At(t, what)
    BY Zenon DEF Calling
  <1>2. /\ Line(t) \in ProgramLine /\ Line(t).do = what
        /\ proc[t] \in ProcState /\ proc[t].state = "run"
        /\ proc[t].at \in 1 .. Len(run[t].code)
    BY Zenon, <1>1, LineTyped
  <1>3. IsCall(Line(t))
    BY Zenon, <1>1, <1>2 DEF IsCall
  <1>4. \A m : Turned(t, m) = TurnedBy(Line(t), proc[t].fd.key, m)
    BY Zenon DEF Turned, TurnedBy
  <1>5. proc[t].fd.key \in Nat
    BY <1>2 DEF ProcState
  <1>6. \A m \in SUBSET Shifts : Turned(t, m) \in SUBSET Shifts
    BY <1>4, <1>5, TurnedTyped
  <1>7. Line(t).size \in Nat
    BY Zenon, <1>2, <1>3, Fields
  <1>8. proc[t].at <= Len(run[t].code)
    BY Zenon, <1>1 DEF At
  <1> QED BY Zenon, <1>2, <1>3, <1>4, <1>6, <1>7, <1>8, Here DEF Line

\* Ioctl keeps the invariant, whatever a late interrupt makes of the chunk.
LEMMA IoctlStep ==
    ASSUME ProgramsInv, NEW t \in DOMAIN run, Ioctl(t)
    PROVE  ProgramsInv'
  <1> DEFINE p == proc[t]
             code == run[t].code
  <1>1. /\ SoundCode(code) /\ Line(t) = code[p.at] /\ p \in ProcState /\ p.state = "run"
        /\ Holds(code, p, MaxRounds[test[1]], card, stuck, late)
        /\ p.at <= Len(code) /\ IsCall(code[p.at])
        /\ Turned(t, p.text) = TurnedBy(code[p.at], p.fd.key, p.text)
        /\ \A m \in SUBSET Shifts : Turned(t, m) \in SUBSET Shifts
    BY Zenon, CallingIs DEF Ioctl
  <1>2. code[p.at].mapped = 0 /\ ~stuck /\ UNCHANGED <<test, run, card, stuck, late>>
    BY Zenon, <1>1 DEF Ioctl
  <1>3. PICK o \in Outcomes(t) :
            Set(t, IF LastCall(t)
                   THEN [Onward(t) EXCEPT !.text = p.part \cup o, !.part = {}, !.calls = 0]
                   ELSE [p EXCEPT !.part = p.part \cup o, !.calls = @ + 1])
    BY Zenon DEF Ioctl
  <1>4. o \in SUBSET Shifts /\ (~late => o = TurnedBy(code[p.at], p.fd.key, p.text))
    <2>1. p.text \in SUBSET Shifts /\ {JUNK} \in SUBSET Shifts
      BY <1>1 DEF ProcState, Shifts
    <2> QED BY Zenon, <1>1, <2>1 DEF Outcomes
  <1> DEFINE done == [p EXCEPT !.at = p.at + 1, !.text = p.part \cup o, !.part = {}, !.calls = 0]
             more == [p EXCEPT !.part = p.part \cup o, !.calls = p.calls + 1]
  <1>5. [Onward(t) EXCEPT !.text = p.part \cup o, !.part = {}, !.calls = 0] = done
    BY <1>1 DEF Onward, ProcState
  <1>6. [p EXCEPT !.part = p.part \cup o, !.calls = @ + 1] = more
    BY <1>1 DEF ProcState
  <1>7. /\ Holds(code, done, MaxRounds[test[1]], card, stuck, late)
        /\ Holds(code, more, MaxRounds[test[1]], card, stuck, late)
    <2> HIDE DEF p, code
    <2> QED BY Zenon, <1>1, <1>2, <1>4, CallHolds
  <1>8. CASE LastCall(t)
    <2>1. Set(t, done)
      BY Zenon, <1>3, <1>5, <1>8
    <2> HIDE DEF done
    <2> QED BY Zenon, <1>2, <1>7, <2>1, SetStep
  <1>9. CASE ~LastCall(t)
    <2>1. Set(t, more)
      BY Zenon, <1>3, <1>6, <1>9
    <2> HIDE DEF more
    <2> QED BY Zenon, <1>2, <1>7, <2>1, SetStep
  <1> QED BY Zenon, <1>8, <1>9

\* IoctlMapped keeps the invariant: the lock is lost, and the first ioctl of a
\* longer call is its last.
LEMMA IoctlMappedStep ==
    ASSUME ProgramsInv, NEW t \in DOMAIN run, IoctlMapped(t)
    PROVE  ProgramsInv'
  <1> DEFINE p == proc[t]
             code == run[t].code
             l == code[p.at]
             d == D(p.text, p.expected, p.fd.key, card, stuck)
  <1>1. /\ SoundCode(code) /\ Line(t) = l /\ p \in ProcState /\ p.state = "run"
        /\ Holds(code, p, MaxRounds[test[1]], card, stuck, late)
        /\ p.at <= Len(code) /\ p.at \in 1 .. Len(code) /\ IsCall(l)
        /\ Turned(t, card) = TurnedBy(l, p.fd.key, card)
        /\ \A m \in SUBSET Shifts : Turned(t, m) \in SUBSET Shifts
    BY Zenon, CallingIs DEF IoctlMapped
  <1>2. /\ l.mapped = 1 /\ ~stuck /\ UNCHANGED <<test, run, late>> /\ stuck' = TRUE
        /\ card' = Turned(t, card) \cup IF l.size <= Chunk(l.do) THEN {} ELSE card
        /\ Set(t, IF LastCall(t) THEN [Onward(t) EXCEPT !.calls = 0]
                                 ELSE [p EXCEPT !.calls = @ + 1])
    BY Zenon, <1>1 DEF IoctlMapped
  <1>3. OnCard(code)
    BY Zenon, <1>1, <1>2 DEF OnCard
  <1>4. ~late /\ card \in SUBSET Shifts
    BY Zenon, <1>3, Here DEF ProgramsInv
  <1>5. card' = CardAfter(l, d)
    <2>1. d.key = p.fd.key /\ d.card = card
      BY DEF D
    <2> QED BY Zenon, <1>1, <1>2, <2>1 DEF CardAfter
  <1>6. card' \subseteq Shifts
    <2>1. Turned(t, card) \in SUBSET Shifts
      BY Zenon, <1>1, <1>4
    <2> QED BY Zenon, <1>2, <1>4, <2>1
  <1> DEFINE done == [p EXCEPT !.at = p.at + 1, !.calls = 0]
             more == [p EXCEPT !.calls = p.calls + 1]
             one == Ioctls(l.do, l.size) = 1
  <1>7. [Onward(t) EXCEPT !.calls = 0] = done
    BY <1>1 DEF Onward, ProcState
  <1>8. [p EXCEPT !.calls = @ + 1] = more
    BY <1>1 DEF ProcState
  <1>9. /\ p.calls = 0
        /\ one => Holds(code, done, MaxRounds[test[1]], card', TRUE, late)
        /\ ~one => Holds(code, more, MaxRounds[test[1]], card', TRUE, late)
    <2> DEFINE c == CardAfter(l, D(p.text, p.expected, p.fd.key, card, FALSE))
               rounds == MaxRounds[test[1]]
    <2>1. stuck = FALSE /\ late = FALSE
      BY Zenon, <1>2, <1>4 DEF ProgramsInv
    <2>2. Holds(code, p, rounds, card, FALSE, FALSE) /\ card' = c
      BY Zenon, <1>1, <1>5, <2>1
    <2> HIDE DEF p, code, rounds
    <2>3. /\ p.calls = 0
          /\ one => Holds(code, done, rounds, c, TRUE, FALSE)
          /\ ~one => Holds(code, more, rounds, c, TRUE, FALSE)
      BY Zenon, <1>1, <1>2, <2>2, MappedCalls
    <2> HIDE DEF c
    <2> QED BY Zenon, <2>1, <2>2, <2>3 DEF rounds
  <1>10. LastCall(t) <=> one
    <2>1. MaxIoctls[test[1]] \in Nat \ {0, 1}
      BY Zenon, RunFacts
    <2>2. proc[t].calls = 0
      BY Zenon, <1>9
    <2>3. 0 + 1 = 1 /\ MaxIoctls[test[1]] # 1
      BY <2>1
    <2> QED BY Zenon, <1>1, <2>2, <2>3 DEF LastCall
  <1>11. CASE one
    <2>1. Set(t, done)
      BY Zenon, <1>2, <1>7, <1>10, <1>11
    <2> HIDE DEF done
    <2> QED BY Zenon, <1>2, <1>3, <1>6, <1>9, <1>11, <2>1, AloneStep
  <1>12. CASE ~one
    <2>1. Set(t, more)
      BY Zenon, <1>2, <1>8, <1>10, <1>12
    <2> HIDE DEF more
    <2> QED BY Zenon, <1>2, <1>3, <1>6, <1>9, <1>12, <2>1, AloneStep
  <1> QED BY Zenon, <1>11, <1>12

-----------------------------------------------------------------------------
\* An exit takes the other threads along, and only ever in a program of
\* several processes.
LEMMA LeaveStep ==
    ASSUME ProgramsInv, NEW t \in DOMAIN run, NEW verdict \in {"none", "passed", "failed"},
           Leave(t, verdict), ~OnCard(run[t].code),
           verdict = "failed" => late \/ TooLong(run[t].code),
           ~late /\ verdict # "failed" => proc[t].text = {0}
    PROVE  ProgramsInv'
  <1> DEFINE rounds == MaxRounds[test[1]]
             next(u) == CASE u = t -> [proc[u] EXCEPT !.state = "exit", !.verdict = verdict]
                          [] u \in Others(t) -> [proc[u] EXCEPT !.state = "killed"]
                          [] OTHER -> proc[u]
  <1>1. proc' = [u \in DOMAIN run |-> next(u)] /\ UNCHANGED <<test, run, card, stuck>>
    BY Zenon DEF Leave
  <1>2. Others(t) # {} => DOMAIN run # {1}
    BY Zenon DEF Others
  <1>3. late' = late \/ (late' = TRUE /\ DOMAIN run # {1})
    BY Zenon, <1>2 DEF Leave, Die
  <1>4. \A u \in Others(t) : u \in DOMAIN run /\ u # t
    BY Zenon DEF Others
  <1> HIDE DEF next
  <1>5. ASSUME NEW u \in DOMAIN run
        PROVE  Holds(run[u].code, next(u), rounds, card, stuck, late)
    <2>0. Holds(run[u].code, proc[u], rounds, card, stuck, late) /\ proc[u] \in ProcState
      BY Zenon, Here
    <2>1. CASE u = t
      <3> DEFINE q == [proc[t] EXCEPT !.state = "exit", !.verdict = verdict]
      <3>1. /\ q \in ProcState /\ q.state = "exit" /\ q.at = proc[t].at /\ q.round = proc[t].round
            /\ q.calls = proc[t].calls /\ q.part = proc[t].part /\ q.text = proc[t].text
            /\ q.verdict = verdict
        BY Zenon, <2>0, <2>1 DEF ProcState
      <3> HIDE DEF q
      <3>2. Holds(run[t].code, q, rounds, card, stuck, late)
        BY <2>0, <2>1, <3>1, ExitHolds
      <3>3. next(u) = q
        BY Zenon, <1>4, <2>1 DEF next, q
      <3> QED BY Zenon, <2>1, <3>2, <3>3
    <2>2. CASE u \in Others(t)
      <3>1. ~OnCard(run[u].code)
        BY Zenon, <1>2, <2>2, Here
      <3>2. next(u) = [proc[u] EXCEPT !.state = "killed"]
        BY Zenon, <1>4, <2>2 DEF next
      <3>3. Holds(run[u].code, [proc[u] EXCEPT !.state = "killed"], rounds, card, stuck, late)
        BY <2>0, <3>1, KilledHolds
      <3> QED BY Zenon, <3>2, <3>3
    <2>3. CASE u # t /\ u \notin Others(t)
      <3>1. next(u) = proc[u]
        BY Zenon, <2>3 DEF next
      <3> QED BY Zenon, <2>0, <3>1
    <2> QED BY Zenon, <2>1, <2>2, <2>3
  <1>6. \A u \in DOMAIN run : Holds(run[u].code, proc'[u], rounds, card', stuck', late')
    <2> SUFFICES ASSUME NEW u \in DOMAIN run
                 PROVE  Holds(run[u].code, proc'[u], rounds, card', stuck', late')
      BY Zenon
    <2>1. proc'[u] = next(u)
      BY Zenon, <1>1
    <2>2. Holds(run[u].code, next(u), rounds, card, stuck, late)
      BY Zenon, <1>5
    <2>3. late' = late \/ late' = TRUE
      BY Zenon, <1>3
    <2>4. Holds(run[u].code, next(u), rounds, card, stuck, late')
      BY Zenon, <2>2, <2>3, LateHolds
    <2> QED BY Zenon, <1>1, <2>1, <2>4
  <1>7. DOMAIN proc' = DOMAIN run
    BY Zenon, <1>1
  <1>8. /\ card' \subseteq Shifts /\ stuck' \in BOOLEAN /\ late' \in BOOLEAN
        /\ DOMAIN run = {1} => ~late'
        /\ DOMAIN run # {1} => card' = {0} /\ ~stuck'
    <2>1. /\ card \subseteq Shifts /\ stuck \in BOOLEAN /\ late \in BOOLEAN
          /\ DOMAIN run = {1} => ~late
          /\ DOMAIN run # {1} => card = {0} /\ ~stuck
      BY Zenon DEF ProgramsInv
    <2>2. late' \in BOOLEAN
      BY Zenon, <1>3, <2>1
    <2>3. DOMAIN run = {1} => ~late'
      BY Zenon, <1>3, <2>1
    <2> QED BY Zenon, <1>1, <2>1, <2>2, <2>3
  <1> QED BY Zenon, <1>1, <1>6, <1>7, <1>8, Frame

\* IsValid keeps the invariant, also when the comparison fails.
LEMMA ValidStep ==
    ASSUME ProgramsInv, NEW t \in DOMAIN run, IsValid(t)
    PROVE  ProgramsInv'
  <1> DEFINE q == Onward(t)
             l == Line(t)
             d == D(proc[t].text, proc[t].expected, proc[t].fd.key, card, stuck)
  <1>1. At(t, "valid")
    BY Zenon DEF IsValid
  <1>2. /\ l.do = "valid" /\ proc[t] \in ProcState /\ proc[t].state = "run"
        /\ proc[t].at <= Len(run[t].code)
    BY Zenon, <1>1, LineTyped DEF At
  <1>3. /\ SoundCode(run[t].code) /\ l = run[t].code[proc[t].at]
        /\ Holds(run[t].code, proc[t], MaxRounds[test[1]], card, stuck, late)
    BY Zenon, Here DEF Line
  <1>4. Compares(l, d) <=> Message(t) = Wanted(t)
    <2>1. d.text = proc[t].text /\ d.card = card /\ d.expected = proc[t].expected
      BY DEF D
    <2> HIDE DEF d
    <2> QED BY Zenon, <2>1 DEF Compares, Message, Wanted
  <1>5. CASE Message(t) = Wanted(t)
    <2>1. Set(t, q) /\ UNCHANGED <<test, run, card, stuck, late>>
      BY Zenon, <1>5 DEF IsValid
    <2>2. /\ q \in ProcState /\ q.state = "run" /\ q.at = proc[t].at + 1
          /\ q.round = proc[t].round /\ q.calls = proc[t].calls
          /\ q.part = proc[t].part /\ q.verdict = proc[t].verdict
          /\ q.text = proc[t].text /\ q.expected = proc[t].expected /\ q.fd = proc[t].fd
      BY Zenon, <1>2, OnwardIs
    <2>3. Compares(run[t].code[proc[t].at], d) /\ run[t].code[proc[t].at].do = "valid"
      BY Zenon, <1>2, <1>3, <1>4, <1>5
    <2> HIDE DEF q, l
    <2>4. Holds(run[t].code, q, MaxRounds[test[1]], card, stuck, late)
      BY <1>2, <1>3, <2>2, <2>3, ValidHolds
    <2> QED BY <2>1, <2>4, SetStep
  <1>6. CASE Message(t) # Wanted(t)
    <2>1. Leave(t, "failed")
      BY Zenon, <1>6 DEF IsValid
    <2>2. ~Compares(run[t].code[proc[t].at], d) /\ run[t].code[proc[t].at].do = "valid"
      BY Zenon, <1>2, <1>3, <1>4, <1>6
    <2>3. late \/ TooLong(run[t].code)
      BY <1>2, <1>3, <2>2, ValidFails
    <2>4. ~OnCard(run[t].code)
      BY Zenon, <2>3, Here DEF TooLong
    <2>5. "failed" \in {"none", "passed", "failed"}
      OBVIOUS
    <2> QED BY <2>1, <2>3, <2>4, <2>5, LeaveStep
  <1> QED BY Zenon, <1>5, <1>6

\* MapCard keeps the invariant: no program maps more than the card has.
LEMMA MapStep ==
    ASSUME ProgramsInv, NEW t \in DOMAIN run, MapCard(t)
    PROVE  ProgramsInv'
  <1>1. At(t, "map") /\ "map" \in Silent
    BY Zenon DEF MapCard, Silent
  <1>2. Line(t).size <= 1024 * KB - 168
    <2>1. /\ SoundCode(run[t].code)
          /\ Holds(run[t].code, proc[t], MaxRounds[test[1]], card, stuck, late)
      BY Zenon, Here
    <2>2. proc[t].state = "run" /\ proc[t].at <= Len(run[t].code) /\ Line(t).do = "map"
      BY Zenon, <1>1 DEF At
    <2>3. LineRule(run[t].code[proc[t].at], Note(run[t].code)[proc[t].at],
                   Note(run[t].code)[proc[t].at + 1])
      BY <2>1, <2>2, LineLeads
    <2> QED BY <2>2, <2>3 DEF LineRule, Line
  <1>3. Set(t, Onward(t)) /\ UNCHANGED <<test, run, card, stuck, late>>
    BY <1>2 DEF MapCard
  <1> QED BY <1>1, <1>3, PlainStep

\* exit and the crash of pthread_join.
LEMMA EndStep ==
    ASSUME ProgramsInv, NEW t \in DOMAIN run, NEW what \in Ends, At(t, what),
           NEW verdict \in {"none", proc[t].verdict}, Leave(t, verdict)
    PROVE  ProgramsInv'
  <1>1. /\ SoundCode(run[t].code)
        /\ Holds(run[t].code, proc[t], MaxRounds[test[1]], card, stuck, late)
        /\ proc[t] \in ProcState
    BY Zenon, Here
  <1>2. /\ proc[t].state = "run" /\ proc[t].at <= Len(run[t].code)
        /\ run[t].code[proc[t].at].do \in Ends
    BY Zenon DEF At, Line
  <1>3. ~OnCard(run[t].code) /\ (~late => proc[t].text = {0})
    BY <1>1, <1>2, EndsPlain
  <1>4. verdict \in {"none", "passed", "failed"}
    BY <1>1 DEF ProcState
  <1>5. verdict = "failed" => late \/ TooLong(run[t].code)
    BY <1>1 DEF Holds, Explained
  <1> QED BY <1>3, <1>4, <1>5, LeaveStep

\* Exit and JoinUnset keep the invariant.
LEMMA ExitStep ==
    ASSUME ProgramsInv, NEW t \in DOMAIN run, Exit(t) \/ JoinUnset(t)
    PROVE  ProgramsInv'
  <1>1. "exit" \in Ends /\ "join" \in Ends /\ "join" \in Silent
    BY Zenon DEF Ends, Silent
  <1>2. \/ At(t, "exit") /\ Leave(t, proc[t].verdict)
        \/ At(t, "join") /\ Leave(t, "none")
        \/ At(t, "join") /\ Set(t, Onward(t)) /\ UNCHANGED <<test, run, card, stuck, late>>
    BY Zenon DEF Exit, JoinUnset
  <1>3. CASE At(t, "exit") /\ Leave(t, proc[t].verdict)
    BY <1>1, <1>3, EndStep
  <1>4. CASE At(t, "join") /\ Leave(t, "none")
    BY <1>1, <1>4, EndStep
  <1>5. CASE At(t, "join") /\ Set(t, Onward(t)) /\ UNCHANGED <<test, run, card, stuck, late>>
    BY <1>1, <1>5, PlainStep
  <1> QED BY Zenon, <1>2, <1>3, <1>4, <1>5

\* Return keeps the invariant: no process on the card gets there.
LEMMA ReturnStep ==
    ASSUME ProgramsInv, NEW t \in DOMAIN run, Return(t)
    PROVE  ProgramsInv'
  <1> DEFINE new == [proc[t] EXCEPT !.state = "exit", !.open = FALSE]
  <1>1. /\ SoundCode(run[t].code)
        /\ Holds(run[t].code, proc[t], MaxRounds[test[1]], card, stuck, late)
        /\ proc[t] \in ProcState /\ (OnCard(run[t].code) => ~late)
    BY Zenon, Here
  <1>2. /\ proc[t].state = "run" /\ proc[t].at > Len(run[t].code) /\ Set(t, new)
        /\ UNCHANGED <<test, run, card, stuck, late>>
    BY Zenon DEF Return
  <1>3. ~late => proc[t].text = {0} /\ ~OnCard(run[t].code)
    BY <1>1, <1>2, EndsPlain
  <1>4. ~OnCard(run[t].code)
    BY Zenon, <1>1, <1>3
  <1>5. proc[t].verdict = "failed" => late \/ TooLong(run[t].code)
    BY Zenon, <1>1 DEF Holds, Explained
  <1>6. /\ new \in ProcState /\ new.state = "exit" /\ new.at = proc[t].at
        /\ new.round = proc[t].round /\ new.calls = proc[t].calls /\ new.part = proc[t].part
        /\ new.text = proc[t].text /\ new.verdict = proc[t].verdict
    BY Zenon, <1>1 DEF ProcState
  <1> HIDE DEF new
  <1>7. Holds(run[t].code, new, MaxRounds[test[1]], card, stuck, late)
    BY <1>1, <1>3, <1>4, <1>5, <1>6, ExitHolds
  <1> QED BY <1>2, <1>7, SetStep

-----------------------------------------------------------------------------
\* Only a program of several processes forks and kills.
LEMMA ChildIs ==
    ASSUME ProgramsInv, NEW t \in DOMAIN run, At(t, "fork") \/ At(t, "kill")
    PROVE  /\ Line(t).child \in DOMAIN run /\ DOMAIN run # {1}
           /\ card = {0} /\ stuck = FALSE
           /\ \A u \in DOMAIN run : ~OnCard(run[u].code)
           /\ Holds(run[t].code, Onward(t), MaxRounds[test[1]], card, stuck, late)
  <1>1. PICK what \in {"fork", "kill"} : At(t, what)
    BY Zenon
  <1>2. proc[t].at \in 1 .. Len(run[t].code) /\ run[t].code[proc[t].at].do = what
    BY Zenon, <1>1, LineTyped DEF Line
  <1>3. Line(t).child \in DOMAIN run \ {1}
    <2>1. SoundRun(run)
      BY Zenon, RunFacts
    <2> QED BY Zenon, <1>1, <1>2, <2>1 DEF SoundRun, Line
  <1>4. DOMAIN run # {1}
    BY Zenon, <1>3
  <1>5. card = {0} /\ stuck = FALSE
    BY Zenon, <1>4 DEF ProgramsInv
  <1>6. what \in Silent
    BY <1>1 DEF Silent
  <1>7. Holds(run[t].code, Onward(t), MaxRounds[test[1]], card, stuck, late)
    BY Zenon, <1>1, <1>6, SilentOn
  <1> QED BY Zenon, <1>3, <1>4, <1>5, <1>7, Here

\* Fork keeps the invariant.
LEMMA ForkStep ==
    ASSUME ProgramsInv, NEW t \in DOMAIN run, Fork(t)
    PROVE  ProgramsInv'
  <1> DEFINE c == Line(t).child
             rounds == MaxRounds[test[1]]
             fresh == Fresh("run")
  <1>1. /\ At(t, "fork") /\ UNCHANGED <<test, run, card, stuck, late>>
        /\ proc' = [proc EXCEPT ![t] = Onward(t), ![c] = fresh]
    BY Zenon DEF Fork
  <1>2. /\ c \in DOMAIN run /\ card = {0} /\ stuck = FALSE
        /\ Holds(run[t].code, Onward(t), rounds, card, stuck, late)
    BY Zenon, <1>1, ChildIs
  <1>3. Holds(run[c].code, fresh, rounds, card, stuck, late)
    <2>1. SoundCode(run[c].code) /\ rounds \in Nat \ {0}
      BY Zenon, <1>2, Here, RunFacts
    <2>2. "run" \in {"new", "run"}
      OBVIOUS
    <2> HIDE DEF rounds, c
    <2>3. Holds(run[c].code, fresh, rounds, {0}, FALSE, late)
      BY Zenon, <2>1, <2>2, FreshHolds
    <2> HIDE DEF fresh
    <2> QED BY Zenon, <1>2, <2>3
  <1> HIDE DEF c, fresh
  <1>4. DOMAIN proc' = DOMAIN run
    BY Zenon, <1>1, RunFacts
  <1>5. \A u \in DOMAIN run :
            proc'[u] = IF u = c THEN fresh ELSE IF u = t THEN Onward(t) ELSE proc[u]
    BY <1>1, RunFacts
  <1>6. \A u \in DOMAIN run : Holds(run[u].code, proc'[u], rounds, card', stuck', late')
    <2> SUFFICES ASSUME NEW u \in DOMAIN run
                 PROVE  Holds(run[u].code, proc'[u], rounds, card, stuck, late)
      BY Zenon, <1>1
    <2>1. Holds(run[u].code, proc[u], rounds, card, stuck, late)
      BY Zenon, Here
    <2> QED BY Zenon, <1>2, <1>3, <1>5, <2>1
  <1>7. /\ card \subseteq Shifts /\ stuck \in BOOLEAN /\ late \in BOOLEAN
        /\ DOMAIN run = {1} => ~late
        /\ DOMAIN run # {1} => card = {0} /\ ~stuck
    BY Zenon DEF ProgramsInv
  <1> QED BY Zenon, <1>1, <1>4, <1>6, <1>7, Frame

\* Kill keeps the invariant, also when a waiting process dies.
LEMMA KillStep ==
    ASSUME ProgramsInv, NEW t \in DOMAIN run, Kill(t)
    PROVE  ProgramsInv'
  <1> DEFINE c == Line(t).child
             rounds == MaxRounds[test[1]]
             mid(u) == IF u = t THEN Onward(t) ELSE proc[u]
             end == IF mid(c).state = "run" THEN "killed" ELSE mid(c).state
  <1>1. /\ At(t, "kill") /\ UNCHANGED <<test, run, card, stuck>>
        /\ proc' = [proc EXCEPT ![t] = Onward(t), ![c].state = IF @ = "run" THEN "killed" ELSE @]
        /\ Die({c})
    BY Zenon DEF Kill
  <1>2. /\ c \in DOMAIN run /\ DOMAIN run # {1} /\ card = {0} /\ stuck = FALSE
        /\ \A u \in DOMAIN run : ~OnCard(run[u].code)
        /\ Holds(run[t].code, Onward(t), rounds, card, stuck, late)
    BY Zenon, <1>1, ChildIs
  <1>3. late' = late \/ late' = TRUE
    BY Zenon, <1>1 DEF Die
  <1> HIDE DEF c
  <1>4. DOMAIN proc' = DOMAIN run
    BY Zenon, <1>1, RunFacts
  <1>5. \A u \in DOMAIN run : Holds(run[u].code, mid(u), rounds, card, stuck, late)
    BY Zenon, <1>2, Here
  <1>6. mid(c) \in ProcState
    BY Zenon, <1>2, <1>5 DEF Holds
  <1>7. \A u \in DOMAIN run :
            proc'[u] = IF u = c THEN [mid(c) EXCEPT !.state = end] ELSE mid(u)
    BY <1>1, <1>2, RunFacts
  <1> HIDE DEF mid, rounds
  <1>8. Holds(run[c].code, [mid(c) EXCEPT !.state = end], rounds, card, stuck, late)
    <2> DEFINE p == mid(c)
    <2>1. Holds(run[c].code, p, rounds, card, stuck, late)
      BY Zenon, <1>2, <1>5
    <2>2. Holds(run[c].code, [p EXCEPT !.state = "killed"], rounds, card, stuck, late)
      BY <1>2, <2>1, KilledHolds
    <2>3. [p EXCEPT !.state = p.state] = p
      BY <1>6 DEF ProcState
    <2> HIDE DEF p
    <2>4. Holds(run[c].code, [p EXCEPT !.state = IF p.state = "run" THEN "killed" ELSE p.state],
                rounds, card, stuck, late)
      BY Zenon, <2>1, <2>2, <2>3
    <2> QED BY Zenon, <2>4 DEF p
  <1>9. \A u \in DOMAIN run : Holds(run[u].code, proc'[u], rounds, card', stuck', late')
    <2> SUFFICES ASSUME NEW u \in DOMAIN run
                 PROVE  Holds(run[u].code, proc'[u], rounds, card, stuck, late')
      BY Zenon, <1>1
    <2>1. Holds(run[u].code, proc'[u], rounds, card, stuck, late)
      <3> HIDE DEF end
      <3> QED BY Zenon, <1>5, <1>7, <1>8
    <2> QED BY Zenon, <1>3, <2>1, LateHolds
  <1>10. /\ card \subseteq Shifts /\ stuck \in BOOLEAN /\ late' \in BOOLEAN
         /\ DOMAIN run # {1} => card = {0} /\ ~stuck
    BY Zenon, <1>3 DEF ProgramsInv
  <1>11. \A u \in DOMAIN run :
            Holds(run[u].code, proc'[u], MaxRounds[test[1]], card', stuck', late')
    BY Zenon, <1>9 DEF rounds
  <1> QED BY Zenon, <1>1, <1>2, <1>4, <1>10, <1>11, Frame

\* Every step keeps the invariant.
LEMMA StepHolds == ProgramsInv /\ [Next]_vars => ProgramsInv'
  <1> SUFFICES ASSUME ProgramsInv, [Next]_vars PROVE ProgramsInv'
    OBVIOUS
  <1>1. CASE \E t \in 1 .. MaxProc : Step(t)
    <2>1. PICK t \in DOMAIN run : Step(t)
      BY Zenon, <1>1 DEF Step
    <2> QED
      BY Zenon, <2>1, OpenStep, CloseStep, TakeStep, StrncpyStep, ExpectStep, UnexpectStep,
         IoctlStep, IoctlMappedStep, ValidStep, MapStep, PlainSteps, AgainStep, PassedStep,
         ForkStep, KillStep, ExitStep, ReturnStep DEF Step
  <1>2. CASE UNCHANGED <<test, run, proc, card, stuck, late>>
    BY Zenon, <1>2 DEF ProgramsInv
  <1> QED BY Zenon, <1>1, <1>2 DEF Next, Starve, vars
=============================================================================
