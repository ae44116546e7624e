------------------------- MODULE CardProgramsProofs -------------------------
(***************************************************************************)
(* What the evaluation programs and benchmarks of the crypto card come to, *)
(* for every number of rounds, ioctls and children: every program has an   *)
(* outline (CardOutlineProofs), and the steps keep to it (CardStepProofs). *)
(***************************************************************************)
EXTENDS CardStepProofs, CardOutlineProofs

\* Every program of the suite starts in its outline.
LEMMA InitHolds == Init => ProgramsInv
  <1> SUFFICES ASSUME Init PROVE ProgramsInv
    OBVIOUS
  <1>1. test[1] \in DOMAIN Suite /\ test[2] \in DOMAIN Suite[test[1]]
    BY Zenon, ProgramsAssumption DEF Init
  <1>2. SoundRun(run) /\ MaxRounds[test[1]] \in Nat \ {0}
    BY Zenon, <1>1, SuiteIsSound, ProgramsAssumption DEF Fine, Init
  <1>3. /\ card = {0} /\ stuck = FALSE /\ late = FALSE /\ DOMAIN proc = DOMAIN run
        /\ \A t \in DOMAIN run : proc[t] = Fresh(IF t = 1 THEN "run" ELSE "new")
    BY Zenon DEF Init
  <1>4. \A t \in DOMAIN run :
            Holds(run[t].code, proc[t], MaxRounds[test[1]], card, stuck, late)
    <2> SUFFICES ASSUME NEW t \in DOMAIN run
                 PROVE  Holds(run[t].code, proc[t], MaxRounds[test[1]], card, stuck, late)
      BY Zenon
    <2>1. SoundCode(run[t].code)
      BY Zenon, <1>2 DEF SoundRun
    <2>2. PICK state \in {"new", "run"} : proc[t] = Fresh(state)
      BY Zenon, <1>3
    <2>3. Holds(run[t].code, Fresh(state), MaxRounds[test[1]], {0}, FALSE, late)
      BY Zenon, <1>2, <2>1, FreshHolds
    <2> QED BY Zenon, <1>3, <2>2, <2>3
  <1>5. {0} \subseteq Shifts
    BY DEF Shifts, LETTERS
  <1> QED BY Zenon, <1>2, <1>3, <1>4, <1>5 DEF Init, ProgramsInv

\* The invariant holds of every program of the suite, for every number of
\* rounds and of children, however processes and threads interleave.
THEOREM ProgramsInvariance == Spec => []ProgramsInv
  <1> QED BY InitHolds, StepHolds, PTL DEF Spec

\* Every process is at a line of its program, within its loops, and knows its
\* message as a set of distances.
THEOREM ProgramsTyped == Spec => []TypeOK
  <1>1. ProgramsInv /\ hung \in BOOLEAN => TypeOK
    <2> SUFFICES ASSUME ProgramsInv, hung \in BOOLEAN PROVE TypeOK
      OBVIOUS
    <2>1. /\ test \in Tests /\ card \subseteq Shifts /\ stuck \in BOOLEAN /\ late \in BOOLEAN
          /\ hung \in BOOLEAN
      BY Zenon DEF ProgramsInv
    <2>2. ASSUME NEW t \in DOMAIN run
          PROVE  /\ proc[t].state \in {"new", "run", "exit", "killed"}
                 /\ proc[t].verdict \in {"none", "passed", "failed"}
                 /\ proc[t].at \in 1 .. Len(run[t].code) + 1
                 /\ proc[t].round \in 1 .. MaxRounds[test[1]]
                 /\ proc[t].text \subseteq Shifts /\ proc[t].part \subseteq Shifts
                 /\ proc[t].expected \subseteq 0 .. LETTERS - 1
      <3>1. Holds(run[t].code, proc[t], MaxRounds[test[1]], card, stuck, late)
            /\ proc[t] \in ProcState
        BY Zenon, Here
      <3>2. /\ proc[t].at \in 1 .. Len(run[t].code) + 1
            /\ proc[t].round \in 1 .. MaxRounds[test[1]]
        BY Zenon, <3>1 DEF Holds
      <3>3. /\ proc[t].state \in {"new", "run", "exit", "killed"}
            /\ proc[t].verdict \in {"none", "passed", "failed"}
            /\ proc[t].text \subseteq Shifts /\ proc[t].part \subseteq Shifts
            /\ proc[t].expected \subseteq 0 .. LETTERS - 1
        BY Zenon, <3>1 DEF ProcState
      <3> QED BY Zenon, <3>2, <3>3
    <2> QED BY Zenon, <2>1, <2>2 DEF TypeOK, Shifts
  <1>2. Init => hung \in BOOLEAN
    BY DEF Init
  <1>3. hung \in BOOLEAN /\ [Next]_vars => (hung \in BOOLEAN)'
    BY DEF Next, Starve, vars
  <1> QED BY <1>1, <1>2, <1>3, ProgramsInvariance, PTL DEF Spec

\* How the outlines' words for a program relate to those of the properties.
LEMMA CodeOf ==
    ASSUME ProgramsInv, NEW t \in DOMAIN run
    PROVE  /\ Maps(t) => OnCard(run[t].code)
           /\ TooLong(run[t].code) => Long(t) /\ ~Maps(t)
  <1> DEFINE code == run[t].code
  <1>1. SoundCode(code)
    BY Zenon, Here
  <1>2. DOMAIN code = 1 .. Len(code) /\ \A n \in 1 .. Len(code) : code[n] \in ProgramLine
    BY <1>1, RuleAt
  <1>3. \A l : l \in Calls(t) <=> \E n \in 1 .. Len(code) : l = code[n] /\ IsCall(l)
    BY Zenon, <1>2 DEF Calls, Lines, IsCall
  <1>4. Maps(t) => OnCard(code)
    BY Zenon, <1>3 DEF Maps, OnCard
  <1>5. TooLong(code) => Long(t)
    <2> SUFFICES ASSUME TooLong(code) PROVE Long(t)
      BY Zenon
    <2>1. PICK n \in 1 .. Len(code) : code[n].do = "decrypt" /\ ~Short(code[n].size)
      BY Zenon DEF TooLong
    <2>2. IsCall(code[n]) /\ code[n].size \in Nat
      <3>1. IsCall(code[n])
        BY <2>1 DEF IsCall
      <3> QED BY <1>2, <3>1, Fields
    <2>3. code[n].size > 32768
      BY <2>1, <2>2 DEF Short
    <2>4. code[n] \in Calls(t)
      BY Zenon, <1>3, <2>2
    <2> QED BY <2>1, <2>3, <2>4 DEF Long
  <1> QED BY Zenon, <1>4, <1>5 DEF TooLong

\* A comparison fails only in a process that decrypts more than one chunk, or
\* after a process was killed while it waited for the card.
THEOREM FailuresExplained == Spec => []FailuresAreExplained
  <1>1. ProgramsInv => FailuresAreExplained
    <2> SUFFICES ASSUME ProgramsInv, NEW t \in DOMAIN run, proc[t].verdict = "failed"
                 PROVE  late \/ (Long(t) /\ ~Maps(t))
      BY Zenon DEF FailuresAreExplained
    <2>1. late \/ TooLong(run[t].code)
      BY Zenon, Here DEF Holds, Explained
    <2> QED BY Zenon, <2>1, CodeOf
  <1> QED BY <1>1, ProgramsInvariance, PTL

\* A process that ends without a failed comparison has its whole message back.
THEOREM MessagesComeBack == Spec => []MessageComesBack
  <1>1. ProgramsInv => MessageComesBack
    BY Zenon, Here DEF MessageComesBack, Holds, Explained
  <1> QED BY <1>1, ProgramsInvariance, PTL

\* A program that uses the card's memory never gets to its end.
THEOREM MappedProgramsNeverEnd == Spec => []MappedNeverEnds
  <1>1. ProgramsInv => MappedNeverEnds
    <2> SUFFICES ASSUME ProgramsInv, NEW t \in DOMAIN run, Maps(t) PROVE ~Ended(t)
      BY Zenon DEF MappedNeverEnds
    <2>1. OnCard(run[t].code)
      BY Zenon, CodeOf
    <2> QED BY Zenon, <2>1, Here DEF Holds, Explained, Ended
  <1> QED BY <1>1, ProgramsInvariance, PTL
=============================================================================
