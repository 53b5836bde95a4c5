----------------------- MODULE InterfaceSearchProofs ------------------------
(* The interface search is right for every factory and every bound up to 999 *)
EXTENDS InterfaceSearch, TLAPS

\* The decimal weight of digit k, and of the digit that is not there.
Weight(k) == IF k = 3 THEN 1 ELSE IF k = 2 THEN 10 ELSE IF k = 1 THEN 100 ELSE 1000

\* What the digits spell at each point, and that no version asked for so far was
\* offered.  While the carry is under way everything right of digit i is 0 again.
SearchInv ==
    /\ TypeOK
    /\ pc = "loop" => Version = cnt
    /\ pc = "carry" => /\ cnt < Tries /\ i > 0
                       /\ Version + Weight(i) = cnt + 1
                       /\ \A k \in 1..3 : k > i => digit[k] = 0
    /\ pc = "ask" => Version = cnt + 1 /\ i > 0 /\ cnt < Tries
    /\ pc # "done" => found = -1
    /\ \A v \in offered : v >= 1 => v > cnt
    /\ FindsOldest

\* The initial state satisfies the invariant.
LEMMA SearchInit == Init => SearchInv
BY TriesAssumption, OfferingsAssumption DEF Init, SearchInv, TypeOK, Version, FindsOldest

\* A digit 9 stands for one of the next higher weight, and the third digit is not
\* 9 then: 999 + 1 would have to be at most the bound.
LEMMA CarryInv ==
    ASSUME SearchInv, Carry
    PROVE  SearchInv'
<1>1. TypeOK'
  BY DEF SearchInv, TypeOK, Carry
<1>2. i \in 1..3 /\ i' = i - 1
  BY DEF SearchInv, TypeOK, Carry
<1>3. Version' + Weight(i') = cnt + 1
  <2>1. CASE i = 3
    BY <2>1 DEF SearchInv, TypeOK, Carry, Version, Weight
  <2>2. CASE i = 2
    BY <2>2 DEF SearchInv, TypeOK, Carry, Version, Weight
  <2>3. CASE i = 1
    BY <2>3 DEF SearchInv, TypeOK, Carry, Version, Weight
  <2>4. QED
    BY <1>2, <2>1, <2>2, <2>3
<1>4. \A k \in 1..3 : k > i' => digit'[k] = 0
  BY <1>2 DEF SearchInv, TypeOK, Carry
<1>5. i # 1
  BY TriesAssumption DEF SearchInv, TypeOK, Carry, Version, Weight
<1>6. QED
  BY <1>1, <1>2, <1>3, <1>4, <1>5 DEF SearchInv, Carry, FindsOldest

\* Any other digit takes the carry.
LEMMA BumpInv ==
    ASSUME SearchInv, Bump
    PROVE  SearchInv'
<1>1. TypeOK'
  BY DEF SearchInv, TypeOK, Bump
<1>2. Version' = cnt + 1
  <2>1. CASE i = 3
    BY <2>1 DEF SearchInv, TypeOK, Bump, Version, Weight
  <2>2. CASE i = 2
    BY <2>2 DEF SearchInv, TypeOK, Bump, Version, Weight
  <2>3. CASE i = 1
    BY <2>3 DEF SearchInv, TypeOK, Bump, Version, Weight
  <2>4. QED
    BY <2>1, <2>2, <2>3 DEF SearchInv, TypeOK, Bump
<1>3. QED
  BY <1>1, <1>2 DEF SearchInv, Bump, FindsOldest

\* The answer of the factory.
LEMMA AskInv ==
    ASSUME SearchInv, Ask
    PROVE  SearchInv'
<1>1. Version \in 1..Tries /\ Version' = Version
  BY TriesAssumption DEF SearchInv, TypeOK, Ask, Version
<1>2. TypeOK'
  BY <1>1, TriesAssumption DEF SearchInv, TypeOK, Ask
<1>3. CASE Version \in offered
  <2>1. \A v \in offered \cap 1..Tries : Version <= v
    BY <1>3 DEF SearchInv, TypeOK, Ask
  <2>2. FindsOldest'
    BY <1>1, <1>3, <2>1 DEF Ask, FindsOldest
  <2>3. QED
    BY <1>2, <1>3, <2>2 DEF SearchInv, Ask
<1>4. CASE Version \notin offered
  <2>1. \A v \in offered : v >= 1 => v > cnt + 1
    BY <1>4 DEF SearchInv, TypeOK, Ask
  <2>2. QED
    BY <1>1, <1>2, <1>4, <2>1 DEF SearchInv, Ask, FindsOldest
<1>5. QED
  BY <1>3, <1>4

\* The test of the outer loop.
LEMMA LoopInv ==
    ASSUME SearchInv, Loop
    PROVE  SearchInv'
<1>1. TypeOK' /\ Version' = Version
  BY DEF SearchInv, TypeOK, Loop, Version
<1>2. QED
  BY <1>1, TriesAssumption DEF SearchInv, TypeOK, Loop, Weight, FindsOldest

\* The invariant holds in every reachable state.
THEOREM SearchInvariant == Spec => []SearchInv
<1>1. SearchInv /\ [Next]_vars => SearchInv'
  <2>1. SearchInv /\ UNCHANGED vars => SearchInv'
    BY DEF SearchInv, TypeOK, vars, Version, FindsOldest
  <2>2. QED
    BY <2>1, CarryInv, BumpInv, AskInv, LoopInv DEF Next
<1>2. QED
  BY SearchInit, <1>1, PTL DEF Spec

\* Type correctness: the digits stay digits, the index inside the name.
THEOREM SearchTypeCorrect == Spec => []TypeOK
<1>1. SearchInv => TypeOK
  BY DEF SearchInv
<1>2. QED
  BY SearchInvariant, <1>1, PTL

\* The carry is right: the factory is asked for version cnt + 1, so every version
\* from 1 on is asked for in turn and the name never wraps around.
AsksInTurn == pc = "ask" => Version = cnt + 1 /\ i > 0

\* The factory is asked for versions 1, 2, 3, ... and the name never wraps.
THEOREM AsksEveryVersion == Spec => []AsksInTurn
<1>1. SearchInv => AsksInTurn
  BY DEF SearchInv, AsksInTurn
<1>2. QED
  BY SearchInvariant, <1>1, PTL

\* The search returns the oldest version offered in range, or NULL for none.
THEOREM SearchCorrect == Spec => []FindsOldest
<1>1. SearchInv => FindsOldest
  BY DEF SearchInv
<1>2. QED
  BY SearchInvariant, <1>1, PTL

-----------------------------------------------------------------------------
\* How many steps the search can still take at most: five for each version that is
\* left (the test, three digits, the question), and the last test.
Remaining ==
    6 * (Tries - cnt) + (IF pc = "loop" THEN 5 ELSE IF pc = "carry" THEN i + 1
                         ELSE IF pc = "ask" THEN 1 ELSE 0)

\* Each step of the search lowers what remains, a natural number that no factory and
\* no bound keeps from running out: the outer loop counts every question that was
\* answered NULL, and the inner one leaves the name after its third digit.  This is
\* why Terminates holds.
THEOREM SearchRunsOut ==
    Spec => /\ [](Remaining \in Nat)
            /\ [][Remaining' < Remaining]_vars
<1>1. SearchInv => Remaining \in Nat
  BY TriesAssumption DEF SearchInv, TypeOK, Remaining
<1>2. SearchInv /\ SearchInv' /\ [Next]_vars => [Remaining' < Remaining]_vars
  <2> SUFFICES ASSUME SearchInv, SearchInv', Next PROVE Remaining' < Remaining
    OBVIOUS
  <2>0. cnt \in Int /\ Tries \in Int /\ i \in Int
    BY TriesAssumption DEF SearchInv, TypeOK
  <2>1. CASE Loop
    <3>1. Remaining = 6 * (Tries - cnt) + 5
      BY <2>1 DEF Loop, Remaining
    <3>2. Remaining' \in {6 * (Tries - cnt) + 4, 6 * (Tries - cnt)}
      <4>1. /\ cnt' = cnt
            /\ (pc' = "carry" /\ i' = 3) \/ pc' = "done"
        BY Zenon, <2>1 DEF Loop
      <4>2. QED
        BY <2>0, <4>1 DEF Remaining
    <3>3. QED
      BY <2>0, <3>1, <3>2
  <2>2. CASE Carry
    <3>1. Remaining = 6 * (Tries - cnt) + i + 1
      BY <2>0, <2>2 DEF Carry, Remaining
    <3>2. Remaining' = 6 * (Tries - cnt) + i \/ (i = 1 /\ Remaining' = 6 * (Tries - cnt) + 1)
      BY <2>0, <2>2 DEF Carry, Remaining
    <3>3. QED
      BY <2>0, <3>1, <3>2
  <2>3. CASE Bump
    <3>1. i > 0 /\ Remaining = 6 * (Tries - cnt) + i + 1
      BY <2>0, <2>3 DEF SearchInv, Bump, Remaining
    <3>2. Remaining' = 6 * (Tries - cnt) + 1
      BY <2>3 DEF Bump, Remaining
    <3>3. QED
      BY <2>0, <3>1, <3>2
  <2>4. CASE Ask
    <3>1. Remaining = 6 * (Tries - cnt) + 1
      BY <2>4 DEF Ask, Remaining
    <3>2. Remaining' \in {6 * (Tries - cnt), 6 * (Tries - (cnt + 1)) + 5}
      BY <2>0, <2>4 DEF Ask, Remaining
    <3>3. QED
      BY <2>0, <3>1, <3>2
  <2>5. QED
    BY <2>1, <2>2, <2>3, <2>4 DEF Next
<1>3. QED
  BY SearchInvariant, <1>1, <1>2, PTL DEF Spec
=============================================================================
