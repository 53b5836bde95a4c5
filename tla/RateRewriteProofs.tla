------------------------- MODULE RateRewriteProofs --------------------------
(* Theorems about the rate patches, for every distance of the jumps and      *)
(* every byte another game may have at the place that is checked.            *)
EXTENDS RateRewrite, TLAPS

\* The bytes of a sequence at an address.
LEMMA FromFacts ==
    ASSUME NEW a \in Nat, NEW bytes \in Seq(Byte)
    PROVE  From(a, bytes) \in [a..a + Len(bytes) - 1 -> Byte]
<1>1. ASSUME NEW n \in a..a + Len(bytes) - 1 PROVE bytes[n - a + 1] \in Byte
  <2>1. n - a + 1 \in 1..Len(bytes)
    BY SMT
  <2>2. QED
    BY <2>1
<1>2. QED
  BY <1>1 DEF From

\* The sequences of n bytes.
Bytes(n) == {s \in Seq(Byte) : Len(s) = n}

\* Two of them one after the other.
LEMMA ConcatBytes ==
    ASSUME NEW m \in Nat \ {0}, NEW n \in Nat, NEW a \in Bytes(m), NEW b \in Bytes(n)
    PROVE  a \o b \in Bytes(m + n) /\ (a \o b)[1] = a[1]
<1>1. a \in Seq(Byte) /\ b \in Seq(Byte) /\ Len(a) = m /\ Len(b) = n
  BY DEF Bytes
<1>2. a \o b \in Seq(Byte) /\ Len(a \o b) = Len(a) + Len(b)
  BY <1>1
<1>3. (a \o b)[1] = a[1]
  BY <1>1
<1>4. QED
  BY <1>1, <1>2, <1>3 DEF Bytes

\* The bytes of the constants.
LEMMA PieceFacts ==
    /\ Bound \in Bytes(4) /\ LoadRate \in Bytes(6) /\ LoadMax \in Bytes(8) /\ CompareRates \in Bytes(3)
    /\ NOP_2 \in Bytes(2) /\ NOP_3 \in Bytes(3) /\ NOP_9 \in Bytes(9)
    /\ JumpToLowerBound \in Bytes(2) /\ JumpOverCompare \in Bytes(2)
BY DEF Bytes, Bound, LoadRate, LoadMax, CompareRates, NOP_2, NOP_3, NOP_9, JumpToLowerBound,
       JumpOverCompare, JMP_8_OPCODE, Byte

\* What replaces a comparison by moves.
LEMMA MoveAndNopsFacts == MoveAndNops \in Bytes(14) /\ MoveAndNops[1] = MOV_R32_RM32_OPCODE
<1> DEFINE move == <<MOV_R32_RM32_OPCODE, 194>>
<1>1. move \in Bytes(2) /\ move[1] = MOV_R32_RM32_OPCODE
  BY DEF Bytes, Byte, MOV_R32_RM32_OPCODE
<1> HIDE DEF move
<1>2. NOP_9 \in Bytes(9) /\ NOP_3 \in Bytes(3)
  BY PieceFacts
<1>3. 2 \in Nat \ {0} /\ 9 \in Nat /\ 11 \in Nat \ {0} /\ 3 \in Nat /\ 2 + 9 = 11 /\ 11 + 3 = 14
  OBVIOUS
<1>4. move \o NOP_9 \in Bytes(11) /\ (move \o NOP_9)[1] = move[1]
  BY Zenon, <1>1, <1>2, <1>3, ConcatBytes
<1>5. /\ (move \o NOP_9) \o NOP_3 \in Bytes(14)
      /\ ((move \o NOP_9) \o NOP_3)[1] = (move \o NOP_9)[1]
  BY Zenon, <1>2, <1>3, <1>4, ConcatBytes
<1>6. QED
  BY <1>1, <1>4, <1>5 DEF MoveAndNops, move

\* The three instructions it replaces.
LEMMA BoundByMoveFacts == BoundByMove \in Bytes(14)
<1> DEFINE mov == <<MOV_R32_IMM32_OPCODE>>
           cmp == <<129, 250>>
           cmov == <<15, 78, 194>>
<1>1. mov \in Bytes(1) /\ cmp \in Bytes(2) /\ cmov \in Bytes(3)
  BY DEF Bytes, Byte, MOV_R32_IMM32_OPCODE
<1> HIDE DEF mov, cmp, cmov
<1>2. mov \o Bound \in Bytes(1 + 4)
  BY <1>1, PieceFacts, ConcatBytes
<1>3. mov \o Bound \o cmp \in Bytes(5 + 2)
  BY <1>1, <1>2, ConcatBytes
<1>4. mov \o Bound \o cmp \o Bound \in Bytes(7 + 4)
  BY <1>3, PieceFacts, ConcatBytes
<1>5. mov \o Bound \o cmp \o Bound \o cmov \in Bytes(11 + 3)
  BY <1>1, <1>4, ConcatBytes
<1>6. QED
  BY <1>5 DEF BoundByMove, mov, cmp, cmov

-----------------------------------------------------------------------------
\* What every site has in common: the patch lies inside the bytes that are known,
\* and its first byte is not the one GeneratePatch looks for.
SiteOK(s) ==
    /\ s.offset \in Nat /\ Len(s.replacement) \in Nat \ {0}
    /\ s.replacement \in Seq(Byte)
    /\ s.replacement[1] # s.check
    /\ s.offset..s.offset + Len(s.replacement) - 1 \subseteq DOMAIN s.bytes
    /\ s.bytes \in [DOMAIN s.bytes -> Byte]
    /\ DOMAIN s.bytes \subseteq Nat
    /\ s.holds \in {"rate", "bound", "other"}

\* The site of a sequence of m bytes from a on, with a patch of n bytes.
LEMMA OneSite ==
    ASSUME NEW a \in Nat, NEW m \in Nat, NEW bytes \in Bytes(m), NEW offset \in Nat, NEW check,
           NEW n \in Nat \ {0}, NEW replacement \in Bytes(n), NEW within,
           NEW holds \in {"rate", "bound", "other"},
           replacement[1] # check, a <= offset, offset + n <= a + m
    PROVE  SiteOK(Site(From(a, bytes), offset, check, replacement, within, holds))
<1>1. bytes \in Seq(Byte) /\ Len(bytes) = m /\ replacement \in Seq(Byte) /\ Len(replacement) = n
  BY DEF Bytes
<1>2. From(a, bytes) \in [a..a + m - 1 -> Byte]
  BY <1>1, FromFacts
<1>3. offset..offset + n - 1 \subseteq a..a + m - 1 /\ a..a + m - 1 \subseteq Nat
  OBVIOUS
<1>4. QED
  BY <1>1, <1>2, <1>3 DEF Site, SiteOK

\* All of them.
LEMMA SiteFacts == ASSUME NEW s \in Sites PROVE SiteOK(s)
<1>1. SiteOK(WinNetChan)
  <2> DEFINE jbe == <<JBE_8_OPCODE, 16>>
             bytes == LoadRate \o LoadMax \o CompareRates \o jbe
  <2>1. jbe \in Bytes(2)
    BY DEF Bytes, Byte, JBE_8_OPCODE
  <2> HIDE DEF jbe
  <2>2. LoadRate \o LoadMax \in Bytes(6 + 8)
    BY PieceFacts, ConcatBytes
  <2>3. LoadRate \o LoadMax \o CompareRates \in Bytes(14 + 3)
    BY <2>2, PieceFacts, ConcatBytes
  <2>4. bytes \in Bytes(17 + 2)
    BY <2>1, <2>3, ConcatBytes
  <2> HIDE DEF bytes
  <2>5. JumpToLowerBound[1] # MOVSS_OPCODE
    BY DEF JumpToLowerBound, JMP_8_OPCODE, MOVSS_OPCODE
  <2>6. SiteOK(Site(From(0, bytes), 6, MOVSS_OPCODE, JumpToLowerBound, 35, "other"))
    BY <2>4, <2>5, PieceFacts, OneSite
  <2>7. QED
    BY <2>6 DEF WinNetChan, bytes, jbe
<1>2. SiteOK(WinGameClient)
  <2> DEFINE cmp == <<CMP_EAX_OPCODE>>
             jle == <<JLE_8_OPCODE, 6>>
             bytes == cmp \o Bound \o jle
  <2>1. cmp \in Bytes(1) /\ jle \in Bytes(2)
    BY DEF Bytes, Byte, JLE_8_OPCODE, CMP_EAX_OPCODE
  <2> HIDE DEF cmp, jle
  <2>2. Bound \in Bytes(4) /\ 1 \in Nat \ {0} /\ 4 \in Nat
    BY PieceFacts
  <2>3. cmp \o Bound \in Bytes(1 + 4)
    BY Zenon, <2>1, <2>2, ConcatBytes
  <2>4. bytes \in Bytes(5 + 2)
    BY <2>1, <2>3, ConcatBytes
  <2> HIDE DEF bytes
  <2>5. JumpOverCompare[1] # CMP_EAX_OPCODE
    BY DEF JumpOverCompare, JMP_8_OPCODE, CMP_EAX_OPCODE
  <2>6. SiteOK(Site(From(47, bytes), 47, CMP_EAX_OPCODE, JumpOverCompare, 60, "rate"))
    BY <2>4, <2>5, PieceFacts, OneSite
  <2>7. QED
    BY <2>6 DEF WinGameClient, bytes, cmp, jle
<1>3. ASSUME NEW d \in Distances, NEW l \in LinNetChan(d) PROVE SiteOK(l)
  <2> DEFINE ja == <<JA_8_OPCODE, d>>
             jb == <<JB_8_OPCODE, d>>
  <2>1. ja \in Bytes(2) /\ jb \in Bytes(2)
    BY DistanceAssumption DEF Bytes, Byte, JA_8_OPCODE, JB_8_OPCODE
  <2> HIDE DEF ja, jb
  <2>2. NOP_2[1] # JA_8_OPCODE /\ NOP_2[1] # JB_8_OPCODE
    BY DEF NOP_2, JA_8_OPCODE, JB_8_OPCODE
  <2>3. SiteOK(Site(From(30, ja), 30, JA_8_OPCODE, NOP_2, 32, "rate"))
    BY <2>1, <2>2, PieceFacts, OneSite
  <2>4. SiteOK(Site(From(24, jb), 24, JB_8_OPCODE, NOP_2, 26, "rate"))
    BY <2>1, <2>2, PieceFacts, OneSite
  <2>5. QED
    BY <2>3, <2>4 DEF LinNetChan, ja, jb
<1>4. ASSUME NEW offset \in {77, 64, 56} PROVE SiteOK(LinBoundByMove(offset))
  <2>1. MoveAndNops[1] # MOV_R32_IMM32_OPCODE
    BY MoveAndNopsFacts DEF MOV_R32_RM32_OPCODE, MOV_R32_IMM32_OPCODE
  <2>2. QED
    BY <2>1, MoveAndNopsFacts, BoundByMoveFacts, OneSite DEF LinBoundByMove
<1>5. ASSUME s \in WinSites PROVE SiteOK(s)
  BY <1>1, <1>2, <1>5 DEF WinSites
<1>6. ASSUME s \in LinNetChans PROVE SiteOK(s)
  <2>1. PICK d \in Distances : s \in LinNetChan(d)
    BY Zenon, <1>6 DEF LinNetChans
  <2>2. QED
    BY Zenon, <1>3, <2>1
<1>7. ASSUME s \in LinMoves PROVE SiteOK(s)
  <2>1. PICK offset \in {77, 64, 56} : s = LinBoundByMove(offset)
    BY Zenon, <1>7 DEF LinMoves
  <2>2. QED
    BY Zenon, <1>4, <2>1
<1>8. QED
  BY Zenon, <1>5, <1>6, <1>7 DEF Sites

-----------------------------------------------------------------------------
\* The code is the game's, or the game's under a patch whose object has saved it.
RewriteInv ==
    /\ TypeOK
    /\ patch # "applied" => code = game
    /\ patch = "applied" =>
          code = [n \in DOMAIN game |-> IF n \in Covered THEN site.replacement[n - site.offset + 1]
                                                        ELSE game[n]]
    /\ patch \in {"generated", "applied"} =>
          /\ original = [n \in Covered |-> game[n]]
          /\ game[site.offset] = site.check

\* An initial state satisfies it.
LEMMA RewriteInit == Init => RewriteInv
<1> SUFFICES ASSUME Init PROVE RewriteInv
  OBVIOUS
<1>1. site \in Sites /\ SiteOK(site)
  BY SiteFacts DEF Init
<1>2. code \in [DOMAIN site.bytes -> Byte]
  <2>1. CASE code = site.bytes
    BY <1>1, <2>1 DEF SiteOK
  <2>2. ASSUME NEW b \in Others, code = Foreign(site, b) PROVE code \in [DOMAIN site.bytes -> Byte]
    <3>1. b \in Byte
      BY OthersAssumption
    <3>2. QED
      BY <1>1, <2>2, <3>1 DEF SiteOK, Foreign
  <2>3. QED
    BY <2>1, <2>2 DEF Init
<1>3. found \in BOOLEAN /\ above \in BOOLEAN /\ flag \in BOOLEAN
  BY Zenon DEF Init
<1>4. game = code /\ original \in [Covered -> Byte]
  BY DEF Init, Byte
<1>5. /\ patch \in {"none", "thrown", "generated", "applied", "undone"}
      /\ ip \in Int /\ result \in {"rate", "bound", "other"}
  BY <1>1 DEF Init, SiteOK, Outside
<1>6. TypeOK
  BY <1>1, <1>2, <1>3, <1>4, <1>5 DEF TypeOK
<1>7. QED
  BY <1>6 DEF Init, RewriteInv

\* The forms of the instructions are sequences, those of the jumps of two bytes.
LEMMA FormFacts ==
    ASSUME NEW i \in Instructions
    PROVE  i.form \in Seq(Int) /\ (Jumps(i.does) => Len(i.form) = 2)
<1>1. /\ \A k \in {CMP_EAX_OPCODE, MOV_R32_IMM32_OPCODE} : <<k>> \o Bound \in Seq(Int)
      /\ <<129, 250>> \o Bound \in Seq(Int)
  BY DEF Bound, CMP_EAX_OPCODE, MOV_R32_IMM32_OPCODE
<1>2. /\ LoadRate \in Seq(Int) /\ CompareRates \in Seq(Int)
      /\ NOP_2 \in Seq(Int) /\ NOP_3 \in Seq(Int) /\ NOP_9 \in Seq(Int)
  BY DEF LoadRate, CompareRates, NOP_2, NOP_3, NOP_9
<1>3. /\ \A k \in {JBE_8_OPCODE, JLE_8_OPCODE, JA_8_OPCODE, JB_8_OPCODE, JMP_8_OPCODE} :
            <<k, Any>> \in Seq(Int) /\ Len(<<k, Any>>) = 2
      /\ <<243, 15, 16, 13, Any, Any, Any, Any>> \in Seq(Int)
      /\ <<15, 78, 194>> \in Seq(Int) /\ <<MOV_R32_RM32_OPCODE, 194>> \in Seq(Int)
  BY DEF Any, JBE_8_OPCODE, JLE_8_OPCODE, JA_8_OPCODE, JB_8_OPCODE, JMP_8_OPCODE, MOV_R32_RM32_OPCODE
<1>4. \A f, d : Instruction(f, d).form = f /\ Instruction(f, d).does = d
  BY DEF Instruction
<1>5. ASSUME NEW f \in Seq(Int), NEW d \in {"nothing", "compare", "take rate", "take bound", "take rate if within"},
             i = Instruction(f, d)
      PROVE  i.form \in Seq(Int) /\ ~Jumps(i.does)
  BY <1>4, <1>5 DEF Jumps
<1>6. ASSUME NEW k \in {JBE_8_OPCODE, JLE_8_OPCODE, JA_8_OPCODE, JB_8_OPCODE, JMP_8_OPCODE}, NEW d,
             i = Instruction(<<k, Any>>, d)
      PROVE  i.form \in Seq(Int) /\ Len(i.form) = 2
  <2>1. i.form = <<k, Any>>
    BY Zenon, <1>4, <1>6
  <2>2. <<k, Any>> \in Seq(Int) /\ Len(<<k, Any>>) = 2
    BY Zenon, <1>3
  <2>3. QED
    BY Zenon, <2>1, <2>2
<1>7. QED
  BY Zenon, <1>1, <1>2, <1>3, <1>5, <1>6 DEF Instructions

\* What a step of the processor leaves alone.
Memory == <<site, found, code, game, original, patch>>

\* The processor changes nothing of it.
LEMMA ProcessorInv ==
    ASSUME RewriteInv, Enter \/ (\E i \in Instructions : Execute(i)) \/ Leave
    PROVE  RewriteInv'
<1>1. UNCHANGED Memory
  BY DEF Memory, Enter, Execute, Leave
<1>2. above' \in BOOLEAN /\ flag' \in BOOLEAN
  BY Zenon DEF RewriteInv, TypeOK, Enter, Execute, Leave
<1>3. result' \in {"rate", "bound", "other"}
  <2>1. site.holds \in {"rate", "bound", "other"}
    BY SiteFacts DEF RewriteInv, TypeOK, SiteOK
  <2>2. QED
    BY <2>1 DEF RewriteInv, TypeOK, Enter, Execute, Leave, Takes
<1>4. ip' \in Int
  <2>1. \A n \in DOMAIN code : n \in Nat
    BY SiteFacts DEF RewriteInv, TypeOK, SiteOK
  <2>2. CASE Enter
    BY <2>1, <2>2 DEF Enter
  <2>3. CASE Leave
    BY <2>3 DEF Leave, Outside
  <2>4. ASSUME NEW i \in Instructions, Execute(i) PROVE ip' \in Int
    <3>1. ip \in Nat /\ Len(i.form) \in Nat
      BY <2>1, <2>4, FormFacts DEF Execute
    <3>2. CASE Jumps(i.does)
      <4>1. ip + 1 \in DOMAIN code
        <5>1. Len(i.form) = 2 /\ 2 \in 1..2
          BY <3>2, FormFacts
        <5>2. ip + 2 - 1 \in DOMAIN code
          BY <2>4, <5>1 DEF Execute, IsAt
        <5>3. QED
          BY <3>1, <5>2
      <4>2. code[ip + 1] \in Nat
        BY <4>1 DEF RewriteInv, TypeOK, Byte
      <4>3. QED
        BY <2>4, <3>1, <3>2, <4>2 DEF Execute
    <3>3. CASE ~Jumps(i.does)
      BY <2>4, <3>1, <3>3 DEF Execute
    <3>4. QED
      BY <3>2, <3>3
  <2>5. QED
    BY <2>2, <2>3, <2>4
<1>5. TypeOK'
  BY <1>1, <1>2, <1>3, <1>4 DEF RewriteInv, TypeOK, Memory, Covered
<1>6. QED
  BY <1>1, <1>5 DEF RewriteInv, Memory, Covered

\* Generating saves the game's code, since the checked byte is not the replacement's.
LEMMA GenerateInv ==
    ASSUME RewriteInv, GeneratePatch
    PROVE  RewriteInv'
<1>1. /\ site.offset \in Covered /\ Covered \subseteq DOMAIN code
      /\ site.replacement[1] # site.check
      /\ site.offset \in Nat
  BY SiteFacts DEF RewriteInv, TypeOK, SiteOK, Covered
<1>2. UNCHANGED <<site, found, code, game, ip, above, flag, result>>
  BY DEF GeneratePatch
<1>3. Covered' = Covered
  BY <1>2 DEF Covered
<1>4. CASE Accepted
  <2>1. patch' = "generated" /\ original' = [n \in Covered |-> code[n]]
    BY <1>4 DEF GeneratePatch
  <2>2. code[site.offset] = site.check
    BY <1>4 DEF Accepted
  <2>3. patch # "applied"
    <3>1. ASSUME patch = "applied" PROVE FALSE
      <4>1. code = [n \in DOMAIN game |-> IF n \in Covered THEN site.replacement[n - site.offset + 1]
                                                         ELSE game[n]]
        BY <3>1 DEF RewriteInv
      <4>2. site.offset \in DOMAIN game
        BY <1>1 DEF RewriteInv, TypeOK
      <4>3. code[site.offset] = site.replacement[site.offset - site.offset + 1]
        BY Zenon, <1>1, <4>1, <4>2
      <4>4. site.offset - site.offset + 1 = 1
        BY <1>1
      <4>5. QED
        BY <1>1, <2>2, <4>3, <4>4
    <3>2. QED
      BY <3>1
  <2>4. code = game
    BY <2>3 DEF RewriteInv
  <2>5. TypeOK'
    <3>1. original' \in [Covered -> Byte]
      BY <1>1, <2>1 DEF RewriteInv, TypeOK
    <3>2. QED
      BY <1>2, <1>3, <2>1, <3>1 DEF RewriteInv, TypeOK
  <2>6. QED
    BY <1>2, <1>3, <2>1, <2>2, <2>4, <2>5 DEF RewriteInv
<1>5. CASE ~Accepted
  <2>1. original' = original /\ patch' = (IF patch = "applied" THEN patch ELSE "thrown")
    BY <1>5 DEF GeneratePatch
  <2>2. TypeOK'
    BY <1>2, <1>3, <2>1 DEF RewriteInv, TypeOK
  <2>3. CASE patch = "applied"
    BY <1>2, <1>3, <2>1, <2>2, <2>3 DEF RewriteInv
  <2>4. CASE patch # "applied"
    BY <1>2, <1>3, <2>1, <2>2, <2>4 DEF RewriteInv
  <2>5. QED
    BY <2>3, <2>4
<1>6. QED
  BY <1>4, <1>5

\* Patch writes the replacement over the game's code.
LEMMA PatchInv ==
    ASSUME RewriteInv, PatchCode
    PROVE  RewriteInv'
<1>1. /\ UNCHANGED <<site, found, game, original, ip, above, flag, result>>
      /\ patch = "generated" /\ patch' = "applied"
      /\ code' = [n \in DOMAIN code |-> IF n \in Covered THEN site.replacement[n - site.offset + 1]
                                                       ELSE code[n]]
  BY DEF PatchCode
<1>2. Covered' = Covered
  BY <1>1 DEF Covered
<1>3. code = game
  BY <1>1 DEF RewriteInv
<1>4. \A n \in Covered : site.replacement[n - site.offset + 1] \in Byte
  <2>1. site.offset \in Nat /\ site.replacement \in Seq(Byte)
    BY SiteFacts DEF RewriteInv, TypeOK, SiteOK
  <2>2. ASSUME NEW n \in Covered PROVE site.replacement[n - site.offset + 1] \in Byte
    <3>1. n - site.offset + 1 \in 1..Len(site.replacement)
      BY <2>1 DEF Covered
    <3>2. QED
      BY <2>1, <3>1
  <2>3. QED
    BY <2>2
<1>5. code' \in [DOMAIN site.bytes -> Byte]
  BY <1>1, <1>4 DEF RewriteInv, TypeOK
<1>6. TypeOK'
  BY <1>1, <1>2, <1>5 DEF RewriteInv, TypeOK
<1>7. QED
  BY <1>1, <1>2, <1>3, <1>6 DEF RewriteInv

\* Unpatch brings the game's code back.
LEMMA UnpatchInv ==
    ASSUME RewriteInv, UnpatchCode
    PROVE  RewriteInv'
<1>1. /\ UNCHANGED <<site, found, game, original, ip, above, flag, result>>
      /\ patch = "applied" /\ patch' = "undone"
      /\ code' = [n \in DOMAIN code |-> IF n \in Covered THEN original[n] ELSE code[n]]
  BY DEF UnpatchCode
<1>2. Covered' = Covered
  BY <1>1 DEF Covered
<1>3. /\ code = [n \in DOMAIN game |-> IF n \in Covered THEN site.replacement[n - site.offset + 1]
                                                      ELSE game[n]]
      /\ original = [n \in Covered |-> game[n]]
  BY <1>1 DEF RewriteInv
<1>4. DOMAIN code = DOMAIN game /\ game = [n \in DOMAIN game |-> game[n]]
  BY DEF RewriteInv, TypeOK
<1>5. \A n \in DOMAIN game : (IF n \in Covered THEN original[n] ELSE code[n]) = game[n]
  BY Zenon, <1>3
<1>6. code' = game
  BY Zenon, <1>1, <1>4, <1>5
<1>7. TypeOK'
  BY <1>1, <1>2, <1>6 DEF RewriteInv, TypeOK
<1>8. QED
  BY <1>1, <1>6, <1>7 DEF RewriteInv

-----------------------------------------------------------------------------
\* The invariant of the rate patches.
THEOREM RewriteInvariant == Spec => []RewriteInv
<1>1. Init => RewriteInv
  BY RewriteInit
<1>2. ASSUME RewriteInv, [Next]_vars PROVE RewriteInv'
  <2>1. CASE GeneratePatch
    BY <1>2, <2>1, GenerateInv
  <2>2. CASE PatchCode
    BY <1>2, <2>2, PatchInv
  <2>3. CASE UnpatchCode
    BY <1>2, <2>3, UnpatchInv
  <2>4. CASE Enter \/ (\E i \in Instructions : Execute(i)) \/ Leave
    BY Zenon, <1>2, <2>4, ProcessorInv
  <2>5. CASE UNCHANGED vars
    BY <1>2, <2>5 DEF RewriteInv, TypeOK, Covered, vars
  <2>6. QED
    BY Zenon, <1>2, <2>1, <2>2, <2>3, <2>4, <2>5 DEF Next
<1>3. QED
  BY <1>1, <1>2, PTL DEF Spec

\* Type correctness, for every distance of the jumps and every other game: the
\* object saves exactly what it covers, and the code keeps its length.
THEOREM RateRewriteTypeCorrect == Spec => []TypeOK
<1>1. RewriteInv => TypeOK
  BY DEF RewriteInv
<1>2. QED
  BY <1>1, RewriteInvariant, PTL

\* However often Load comes back, what a patch object has saved is the game's own code.
THEOREM SavedCodeIsTheGames == Spec => []SavesGameCode
<1>1. RewriteInv => SavesGameCode
  BY DEF RewriteInv, SavesGameCode
<1>2. QED
  BY <1>1, RewriteInvariant, PTL

-----------------------------------------------------------------------------
(* How the game goes through the code.                                       *)

\* A stretch of code holds these bytes from a on.
Holds(f, a, bytes) == \A n \in 1..Len(bytes) : a + n - 1 \in DOMAIN f /\ f[a + n - 1] = bytes[n]

\* A sequence put at an address is there.
LEMMA FromHolds ==
    ASSUME NEW a \in Nat, NEW m \in Nat, NEW bytes \in Bytes(m)
    PROVE  Holds(From(a, bytes), a, bytes) /\ DOMAIN From(a, bytes) = a..a + m - 1
<1>1. Len(bytes) = m
  BY DEF Bytes
<1>2. ASSUME NEW n \in 1..m
      PROVE  a + n - 1 \in a..a + m - 1 /\ (a + n - 1) - a + 1 = n
  OBVIOUS
<1>3. From(a, bytes) = [k \in a..a + m - 1 |-> bytes[k - a + 1]]
  BY <1>1 DEF From
<1>4. ASSUME NEW n \in 1..m PROVE From(a, bytes)[a + n - 1] = bytes[n]
  <2>1. From(a, bytes)[a + n - 1] = bytes[(a + n - 1) - a + 1]
    BY Zenon, <1>2, <1>3
  <2>2. QED
    BY <1>2, <2>1
<1>5. QED
  BY <1>1, <1>2, <1>3, <1>4 DEF Holds

\* Two sequences one after the other are both there.
LEMMA ConcatHolds ==
    ASSUME NEW f, NEW a \in Int, NEW m \in Nat, NEW n \in Nat, NEW s \in Bytes(m), NEW t \in Bytes(n),
           Holds(f, a, s \o t)
    PROVE  Holds(f, a, s) /\ Holds(f, a + m, t)
<1>1. s \in Seq(Byte) /\ t \in Seq(Byte) /\ Len(s) = m /\ Len(t) = n
  BY DEF Bytes
<1>2. Len(s \o t) = m + n
  BY <1>1
<1>3. \A k \in 1..m : (s \o t)[k] = s[k]
  BY <1>1
<1>4. \A k \in 1..n : (s \o t)[m + k] = t[k]
  BY <1>1
<1>5. \A k \in 1..m + n : a + k - 1 \in DOMAIN f /\ f[a + k - 1] = (s \o t)[k]
  BY <1>2 DEF Holds
<1>6. ASSUME NEW k \in 1..m PROVE a + k - 1 \in DOMAIN f /\ f[a + k - 1] = s[k]
  <2>1. k \in 1..m + n
    OBVIOUS
  <2>2. QED
    BY <1>3, <1>5, <2>1
<1>7. ASSUME NEW k \in 1..n PROVE (a + m) + k - 1 \in DOMAIN f /\ f[(a + m) + k - 1] = t[k]
  <2>1. m + k \in 1..m + n /\ a + (m + k) - 1 = (a + m) + k - 1
    OBVIOUS
  <2>2. QED
    BY <1>4, <1>5, <2>1
<1>8. QED
  BY <1>1, <1>6, <1>7 DEF Holds

\* The form of a jump.
LEMMA JumpForm ==
    ASSUME NEW f, NEW k, f = <<k, Any>>
    PROVE  f[1] = k /\ Len(f) = 2
OBVIOUS

\* What the forms begin with.
LEMMA FormBytes ==
    /\ Len(LoadRate) = 6 /\ LoadRate[1] = 243 /\ LoadRate[4] = 68
    /\ Len(<<243, 15, 16, 13, Any, Any, Any, Any>>) = 8 /\ <<243, 15, 16, 13, Any, Any, Any, Any>>[1] = 243 /\ <<243, 15, 16, 13, Any, Any, Any, Any>>[4] = 13
    /\ Len(CompareRates) = 3 /\ CompareRates[1] = 15 /\ CompareRates[2] = 47
    /\ Len(<<15, 78, 194>>) = 3 /\ <<15, 78, 194>>[1] = 15 /\ <<15, 78, 194>>[2] = 78
    /\ Len(<<MOV_R32_RM32_OPCODE, 194>>) = 2 /\ <<MOV_R32_RM32_OPCODE, 194>>[1] = MOV_R32_RM32_OPCODE
    /\ Len(NOP_2) = 2 /\ NOP_2[1] = 102 /\ NOP_2[2] = 144
    /\ Len(NOP_3) = 3 /\ NOP_3[1] = 15 /\ NOP_3[2] = 31
    /\ Len(NOP_9) = 9 /\ NOP_9[1] = 102 /\ NOP_9[2] = 15
    /\ \A k \in {CMP_EAX_OPCODE, MOV_R32_IMM32_OPCODE} :
          Len(<<k>> \o Bound) = 5 /\ (<<k>> \o Bound)[1] = k
    /\ Len(<<129, 250>> \o Bound) = 6 /\ (<<129, 250>> \o Bound)[1] = 129
<1>1. Len(LoadRate) = 6 /\ LoadRate[1] = 243 /\ LoadRate[4] = 68
  BY DEF LoadRate
<1>2. Len(<<243, 15, 16, 13, Any, Any, Any, Any>>) = 8 /\ <<243, 15, 16, 13, Any, Any, Any, Any>>[1] = 243 /\ <<243, 15, 16, 13, Any, Any, Any, Any>>[4] = 13
  OBVIOUS
<1>3. Len(CompareRates) = 3 /\ CompareRates[1] = 15 /\ CompareRates[2] = 47
  BY DEF CompareRates
<1>4. Len(<<15, 78, 194>>) = 3 /\ <<15, 78, 194>>[1] = 15 /\ <<15, 78, 194>>[2] = 78
  OBVIOUS
<1>5. Len(<<MOV_R32_RM32_OPCODE, 194>>) = 2 /\ <<MOV_R32_RM32_OPCODE, 194>>[1] = MOV_R32_RM32_OPCODE
  OBVIOUS
<1>6. Len(NOP_2) = 2 /\ NOP_2[1] = 102 /\ NOP_2[2] = 144
  BY DEF NOP_2
<1>7. Len(NOP_3) = 3 /\ NOP_3[1] = 15 /\ NOP_3[2] = 31
  BY DEF NOP_3
<1>8. Len(NOP_9) = 9 /\ NOP_9[1] = 102 /\ NOP_9[2] = 15
  BY DEF NOP_9
<1>10. Bound \in Bytes(4) /\ 1 \in Nat \ {0} /\ 2 \in Nat \ {0} /\ 4 \in Nat
  BY PieceFacts
<1>11. ASSUME NEW k \in {CMP_EAX_OPCODE, MOV_R32_IMM32_OPCODE}
       PROVE  Len(<<k>> \o Bound) = 5 /\ (<<k>> \o Bound)[1] = k
  <2> DEFINE s == <<k>>
  <2>1. s \in Bytes(1) /\ s[1] = k
    BY DEF Bytes, Byte, CMP_EAX_OPCODE, MOV_R32_IMM32_OPCODE
  <2> HIDE DEF s
  <2>2. s \o Bound \in Bytes(1 + 4)
    BY <2>1, PieceFacts, ConcatBytes
  <2>3. (s \o Bound)[1] = s[1]
    <3>1. s \in Seq(Byte) /\ Bound \in Seq(Byte) /\ Len(s) \in Nat \ {0}
      BY <1>10, <2>1 DEF Bytes
    <3>2. QED
      BY <3>1
  <2>4. Len(s \o Bound) = 1 + 4
    BY Zenon, <2>2 DEF Bytes
  <2>5. QED
    BY <2>1, <2>3, <2>4 DEF s
<1>12. Len(<<129, 250>> \o Bound) = 6 /\ (<<129, 250>> \o Bound)[1] = 129
  <2> DEFINE s == <<129, 250>>
  <2>1. s \in Bytes(2) /\ s[1] = 129
    BY DEF Bytes, Byte
  <2> HIDE DEF s
  <2>2. s \o Bound \in Bytes(2 + 4)
    BY <2>1, PieceFacts, ConcatBytes
  <2>3. (s \o Bound)[1] = s[1]
    <3>1. s \in Seq(Byte) /\ Bound \in Seq(Byte) /\ Len(s) \in Nat \ {0}
      BY <1>10, <2>1 DEF Bytes
    <3>2. QED
      BY <3>1
  <2>4. Len(s \o Bound) = 2 + 4
    BY Zenon, <2>2 DEF Bytes
  <2>5. QED
    BY <2>1, <2>3, <2>4 DEF s
<1>13. QED
  BY Zenon, <1>1, <1>2, <1>3, <1>4, <1>5, <1>6, <1>7, <1>8, <1>11, <1>12

\* What the instructions do, as values of which the arithmetic need know nothing.
TakeRateIfWithin == "take rate if within"
TakeRate == "take rate"
TakeBound == "take bound"
JumpIfWithin == "jump if within"
JumpIfAbove == "jump if above"
Jump == "jump"
Compare == "compare"
Nothing == "nothing"

\* The instructions are told apart by their first, second and fourth byte: one that
\* does this has n bytes and begins so.
Row(does, n, b1, b2, b4) ==
    \/ does = TakeRate /\ n = 6 /\ b1 = 243 /\ b4 = 68
    \/ does = Nothing /\ n = 8 /\ b1 = 243 /\ b4 = 13
    \/ does = Compare /\ n = 3 /\ b1 = 15 /\ b2 = 47
    \/ does = Compare /\ n = 5 /\ b1 = CMP_EAX_OPCODE
    \/ does = Compare /\ n = 6 /\ b1 = 129
    \/ does = JumpIfWithin /\ n = 2 /\ b1 \in {JBE_8_OPCODE, JLE_8_OPCODE}
    \/ does = JumpIfAbove /\ n = 2 /\ b1 \in {JA_8_OPCODE, JB_8_OPCODE}
    \/ does = Jump /\ n = 2 /\ b1 = JMP_8_OPCODE
    \/ does = TakeBound /\ n = 5 /\ b1 = MOV_R32_IMM32_OPCODE
    \/ does = TakeRateIfWithin /\ n = 3 /\ b1 = 15 /\ b2 = 78
    \/ does = TakeRate /\ n = 2 /\ b1 = MOV_R32_RM32_OPCODE
    \/ does = Nothing /\ n = 2 /\ b1 = 102 /\ b2 = 144
    \/ does = Nothing /\ n = 3 /\ b1 = 15 /\ b2 = 31
    \/ does = Nothing /\ n = 9 /\ b1 = 102 /\ b2 = 15

\* The same with other bytes, where they are the instruction's.
LEMMA SameRow ==
    ASSUME NEW does, NEW n \in Nat, NEW b1, NEW b2, NEW b4, NEW c1, NEW c2, NEW c4,
           Row(does, n, b1, b2, b4),
           b1 # Any => c1 = b1, b2 # Any => c2 = b2, 4 <= n /\ b4 # Any => c4 = b4
    PROVE  Row(does, n, c1, c2, c4)
BY DEF Row, Any, CMP_EAX_OPCODE, JBE_8_OPCODE, JLE_8_OPCODE, JA_8_OPCODE, JB_8_OPCODE, JMP_8_OPCODE,
       MOV_R32_IMM32_OPCODE, MOV_R32_RM32_OPCODE

\* Bytes are in one row only.
LEMMA RowIsOne ==
    ASSUME NEW d, NEW e, NEW m, NEW n, NEW b1, NEW b2, NEW b4, Row(d, m, b1, b2, b4), Row(e, n, b1, b2, b4)
    PROVE  d = e /\ m = n
BY DEF Row, CMP_EAX_OPCODE, JBE_8_OPCODE, JLE_8_OPCODE, JA_8_OPCODE, JB_8_OPCODE, JMP_8_OPCODE,
       MOV_R32_IMM32_OPCODE, MOV_R32_RM32_OPCODE

\* Every instruction has its row.
LEMMA InstructionTable ==
    ASSUME NEW i \in Instructions
    PROVE  /\ Row(i.does, Len(i.form), i.form[1], i.form[2], i.form[4])
           /\ Len(i.form) \in Nat /\ 2 <= Len(i.form)
<1>1. \A f, d : Instruction(f, d).form = f /\ Instruction(f, d).does = d
  BY DEF Instruction
<1>2. CASE i = Instruction(LoadRate, "take rate")
  <2>1. i.form = LoadRate /\ i.does = TakeRate
    BY Zenon, <1>1, <1>2 DEF TakeRate
  <2>2. QED
    BY <2>1, FormBytes DEF Row
<1>3. CASE i = Instruction(<<243, 15, 16, 13, Any, Any, Any, Any>>, "nothing")
  <2>1. i.form = <<243, 15, 16, 13, Any, Any, Any, Any>> /\ i.does = Nothing
    BY Zenon, <1>1, <1>3 DEF Nothing
  <2>2. QED
    BY <2>1, FormBytes DEF Row
<1>4. CASE i = Instruction(CompareRates, "compare")
  <2>1. i.form = CompareRates /\ i.does = Compare
    BY Zenon, <1>1, <1>4 DEF Compare
  <2>2. QED
    BY <2>1, FormBytes DEF Row
<1>5. CASE i = Instruction(<<CMP_EAX_OPCODE>> \o Bound, "compare")
  <2>1. i.form = <<CMP_EAX_OPCODE>> \o Bound /\ i.does = Compare
    BY Zenon, <1>1, <1>5 DEF Compare
  <2>2. QED
    BY <2>1, FormBytes DEF Row
<1>6. CASE i = Instruction(<<129, 250>> \o Bound, "compare")
  <2>1. i.form = <<129, 250>> \o Bound /\ i.does = Compare
    BY Zenon, <1>1, <1>6 DEF Compare
  <2>2. QED
    BY <2>1, FormBytes DEF Row
<1>7. CASE i = Instruction(<<JBE_8_OPCODE, Any>>, "jump if within")
  <2>1. i.form = <<JBE_8_OPCODE, Any>> /\ i.does = JumpIfWithin
    BY Zenon, <1>1, <1>7 DEF JumpIfWithin
  <2>2. QED
    BY <2>1, JumpForm DEF Row
<1>8. CASE i = Instruction(<<JLE_8_OPCODE, Any>>, "jump if within")
  <2>1. i.form = <<JLE_8_OPCODE, Any>> /\ i.does = JumpIfWithin
    BY Zenon, <1>1, <1>8 DEF JumpIfWithin
  <2>2. QED
    BY <2>1, JumpForm DEF Row
<1>9. CASE i = Instruction(<<JA_8_OPCODE, Any>>, "jump if above")
  <2>1. i.form = <<JA_8_OPCODE, Any>> /\ i.does = JumpIfAbove
    BY Zenon, <1>1, <1>9 DEF JumpIfAbove
  <2>2. QED
    BY <2>1, JumpForm DEF Row
<1>10. CASE i = Instruction(<<JB_8_OPCODE, Any>>, "jump if above")
  <2>1. i.form = <<JB_8_OPCODE, Any>> /\ i.does = JumpIfAbove
    BY Zenon, <1>1, <1>10 DEF JumpIfAbove
  <2>2. QED
    BY <2>1, JumpForm DEF Row
<1>11. CASE i = Instruction(<<JMP_8_OPCODE, Any>>, "jump")
  <2>1. i.form = <<JMP_8_OPCODE, Any>> /\ i.does = Jump
    BY Zenon, <1>1, <1>11 DEF Jump
  <2>2. QED
    BY <2>1, JumpForm DEF Row
<1>12. CASE i = Instruction(<<MOV_R32_IMM32_OPCODE>> \o Bound, "take bound")
  <2>1. i.form = <<MOV_R32_IMM32_OPCODE>> \o Bound /\ i.does = TakeBound
    BY Zenon, <1>1, <1>12 DEF TakeBound
  <2>2. QED
    BY <2>1, FormBytes DEF Row
<1>13. CASE i = Instruction(<<15, 78, 194>>, "take rate if within")
  <2>1. i.form = <<15, 78, 194>> /\ i.does = TakeRateIfWithin
    BY Zenon, <1>1, <1>13 DEF TakeRateIfWithin
  <2>2. QED
    BY <2>1, FormBytes DEF Row
<1>14. CASE i = Instruction(<<MOV_R32_RM32_OPCODE, 194>>, "take rate")
  <2>1. i.form = <<MOV_R32_RM32_OPCODE, 194>> /\ i.does = TakeRate
    BY Zenon, <1>1, <1>14 DEF TakeRate
  <2>2. QED
    BY <2>1, FormBytes DEF Row
<1>15. CASE i = Instruction(NOP_2, "nothing")
  <2>1. i.form = NOP_2 /\ i.does = Nothing
    BY Zenon, <1>1, <1>15 DEF Nothing
  <2>2. QED
    BY <2>1, FormBytes DEF Row
<1>16. CASE i = Instruction(NOP_3, "nothing")
  <2>1. i.form = NOP_3 /\ i.does = Nothing
    BY Zenon, <1>1, <1>16 DEF Nothing
  <2>2. QED
    BY <2>1, FormBytes DEF Row
<1>17. CASE i = Instruction(NOP_9, "nothing")
  <2>1. i.form = NOP_9 /\ i.does = Nothing
    BY Zenon, <1>1, <1>17 DEF Nothing
  <2>2. QED
    BY <2>1, FormBytes DEF Row
<1>18. QED
  BY Zenon, <1>2, <1>3, <1>4, <1>5, <1>6, <1>7, <1>8, <1>9, <1>10, <1>11, <1>12, <1>13, <1>14, <1>15, <1>16, <1>17 DEF Instructions

\* What the processor makes of the bytes at a.
LEMMA Decode ==
    ASSUME NEW i \in Instructions, NEW a \in Int, IsAt(i, a)
    PROVE  Row(i.does, Len(i.form), code[a], code[a + 1], code[a + 3])
<1> DEFINE n == Len(i.form)
           f == i.form
<1>1. n \in Nat /\ 2 <= n /\ Row(i.does, n, f[1], f[2], f[4])
  BY InstructionTable
<1>2. \A k \in 1..n : f[k] # Any => code[a + k - 1] = f[k]
  BY Zenon DEF IsAt
<1>3. /\ 1 \in 1..n /\ 2 \in 1..n /\ (4 <= n => 4 \in 1..n)
      /\ a + 1 - 1 = a /\ a + 2 - 1 = a + 1 /\ a + 4 - 1 = a + 3
  BY <1>1
<1> HIDE DEF n, f
<1>4. /\ f[1] # Any => code[a] = f[1]
      /\ f[2] # Any => code[a + 1] = f[2]
      /\ 4 <= n /\ f[4] # Any => code[a + 3] = f[4]
  BY <1>2, <1>3
<1>5. Row(i.does, n, code[a], code[a + 1], code[a + 3])
  BY <1>1, <1>4, SameRow
<1>6. QED
  BY Zenon, <1>5 DEF n

\* The processor reads one instruction at a, which does this and has n bytes.
Means(a, does, n) ==
    /\ \E i \in Instructions : IsAt(i, a)
    /\ \A i \in Instructions : IsAt(i, a) => i.does = does /\ Len(i.form) = n

\* No two instructions are at one place.
LEMMA MeansOne ==
    ASSUME NEW a \in Int, NEW f, NEW d, Instruction(f, d) \in Instructions, IsAt(Instruction(f, d), a)
    PROVE  Means(a, d, Len(f))
<1>1. Instruction(f, d).form = f /\ Instruction(f, d).does = d
  BY DEF Instruction
<1>2. Row(d, Len(f), code[a], code[a + 1], code[a + 3])
  BY Zenon, <1>1, Decode
<1>3. ASSUME NEW i \in Instructions, IsAt(i, a) PROVE i.does = d /\ Len(i.form) = Len(f)
  <2>1. Row(i.does, Len(i.form), code[a], code[a + 1], code[a + 3])
    BY Zenon, <1>3, Decode
  <2>2. QED
    BY <1>2, <2>1, RowIsOne
<1>4. QED
  BY Zenon, <1>3 DEF Means

\* An instruction is there if its form is.
LEMMA FormIsAt ==
    ASSUME NEW f, NEW does, NEW a \in Int, Holds(code, a, f)
    PROVE  IsAt(Instruction(f, does), a)
BY Zenon DEF Holds, IsAt, Instruction

\* What each piece of the sites and of their replacements means.
LEMMA Meanings ==
    ASSUME NEW a \in Int
    PROVE  /\ Holds(code, a, LoadRate) => Means(a, "take rate", 6)
           /\ Holds(code, a, CompareRates) => Means(a, "compare", 3)
           /\ Holds(code, a, <<CMP_EAX_OPCODE>> \o Bound) => Means(a, "compare", 5)
           /\ Holds(code, a, <<129, 250>> \o Bound) => Means(a, "compare", 6)
           /\ Holds(code, a, <<MOV_R32_IMM32_OPCODE>> \o Bound) => Means(a, "take bound", 5)
           /\ Holds(code, a, <<15, 78, 194>>) => Means(a, "take rate if within", 3)
           /\ Holds(code, a, <<MOV_R32_RM32_OPCODE, 194>>) => Means(a, "take rate", 2)
           /\ Holds(code, a, NOP_2) => Means(a, "nothing", 2)
           /\ Holds(code, a, NOP_3) => Means(a, "nothing", 3)
           /\ Holds(code, a, NOP_9) => Means(a, "nothing", 9)
<1>1. Holds(code, a, LoadRate) => Means(a, "take rate", 6)
  <2>1. Instruction(LoadRate, "take rate") \in Instructions
    BY Zenon DEF Instructions
  <2>2. Len(LoadRate) = 6
    BY Zenon, FormBytes
  <2>3. QED
    BY Zenon, <2>1, <2>2, FormIsAt, MeansOne
<1>2. Holds(code, a, CompareRates) => Means(a, "compare", 3)
  <2>1. Instruction(CompareRates, "compare") \in Instructions
    BY Zenon DEF Instructions
  <2>2. Len(CompareRates) = 3
    BY Zenon, FormBytes
  <2>3. QED
    BY Zenon, <2>1, <2>2, FormIsAt, MeansOne
<1>3. Holds(code, a, <<CMP_EAX_OPCODE>> \o Bound) => Means(a, "compare", 5)
  <2>1. Instruction(<<CMP_EAX_OPCODE>> \o Bound, "compare") \in Instructions
    BY Zenon DEF Instructions
  <2>2. Len(<<CMP_EAX_OPCODE>> \o Bound) = 5
    BY Zenon, FormBytes
  <2>3. QED
    BY Zenon, <2>1, <2>2, FormIsAt, MeansOne
<1>4. Holds(code, a, <<129, 250>> \o Bound) => Means(a, "compare", 6)
  <2>1. Instruction(<<129, 250>> \o Bound, "compare") \in Instructions
    BY Zenon DEF Instructions
  <2>2. Len(<<129, 250>> \o Bound) = 6
    BY Zenon, FormBytes
  <2>3. QED
    BY Zenon, <2>1, <2>2, FormIsAt, MeansOne
<1>5. Holds(code, a, <<MOV_R32_IMM32_OPCODE>> \o Bound) => Means(a, "take bound", 5)
  <2>1. Instruction(<<MOV_R32_IMM32_OPCODE>> \o Bound, "take bound") \in Instructions
    BY Zenon DEF Instructions
  <2>2. Len(<<MOV_R32_IMM32_OPCODE>> \o Bound) = 5
    BY Zenon, FormBytes
  <2>3. QED
    BY Zenon, <2>1, <2>2, FormIsAt, MeansOne
<1>6. Holds(code, a, <<15, 78, 194>>) => Means(a, "take rate if within", 3)
  <2>1. Instruction(<<15, 78, 194>>, "take rate if within") \in Instructions
    BY Zenon DEF Instructions
  <2>2. Len(<<15, 78, 194>>) = 3
    BY Zenon, FormBytes
  <2>3. QED
    BY Zenon, <2>1, <2>2, FormIsAt, MeansOne
<1>7. Holds(code, a, <<MOV_R32_RM32_OPCODE, 194>>) => Means(a, "take rate", 2)
  <2>1. Instruction(<<MOV_R32_RM32_OPCODE, 194>>, "take rate") \in Instructions
    BY Zenon DEF Instructions
  <2>2. Len(<<MOV_R32_RM32_OPCODE, 194>>) = 2
    BY Zenon, FormBytes
  <2>3. QED
    BY Zenon, <2>1, <2>2, FormIsAt, MeansOne
<1>8. Holds(code, a, NOP_2) => Means(a, "nothing", 2)
  <2>1. Instruction(NOP_2, "nothing") \in Instructions
    BY Zenon DEF Instructions
  <2>2. Len(NOP_2) = 2
    BY Zenon, FormBytes
  <2>3. QED
    BY Zenon, <2>1, <2>2, FormIsAt, MeansOne
<1>9. Holds(code, a, NOP_3) => Means(a, "nothing", 3)
  <2>1. Instruction(NOP_3, "nothing") \in Instructions
    BY Zenon DEF Instructions
  <2>2. Len(NOP_3) = 3
    BY Zenon, FormBytes
  <2>3. QED
    BY Zenon, <2>1, <2>2, FormIsAt, MeansOne
<1>10. Holds(code, a, NOP_9) => Means(a, "nothing", 9)
  <2>1. Instruction(NOP_9, "nothing") \in Instructions
    BY Zenon DEF Instructions
  <2>2. Len(NOP_9) = 9
    BY Zenon, FormBytes
  <2>3. QED
    BY Zenon, <2>1, <2>2, FormIsAt, MeansOne
<1>11. QED
  BY Zenon, <1>1, <1>2, <1>3, <1>4, <1>5, <1>6, <1>7, <1>8, <1>9, <1>10

\* The bytes of a jump.
JumpBytes(k, x) == <<k, x>>

\* It is read as that jump, whatever its distance.
LEMMA JumpMeans ==
    ASSUME NEW a \in Int, NEW k, NEW x, NEW does, Holds(code, a, JumpBytes(k, x)),
           Instruction(JumpBytes(k, Any), does) \in Instructions
    PROVE  Means(a, does, 2) /\ code[a + 1] = x /\ a + 1 \in DOMAIN code
<1>1. /\ a + 1 - 1 \in DOMAIN code /\ code[a + 1 - 1] = k
      /\ a + 2 - 1 \in DOMAIN code /\ code[a + 2 - 1] = x
  <2>1. Len(<<k, x>>) = 2 /\ <<k, x>>[1] = k /\ <<k, x>>[2] = x /\ 1 \in 1..2 /\ 2 \in 1..2
    OBVIOUS
  <2>2. QED
    BY Zenon, <2>1 DEF Holds, JumpBytes
<1>2. Len(<<k, Any>>) = 2 /\ <<k, Any>>[1] = k /\ <<k, Any>>[2] = Any /\ \A n \in 1..2 : n = 1 \/ n = 2
  OBVIOUS
<1>3. Instruction(JumpBytes(k, Any), does).form = <<k, Any>>
  BY DEF Instruction, JumpBytes
<1>4. IsAt(Instruction(JumpBytes(k, Any), does), a)
  BY Zenon, <1>1, <1>2, <1>3 DEF IsAt
<1>5. Means(a, does, 2)
  BY Zenon, <1>2, <1>4, MeansOne DEF JumpBytes
<1>6. a + 2 - 1 = a + 1
  OBVIOUS
<1>7. QED
  BY Zenon, <1>1, <1>5, <1>6

\* The jumps of the sites and of their replacements.
LEMMA JumpMeanings ==
    ASSUME NEW a \in Int, NEW x
    PROVE  /\ Holds(code, a, JumpBytes(JBE_8_OPCODE, x)) =>
                 Means(a, "jump if within", 2) /\ code[a + 1] = x
           /\ Holds(code, a, JumpBytes(JLE_8_OPCODE, x)) =>
                 Means(a, "jump if within", 2) /\ code[a + 1] = x
           /\ Holds(code, a, JumpBytes(JA_8_OPCODE, x)) =>
                 Means(a, "jump if above", 2) /\ code[a + 1] = x
           /\ Holds(code, a, JumpBytes(JB_8_OPCODE, x)) =>
                 Means(a, "jump if above", 2) /\ code[a + 1] = x
           /\ Holds(code, a, JumpBytes(JMP_8_OPCODE, x)) =>
                 Means(a, "jump", 2) /\ code[a + 1] = x
<1>1. Holds(code, a, JumpBytes(JBE_8_OPCODE, x)) => Means(a, "jump if within", 2) /\ code[a + 1] = x
  <2>1. Instruction(JumpBytes(JBE_8_OPCODE, Any), "jump if within") \in Instructions
    BY Zenon DEF Instructions, JumpBytes
  <2>2. QED
    BY Zenon, <2>1, JumpMeans
<1>2. Holds(code, a, JumpBytes(JLE_8_OPCODE, x)) => Means(a, "jump if within", 2) /\ code[a + 1] = x
  <2>1. Instruction(JumpBytes(JLE_8_OPCODE, Any), "jump if within") \in Instructions
    BY Zenon DEF Instructions, JumpBytes
  <2>2. QED
    BY Zenon, <2>1, JumpMeans
<1>3. Holds(code, a, JumpBytes(JA_8_OPCODE, x)) => Means(a, "jump if above", 2) /\ code[a + 1] = x
  <2>1. Instruction(JumpBytes(JA_8_OPCODE, Any), "jump if above") \in Instructions
    BY Zenon DEF Instructions, JumpBytes
  <2>2. QED
    BY Zenon, <2>1, JumpMeans
<1>4. Holds(code, a, JumpBytes(JB_8_OPCODE, x)) => Means(a, "jump if above", 2) /\ code[a + 1] = x
  <2>1. Instruction(JumpBytes(JB_8_OPCODE, Any), "jump if above") \in Instructions
    BY Zenon DEF Instructions, JumpBytes
  <2>2. QED
    BY Zenon, <2>1, JumpMeans
<1>5. Holds(code, a, JumpBytes(JMP_8_OPCODE, x)) => Means(a, "jump", 2) /\ code[a + 1] = x
  <2>1. Instruction(JumpBytes(JMP_8_OPCODE, Any), "jump") \in Instructions
    BY Zenon DEF Instructions, JumpBytes
  <2>2. QED
    BY Zenon, <2>1, JumpMeans
<1>6. QED
  BY Zenon, <1>1, <1>2, <1>3, <1>4, <1>5

\* Loading the bound.
LEMMA LoadMaxMeans ==
    ASSUME NEW a \in Int, Holds(code, a, LoadMax)
    PROVE  Means(a, "nothing", 8)
<1> DEFINE f == <<243, 15, 16, 13, Any, Any, Any, Any>>
           i == Instruction(f, "nothing")
<1>1. /\ Len(f) = 8 /\ Len(LoadMax) = 8
      /\ \A n \in 1..8 : f[n] = Any \/ f[n] = LoadMax[n]
  BY DEF LoadMax
<1>2. i.form = f
  BY DEF Instruction
<1>3. i \in Instructions
  BY Zenon DEF Instructions
<1> HIDE DEF f
<1>4. IsAt(i, a)
  BY Zenon, <1>1, <1>2 DEF IsAt, Holds
<1>5. QED
  BY Zenon, <1>1, <1>3, <1>4, MeansOne

-----------------------------------------------------------------------------
\* The code of a site that nothing was applied to, and one whose patch is applied.
LEMMA CleanLayout ==
    ASSUME RewriteInv, game = site.bytes, patch # "applied"
    PROVE  code = site.bytes
BY Zenon DEF RewriteInv

\* Under a patch the replacement is at the offset, and what lies before it is the game's.
LEMMA PatchedLayout ==
    ASSUME RewriteInv, patch = "applied"
    PROVE  /\ Holds(code, site.offset, site.replacement)
           /\ DOMAIN code = DOMAIN game
           /\ \A n \in DOMAIN game : n < site.offset => code[n] = game[n]
<1>1. code = [n \in DOMAIN game |-> IF n \in Covered THEN site.replacement[n - site.offset + 1]
                                                    ELSE game[n]]
  BY Zenon DEF RewriteInv
<1>2. SiteOK(site)
  BY SiteFacts DEF RewriteInv, TypeOK
<1>3. DOMAIN game = DOMAIN site.bytes /\ DOMAIN site.bytes \subseteq Nat
  BY <1>2 DEF RewriteInv, TypeOK, SiteOK
<1>4. site.offset \in Nat /\ Covered \subseteq DOMAIN game
  BY <1>2, <1>3 DEF SiteOK, Covered
<1>5. ASSUME NEW n \in 1..Len(site.replacement)
      PROVE  site.offset + n - 1 \in DOMAIN code /\ code[site.offset + n - 1] = site.replacement[n]
  <2>1. site.offset + n - 1 \in Covered /\ site.offset + n - 1 - site.offset + 1 = n
    BY <1>2, <1>4 DEF SiteOK, Covered
  <2>2. QED
    BY <1>1, <1>4, <2>1
<1>6. ASSUME NEW n \in DOMAIN game, n < site.offset PROVE code[n] = game[n]
  <2>1. n \notin Covered
    BY <1>2, <1>3, <1>4, <1>6 DEF SiteOK, Covered
  <2>2. QED
    BY <1>1, <2>1
<1>7. QED
  BY <1>1, <1>5, <1>6 DEF Holds

\* And two that are there one after the other are there as one.
LEMMA HoldsConcat ==
    ASSUME NEW f, NEW a \in Int, NEW m \in Nat, NEW n \in Nat, NEW s \in Bytes(m), NEW t \in Bytes(n),
           Holds(f, a, s), Holds(f, a + m, t)
    PROVE  Holds(f, a, s \o t)
<1>1. s \in Seq(Byte) /\ t \in Seq(Byte) /\ Len(s) = m /\ Len(t) = n
  BY DEF Bytes
<1>2. Len(s \o t) = m + n
  BY <1>1
<1>3. ASSUME NEW k \in 1..m + n
      PROVE  a + k - 1 \in DOMAIN f /\ f[a + k - 1] = (s \o t)[k]
  <2>1. CASE k <= m
    <3>1. k \in 1..m /\ (s \o t)[k] = s[k]
      BY <1>1, <2>1
    <3>2. QED
      BY <1>1, <3>1 DEF Holds
  <2>2. CASE k > m
    <3>1. k - m \in 1..n /\ (a + m) + (k - m) - 1 = a + k - 1
      BY <2>2
    <3>4. (s \o t)[k] = t[k - m]
      BY <1>1, <2>2
    <3>2. (a + m) + (k - m) - 1 \in DOMAIN f /\ f[(a + m) + (k - m) - 1] = t[k - m]
      BY Zenon, <1>1, <3>1 DEF Holds
    <3>3. QED
      BY Zenon, <3>1, <3>2, <3>4
  <2>3. k <= m \/ k > m
    OBVIOUS
  <2>4. QED
    BY Zenon, <2>1, <2>2, <2>3
<1>4. QED
  BY <1>2, <1>3 DEF Holds

\* CNetChan::SetDataRate on Windows, its instructions before the patch and under it.
LEMMA NetChanLayout ==
    ASSUME RewriteInv, game = site.bytes, site = WinNetChan
    PROVE  /\ DOMAIN code = 0..18
           /\ Means(0, "take rate", 6)
           /\ patch = "applied" => Means(6, "jump", 2) /\ code[7] = 27
           /\ patch # "applied" => /\ Means(6, "nothing", 8) /\ Means(14, "compare", 3)
                                   /\ Means(17, "jump if within", 2) /\ code[18] = 16
<1> DEFINE jbe == <<JBE_8_OPCODE, 16>>
           bytes == LoadRate \o LoadMax \o CompareRates \o jbe
<1>1. jbe \in Bytes(2)
  BY DEF Bytes, Byte, JBE_8_OPCODE
<1>2. /\ site.bytes = From(0, bytes) /\ site.offset = 6 /\ site.replacement = JumpToLowerBound
  BY DEF WinNetChan, Site
<1> HIDE DEF jbe
<1>3. LoadRate \o LoadMax \in Bytes(6 + 8)
  BY PieceFacts, ConcatBytes
<1>4. LoadRate \o LoadMax \o CompareRates \in Bytes(14 + 3)
  BY <1>3, PieceFacts, ConcatBytes
<1>5. bytes \in Bytes(17 + 2)
  BY <1>1, <1>4, ConcatBytes
<1> HIDE DEF bytes
<1>6. Holds(game, 0, bytes) /\ DOMAIN game = 0..18
  <2>1. bytes \in Bytes(19) /\ 19 \in Nat /\ 0 \in Nat /\ 0 + 19 - 1 = 18
    BY <1>5
  <2>2. Holds(From(0, bytes), 0, bytes) /\ DOMAIN From(0, bytes) = 0..0 + 19 - 1
    BY Zenon, <2>1, FromHolds
  <2>3. QED
    BY Zenon, <1>2, <2>1, <2>2
<1>7. Holds(game, 0, LoadRate \o LoadMax \o CompareRates) /\ Holds(game, 0 + 17, jbe)
  BY <1>1, <1>4, <1>6, ConcatHolds DEF bytes
<1>8. Holds(game, 0, LoadRate \o LoadMax) /\ Holds(game, 0 + 14, CompareRates)
  BY <1>3, <1>7, PieceFacts, ConcatHolds
<1>9. Holds(game, 0, LoadRate) /\ Holds(game, 0 + 6, LoadMax)
  <2>1. LoadRate \in Bytes(6) /\ LoadMax \in Bytes(8) /\ 6 \in Nat /\ 8 \in Nat /\ 0 \in Int
    BY PieceFacts
  <2>2. QED
    BY Zenon, <1>8, <2>1, ConcatHolds
<1>10. CASE patch # "applied"
  <2>1. code = game
    BY <1>10, CleanLayout
  <2>2. 0 + 6 = 6 /\ 0 + 14 = 14 /\ 0 + 17 = 17 /\ 17 + 1 = 18 /\ 0 \in Int /\ 6 \in Int /\ 14 \in Int /\ 17 \in Int
    OBVIOUS
  <2>4. Means(17, "jump if within", 2) /\ code[17 + 1] = 16
    <3>1. Holds(code, 17, JumpBytes(JBE_8_OPCODE, 16))
      BY Zenon, <1>7, <2>1, <2>2 DEF jbe, JumpBytes
    <3>2. QED
      BY Zenon, <2>2, <3>1, JumpMeanings
  <2>5. Means(0, "take rate", 6) /\ Means(6, "nothing", 8) /\ Means(14, "compare", 3)
    BY Zenon, <1>8, <1>9, <2>1, <2>2, LoadMaxMeans, Meanings
  <2>6. QED
    BY Zenon, <1>6, <1>10, <2>1, <2>2, <2>4, <2>5
<1>11. CASE patch = "applied"
  <2>1. /\ Holds(code, 6, JumpToLowerBound) /\ DOMAIN code = 0..18
        /\ \A n \in 0..18 : n < 6 => code[n] = game[n]
    BY Zenon, <1>2, <1>6, <1>11, PatchedLayout
  <2>2. Len(LoadRate) = 6 /\ \A n \in 1..6 : 0 + n - 1 \in 0..18 /\ 0 + n - 1 < 6
    BY DEF LoadRate
  <2>3. Holds(code, 0, LoadRate)
    BY Zenon, <1>6, <1>9, <2>1, <2>2 DEF Holds
  <2>4. 0 \in Int /\ 6 \in Int /\ 6 + 1 = 7
    OBVIOUS
  <2>5. Holds(code, 6, JumpBytes(JMP_8_OPCODE, 27))
    BY Zenon, <2>1 DEF JumpToLowerBound, JumpBytes
  <2>6. Means(6, "jump", 2) /\ code[6 + 1] = 27
    BY Zenon, <2>4, <2>5, JumpMeanings
  <2>7. Means(0, "take rate", 6)
    BY Zenon, <2>3, <2>4, Meanings
  <2>8. QED
    BY Zenon, <1>11, <2>1, <2>4, <2>6, <2>7
<1>12. QED
  BY Zenon, <1>10, <1>11

\* CGameClient::SetRate on Windows.
LEMMA GameClientLayout ==
    ASSUME RewriteInv, game = site.bytes, site = WinGameClient
    PROVE  /\ DOMAIN code = 47..53
           /\ patch = "applied" => Means(47, "jump", 2) /\ code[48] = 11
           /\ patch # "applied" => /\ Means(47, "compare", 5)
                                   /\ Means(52, "jump if within", 2) /\ code[53] = 6
<1> DEFINE cmp == <<CMP_EAX_OPCODE>>
           jle == <<JLE_8_OPCODE, 6>>
           bytes == cmp \o Bound \o jle
<1>1. cmp \in Bytes(1) /\ jle \in Bytes(2)
  BY DEF Bytes, Byte, JLE_8_OPCODE, CMP_EAX_OPCODE
<1>2. /\ site.bytes = From(47, bytes) /\ site.offset = 47 /\ site.replacement = JumpOverCompare
  BY DEF WinGameClient, Site
<1> HIDE DEF cmp, jle
<1>3. Bound \in Bytes(4) /\ 1 \in Nat \ {0} /\ 4 \in Nat
  BY PieceFacts
<1>4. cmp \o Bound \in Bytes(1 + 4)
  BY Zenon, <1>1, <1>3, ConcatBytes
<1>5. bytes \in Bytes(5 + 2)
  BY <1>1, <1>4, ConcatBytes
<1> HIDE DEF bytes
<1>6. Holds(game, 47, bytes) /\ DOMAIN game = 47..53
  <2>1. bytes \in Bytes(7) /\ 7 \in Nat /\ 47 \in Nat /\ 47 + 7 - 1 = 53
    BY <1>5
  <2>2. Holds(From(47, bytes), 47, bytes) /\ DOMAIN From(47, bytes) = 47..47 + 7 - 1
    BY Zenon, <2>1, FromHolds
  <2>3. QED
    BY Zenon, <1>2, <2>1, <2>2
<1>7. Holds(game, 47, cmp \o Bound) /\ Holds(game, 47 + 5, jle)
  BY <1>1, <1>4, <1>6, ConcatHolds DEF bytes
<1>8. 47 + 5 = 52 /\ 52 + 1 = 53 /\ 47 + 1 = 48 /\ 47 \in Int /\ 52 \in Int
  OBVIOUS
<1>9. CASE patch # "applied"
  <2>1. code = game
    BY <1>9, CleanLayout
  <2>3. Means(52, "jump if within", 2) /\ code[52 + 1] = 6
    <3>1. Holds(code, 52, JumpBytes(JLE_8_OPCODE, 6))
      BY Zenon, <1>7, <1>8, <2>1 DEF jle, JumpBytes
    <3>2. QED
      BY Zenon, <1>8, <3>1, JumpMeanings
  <2>4. Means(47, "compare", 5)
    BY Zenon, <1>7, <1>8, <2>1, Meanings DEF cmp
  <2>5. QED
    BY Zenon, <1>6, <1>8, <1>9, <2>1, <2>3, <2>4
<1>10. CASE patch = "applied"
  <2>1. Holds(code, 47, JumpOverCompare) /\ DOMAIN code = 47..53
    BY Zenon, <1>2, <1>6, <1>10, PatchedLayout
  <2>2. Holds(code, 47, JumpBytes(JMP_8_OPCODE, 11))
    BY Zenon, <2>1 DEF JumpOverCompare, JumpBytes
  <2>3. Means(47, "jump", 2) /\ code[47 + 1] = 11
    <3>1. 47 \in Int
      OBVIOUS
    <3>2. \A x : Holds(code, 47, JumpBytes(JMP_8_OPCODE, x)) => Means(47, "jump", 2) /\ code[47 + 1] = x
      BY Zenon, <3>1, JumpMeanings
    <3>3. QED
      BY Zenon, <2>2, <3>2
  <2>4. QED
    BY Zenon, <1>8, <1>10, <2>1, <2>3
<1>11. QED
  BY Zenon, <1>9, <1>10

\* CNetChan::SetDataRate on Linux: the jump to the bound, and nothing in its place.
LEMMA JumpLayout ==
    ASSUME RewriteInv, game = site.bytes, NEW d \in Distances, site \in LinNetChan(d)
    PROVE  /\ site.offset \in Nat /\ DOMAIN code = site.offset..site.offset + 1
           /\ site.within = site.offset + 2 /\ site.holds = "rate"
           /\ patch = "applied" => Means(site.offset, "nothing", 2)
           /\ patch # "applied" => Means(site.offset, "jump if above", 2) /\ code[site.offset + 1] = d
<1>1. PICK k \in {JA_8_OPCODE, JB_8_OPCODE}, a \in {24, 30} :
         site = Site(From(a, <<k, d>>), a, k, NOP_2, a + 2, "rate")
  <2>1. 30 + 2 = 32 /\ 24 + 2 = 26
    OBVIOUS
  <2>2. QED
    BY Zenon, <2>1 DEF LinNetChan
<1> DEFINE bytes == <<k, d>>
<1>2. /\ site.bytes = From(a, bytes) /\ site.offset = a /\ site.replacement = NOP_2
      /\ site.within = a + 2 /\ site.holds = "rate"
  BY <1>1 DEF Site
<1>3. bytes \in Bytes(2) /\ a \in Nat
  BY DistanceAssumption DEF Bytes, Byte, JA_8_OPCODE, JB_8_OPCODE
<1> HIDE DEF bytes
<1>4. Holds(game, a, bytes) /\ DOMAIN game = a..a + 1
  <2>1. DOMAIN From(a, bytes) = a..a + 2 - 1 /\ Holds(From(a, bytes), a, bytes)
    BY <1>3, FromHolds
  <2>2. a + 2 - 1 = a + 1
    BY <1>3
  <2>3. QED
    BY Zenon, <1>2, <2>1, <2>2
<1>5. a \in Int
  BY <1>3
<1>6. CASE patch # "applied"
  <2>1. code = game
    BY <1>6, CleanLayout
  <2>3. Means(a, "jump if above", 2) /\ code[a + 1] = d
    <3>1. Holds(code, a, JumpBytes(k, d))
      BY Zenon, <1>4, <2>1 DEF bytes, JumpBytes
    <3>2. QED
      BY Zenon, <1>5, <3>1, JumpMeanings
  <2>4. QED
    BY Zenon, <1>2, <1>3, <1>4, <1>6, <2>1, <2>3
<1>7. CASE patch = "applied"
  <2>1. Holds(code, a, NOP_2) /\ DOMAIN code = a..a + 1
    BY Zenon, <1>2, <1>4, <1>7, PatchedLayout
  <2>2. Means(a, "nothing", 2)
    BY Zenon, <1>5, <2>1, Meanings
  <2>3. QED
    BY Zenon, <1>2, <1>3, <1>7, <2>1, <2>2
<1>8. QED
  BY Zenon, <1>6, <1>7

\* The moves on Linux.
LEMMA MovesLayout ==
    ASSUME RewriteInv, game = site.bytes, site \in LinMoves
    PROVE  LET a == site.offset IN
           /\ a \in Nat /\ DOMAIN code = a..a + 13 /\ site.within = a + 14
           /\ patch = "applied" => /\ Means(a, "take rate", 2) /\ Means(a + 2, "nothing", 9)
                                   /\ Means(a + 11, "nothing", 3)
           /\ patch # "applied" => /\ Means(a, "take bound", 5) /\ Means(a + 5, "compare", 6)
                                   /\ Means(a + 11, "take rate if within", 3)
<1>1. PICK a \in {77, 64, 56} : site = LinBoundByMove(a)
  BY Zenon DEF LinMoves
<1> DEFINE mov == <<MOV_R32_IMM32_OPCODE>>
           cmp == <<129, 250>>
           cmov == <<15, 78, 194>>
           move == <<MOV_R32_RM32_OPCODE, 194>>
<1>2. /\ site.bytes = From(a, BoundByMove) /\ site.offset = a /\ site.replacement = MoveAndNops
      /\ site.within = a + 14
  BY <1>1 DEF LinBoundByMove, Site
<1>3. mov \in Bytes(1) /\ cmp \in Bytes(2) /\ cmov \in Bytes(3) /\ move \in Bytes(2)
  BY DEF Bytes, Byte, MOV_R32_IMM32_OPCODE, MOV_R32_RM32_OPCODE
<1>4. BoundByMove = mov \o Bound \o cmp \o Bound \o cmov /\ MoveAndNops = (move \o NOP_9) \o NOP_3
  BY Zenon DEF BoundByMove, MoveAndNops
<1> HIDE DEF mov, cmp, cmov, move
<1>5. a \in Nat /\ a \in Int /\ a + 2 \in Int /\ a + 5 \in Int /\ a + 11 \in Int
  BY <1>1
<1>6. Holds(game, a, BoundByMove) /\ DOMAIN game = a..a + 13
  <2>1. DOMAIN From(a, BoundByMove) = a..a + 14 - 1 /\ Holds(From(a, BoundByMove), a, BoundByMove)
    BY <1>5, BoundByMoveFacts, FromHolds
  <2>2. a + 14 - 1 = a + 13
    BY <1>5
  <2>3. QED
    BY Zenon, <1>2, <2>1, <2>2
<1>7. CASE patch # "applied"
  <2>1. code = game
    BY <1>7, CleanLayout
  <2>2. mov \o Bound \in Bytes(1 + 4)
    BY <1>3, PieceFacts, ConcatBytes
  <2>3. mov \o Bound \o cmp \in Bytes(5 + 2)
    BY <1>3, <2>2, ConcatBytes
  <2>4. mov \o Bound \o cmp \o Bound \in Bytes(7 + 4)
    BY <2>3, PieceFacts, ConcatBytes
  <2>5. Holds(code, a, mov \o Bound \o cmp \o Bound) /\ Holds(code, a + 11, cmov)
    <3>1. mov \o Bound \o cmp \o Bound \in Bytes(11) /\ 11 \in Nat /\ 3 \in Nat
      BY <2>4
    <3>2. QED
      BY Zenon, <1>3, <1>4, <1>5, <1>6, <2>1, <3>1, ConcatHolds
  <2>6. Holds(code, a, mov \o Bound \o cmp) /\ Holds(code, a + 7, Bound)
    BY <1>5, <2>3, <2>5, PieceFacts, ConcatHolds
  <2>7. Holds(code, a, mov \o Bound) /\ Holds(code, a + 5, cmp)
    BY <1>3, <1>5, <2>2, <2>6, ConcatHolds
  <2>8. Holds(code, a + 5, cmp \o Bound)
    <3>1. (a + 5) + 2 = a + 7
      BY <1>5
    <3>2. QED
      BY <1>3, <1>5, <2>6, <2>7, <3>1, PieceFacts, HoldsConcat
  <2>9. /\ Means(a, "take bound", 5) /\ Means(a + 5, "compare", 6)
        /\ Means(a + 11, "take rate if within", 3)
    BY Zenon, <1>5, <2>5, <2>7, <2>8, Meanings DEF mov, cmp, cmov
  <2>10. QED
    BY Zenon, <1>2, <1>5, <1>6, <1>7, <2>1, <2>9
<1>8. CASE patch = "applied"
  <2>1. Holds(code, a, MoveAndNops) /\ DOMAIN code = a..a + 13
    BY Zenon, <1>2, <1>6, <1>8, PatchedLayout
  <2>2. move \o NOP_9 \in Bytes(2 + 9)
    BY <1>3, PieceFacts, ConcatBytes
  <2>3. Holds(code, a, move \o NOP_9) /\ Holds(code, a + 11, NOP_3)
    <3>1. move \o NOP_9 \in Bytes(11) /\ NOP_3 \in Bytes(3) /\ 11 \in Nat /\ 3 \in Nat
      BY <2>2, PieceFacts
    <3>2. QED
      BY Zenon, <1>4, <1>5, <2>1, <3>1, ConcatHolds
  <2>4. Holds(code, a, move) /\ Holds(code, a + 2, NOP_9)
    BY <1>3, <1>5, <2>3, PieceFacts, ConcatHolds
  <2>5. Means(a, "take rate", 2) /\ Means(a + 2, "nothing", 9) /\ Means(a + 11, "nothing", 3)
    BY Zenon, <1>5, <2>3, <2>4, Meanings DEF move
  <2>6. QED
    BY Zenon, <1>2, <1>5, <1>8, <2>1, <2>5
<1>9. QED
  BY Zenon, <1>7, <1>8

-----------------------------------------------------------------------------
\* What the patch and the register say, as predicates.
Applied == patch = "applied"
HasRate == result = "rate"
HasBound == result = "bound"

\* Where the game is in CNetChan::SetDataRate on Windows, and what it knows there.
NetChanFlow ==
    IF Applied THEN ip \in {0, 6, 35} /\ (ip # 0 => HasRate)
    ELSE /\ ip \in {0, 6, 14, 17, 19, 35}
         /\ ip # 0 => HasRate
         /\ ip = 17 => flag = above
         /\ ip = 19 => above
         /\ ip = 35 => ~above

\* In CGameClient::SetRate on Windows.
GameClientFlow ==
    /\ HasRate
    /\ IF Applied THEN ip \in {47, 60}
       ELSE /\ ip \in {47, 52, 54, 60}
            /\ ip = 52 => flag = above
            /\ ip = 54 => above
            /\ ip = 60 => ~above

\* At a jump at a that leads d bytes further.
JumpFlow(a, d) ==
    /\ HasRate
    /\ IF Applied THEN ip \in {a, a + 2}
       ELSE /\ ip \in {a, a + 2, a + 2 + d}
            /\ ip = a => flag = above
            /\ ip = a + 2 => ~above
            /\ ip = a + 2 + d => above

\* In the moves at a.
MovesFlow(a) ==
    IF Applied THEN ip \in {a, a + 2, a + 11, a + 14} /\ (ip # a => HasRate)
    ELSE /\ ip \in {a, a + 5, a + 11, a + 14}
         /\ ip = a + 11 => flag = above
         /\ ip \in {a + 5, a + 11} => HasBound
         /\ ip = a + 14 => (HasRate <=> ~above)

\* In the right game, while it is inside a function.
FlowInv ==
    game = site.bytes /\ ip # Outside =>
       /\ site = WinNetChan => NetChanFlow
       /\ site = WinGameClient => GameClientFlow
       /\ \A d \in Distances : site \in LinNetChan(d) => JumpFlow(site.offset, d)
       /\ site \in LinMoves => MovesFlow(site.offset)

\* What an instruction does, by what it means.
LEMMA Effects ==
    ASSUME NEW i \in Instructions, Execute(i), NEW n
    PROVE  /\ UNCHANGED <<site, game, patch, above>>
           /\ ip \in DOMAIN code
           /\ Means(ip, "take rate", n) => ip' = ip + n + 0 /\ flag' = flag /\ HasRate'
           /\ Means(ip, "take bound", n) => ip' = ip + n + 0 /\ flag' = flag /\ HasBound'
           /\ Means(ip, "nothing", n) => ip' = ip + n + 0 /\ flag' = flag /\ result' = result
           /\ Means(ip, "compare", n) => ip' = ip + n + 0 /\ flag' = above /\ result' = result
           /\ Means(ip, "take rate if within", n) =>
                 /\ ip' = ip + n + 0 /\ flag' = flag
                 /\ (flag => result' = result) /\ (~flag => HasRate')
           /\ Means(ip, "jump", n) => ip' = ip + n + code[ip + 1] /\ flag' = flag /\ result' = result
           /\ Means(ip, "jump if within", n) =>
                 /\ ip' = ip + n + (IF flag THEN 0 ELSE code[ip + 1])
                 /\ flag' = flag /\ result' = result
           /\ Means(ip, "jump if above", n) =>
                 /\ ip' = ip + n + (IF flag THEN code[ip + 1] ELSE 0)
                 /\ flag' = flag /\ result' = result
<1>1. /\ UNCHANGED <<site, game, patch, above>>
      /\ ip \in DOMAIN code /\ IsAt(i, ip)
      /\ ip' = ip + Len(i.form) + IF Jumps(i.does) THEN code[ip + 1] ELSE 0
      /\ flag' = IF i.does = "compare" THEN above ELSE flag
      /\ result' = Takes(i.does)
  BY DEF Execute
<1>2. ASSUME NEW does, Means(ip, does, n)
      PROVE  /\ ip' = ip + n + IF Jumps(does) THEN code[ip + 1] ELSE 0
             /\ flag' = IF does = "compare" THEN above ELSE flag
             /\ result' = Takes(does)
  <2>1. i.does = does /\ Len(i.form) = n
    BY Zenon, <1>1, <1>2 DEF Means
  <2>2. QED
    BY Zenon, <1>1, <2>1
<1>3. /\ Jumps("jump") /\ (Jumps("jump if within") <=> ~flag) /\ (Jumps("jump if above") <=> flag)
      /\ \A d \in {"take rate", "take bound", "nothing", "compare", "take rate if within"} : ~Jumps(d)
  BY DEF Jumps
<1>4. /\ Takes("take rate") = "rate" /\ Takes("take bound") = "bound"
      /\ Takes("take rate if within") = IF flag THEN result ELSE "rate"
      /\ \A d \in {"nothing", "compare", "jump", "jump if within", "jump if above"} : Takes(d) = result
  BY DEF Takes
<1>5. /\ \A d \in {"take rate", "take bound", "nothing", "take rate if within", "jump",
                   "jump if within", "jump if above"} : d # "compare"
  OBVIOUS
<1>6. QED
  BY Zenon, <1>1, <1>2, <1>3, <1>4, <1>5 DEF HasRate, HasBound

\* The result register keeps what it has.
LEMMA Kept ==
    ASSUME result' = result
    PROVE  (HasRate' <=> HasRate) /\ (HasBound' <=> HasBound)
BY Zenon DEF HasRate, HasBound

\* An instruction of the Windows SetDataRate leads on.
LEMMA NetChanStep ==
    ASSUME RewriteInv, game = site.bytes, site = WinNetChan, NetChanFlow,
           NEW i \in Instructions, Execute(i)
    PROVE  NetChanFlow'
<1>1. ip \in 0..18 /\ above' = above /\ (Applied' <=> Applied)
  BY Zenon, NetChanLayout, Effects DEF Applied
<1>2. CASE Applied
  <2>1. Means(0, "take rate", 6) /\ Means(6, "jump", 2) /\ code[7] = 27
    BY Zenon, <1>2, NetChanLayout DEF Applied
  <2>2. CASE ip = 0
    <3>1. ip' = 0 + 6 + 0 /\ HasRate'
      BY Zenon, <2>1, <2>2, Effects
    <3>2. QED
      BY <1>1, <1>2, <3>1 DEF NetChanFlow
  <2>3. CASE ip = 6
    <3>1. 6 + 1 = 7
      OBVIOUS
    <3>2. ip' = 6 + 2 + 27 /\ result' = result
      BY Zenon, <2>1, <2>3, <3>1, Effects
    <3>3. HasRate'
      BY <1>2, <2>3, <3>2, Kept DEF NetChanFlow
    <3>4. QED
      BY <1>1, <1>2, <3>2, <3>3 DEF NetChanFlow
  <2>4. QED
    BY <1>1, <1>2, <2>2, <2>3 DEF NetChanFlow
<1>3. CASE ~Applied
  <2>1. /\ Means(0, "take rate", 6) /\ Means(6, "nothing", 8) /\ Means(14, "compare", 3)
        /\ Means(17, "jump if within", 2) /\ code[18] = 16
    BY Zenon, <1>3, NetChanLayout DEF Applied
  <2>2. CASE ip = 0
    <3>1. ip' = 0 + 6 + 0 /\ HasRate'
      BY Zenon, <2>1, <2>2, Effects
    <3>2. QED
      BY <1>1, <1>3, <3>1 DEF NetChanFlow
  <2>3. ASSUME ip # 0 PROVE HasRate
    BY <1>3, <2>3 DEF NetChanFlow
  <2>4. CASE ip = 6
    <3>1. ip' = 6 + 8 + 0 /\ result' = result
      BY Zenon, <2>1, <2>4, Effects
    <3>2. HasRate'
      BY <2>3, <2>4, <3>1, Kept
    <3>3. QED
      BY <1>1, <1>3, <3>1, <3>2 DEF NetChanFlow
  <2>5. CASE ip = 14
    <3>1. ip' = 14 + 3 + 0 /\ flag' = above /\ result' = result
      BY Zenon, <2>1, <2>5, Effects
    <3>2. HasRate'
      BY <2>3, <2>5, <3>1, Kept
    <3>3. QED
      BY <1>1, <1>3, <3>1, <3>2 DEF NetChanFlow
  <2>6. CASE ip = 17
    <3>1. 17 + 1 = 18
      OBVIOUS
    <3>2. ip' = 17 + 2 + (IF flag THEN 0 ELSE 16) /\ result' = result
      BY Zenon, <2>1, <2>6, <3>1, Effects
    <3>3. HasRate'
      BY <2>3, <2>6, <3>2, Kept
    <3>4. flag = above
      BY <1>3, <2>6 DEF NetChanFlow
    <3>5. QED
      BY <1>1, <1>3, <3>2, <3>3, <3>4 DEF NetChanFlow
  <2>7. QED
    BY <1>1, <1>3, <2>2, <2>4, <2>5, <2>6 DEF NetChanFlow
<1>4. QED
  BY <1>2, <1>3

\* One of the Windows SetRate.
LEMMA GameClientStep ==
    ASSUME RewriteInv, game = site.bytes, site = WinGameClient, GameClientFlow,
           NEW i \in Instructions, Execute(i)
    PROVE  GameClientFlow'
<1>1. ip \in 47..53 /\ above' = above /\ (Applied' <=> Applied)
  BY Zenon, GameClientLayout, Effects DEF Applied
<1>2. HasRate /\ 47 + 1 = 48 /\ 52 + 1 = 53
  BY DEF GameClientFlow
<1>3. CASE Applied
  <2>1. ip = 47
    BY <1>1, <1>3 DEF GameClientFlow
  <2>2. Means(47, "jump", 2) /\ code[48] = 11
    BY Zenon, <1>3, GameClientLayout DEF Applied
  <2>3. ip' = 47 + 2 + 11 /\ result' = result
    BY Zenon, <1>2, <2>1, <2>2, Effects
  <2>4. QED
    BY <1>1, <1>2, <1>3, <2>3, Kept DEF GameClientFlow
<1>4. CASE ~Applied
  <2>1. Means(47, "compare", 5) /\ Means(52, "jump if within", 2) /\ code[53] = 6
    BY Zenon, <1>4, GameClientLayout DEF Applied
  <2>2. CASE ip = 47
    <3>1. ip' = 47 + 5 + 0 /\ flag' = above /\ result' = result
      BY Zenon, <2>1, <2>2, Effects
    <3>2. QED
      BY <1>1, <1>2, <1>4, <3>1, Kept DEF GameClientFlow
  <2>3. CASE ip = 52
    <3>1. ip' = 52 + 2 + (IF flag THEN 0 ELSE 6) /\ result' = result
      BY Zenon, <1>2, <2>1, <2>3, Effects
    <3>2. flag = above
      BY <1>4, <2>3 DEF GameClientFlow
    <3>3. QED
      BY <1>1, <1>2, <1>4, <3>1, <3>2, Kept DEF GameClientFlow
  <2>4. QED
    BY <1>1, <1>4, <2>2, <2>3 DEF GameClientFlow
<1>5. QED
  BY <1>3, <1>4

\* The jump on Linux.
LEMMA JumpStep ==
    ASSUME RewriteInv, game = site.bytes, NEW d \in Distances, site \in LinNetChan(d),
           JumpFlow(site.offset, d), NEW i \in Instructions, Execute(i)
    PROVE  JumpFlow(site.offset, d)'
<1> DEFINE a == site.offset
<1>1. ip \in a..a + 1 /\ above' = above /\ (Applied' <=> Applied) /\ a' = a /\ a \in Nat
  BY Zenon, JumpLayout, Effects DEF Applied
<1>2. HasRate /\ d \in 1..127
  BY DistanceAssumption DEF JumpFlow
<1>3. ip = a
  BY <1>1, <1>2 DEF JumpFlow
<1>4. CASE Applied
  <2>1. Means(a, "nothing", 2)
    BY Zenon, <1>4, JumpLayout DEF Applied
  <2>2. ip' = a + 2 + 0 /\ result' = result
    BY Zenon, <1>3, <2>1, Effects
  <2>3. HasRate'
    BY <1>2, <2>2, Kept
  <2>4. QED
    BY <1>1, <1>4, <2>2, <2>3 DEF JumpFlow
<1>5. CASE ~Applied
  <2>1. Means(a, "jump if above", 2) /\ code[a + 1] = d
    BY Zenon, <1>5, JumpLayout DEF Applied
  <2>2. ip' = a + 2 + (IF flag THEN d ELSE 0) /\ result' = result
    BY Zenon, <1>3, <2>1, Effects
  <2>3. HasRate'
    BY <1>2, <2>2, Kept
  <2>4. flag = above
    BY <1>3, <1>5 DEF JumpFlow
  <2>5. QED
    BY <1>1, <1>2, <1>5, <2>2, <2>3, <2>4 DEF JumpFlow
<1>6. QED
  BY <1>4, <1>5

\* The moves on Linux.
LEMMA MovesStep ==
    ASSUME RewriteInv, game = site.bytes, site \in LinMoves, MovesFlow(site.offset),
           NEW i \in Instructions, Execute(i)
    PROVE  MovesFlow(site.offset)'
<1> DEFINE a == site.offset
<1>1. ip \in a..a + 13 /\ above' = above /\ (Applied' <=> Applied) /\ a' = a /\ a \in Nat
  BY Zenon, MovesLayout, Effects DEF Applied
<1>2. CASE Applied
  <2>1. Means(a, "take rate", 2) /\ Means(a + 2, "nothing", 9) /\ Means(a + 11, "nothing", 3)
    BY Zenon, <1>2, MovesLayout DEF Applied
  <2>2. CASE ip = a
    <3>1. ip' = a + 2 + 0 /\ HasRate'
      BY Zenon, <2>1, <2>2, Effects
    <3>2. QED
      BY <1>1, <1>2, <3>1 DEF MovesFlow
  <2>3. CASE ip = a + 2
    <3>1. ip' = (a + 2) + 9 + 0 /\ result' = result
      BY Zenon, <2>1, <2>3, Effects
    <3>2. HasRate'
      BY <1>1, <1>2, <2>3, <3>1, Kept DEF MovesFlow
    <3>3. QED
      BY <1>1, <1>2, <3>1, <3>2 DEF MovesFlow
  <2>4. CASE ip = a + 11
    <3>1. ip' = (a + 11) + 3 + 0 /\ result' = result
      BY Zenon, <2>1, <2>4, Effects
    <3>2. HasRate'
      BY <1>1, <1>2, <2>4, <3>1, Kept DEF MovesFlow
    <3>3. QED
      BY <1>1, <1>2, <3>1, <3>2 DEF MovesFlow
  <2>5. QED
    BY <1>1, <1>2, <2>2, <2>3, <2>4 DEF MovesFlow
<1>3. CASE ~Applied
  <2>1. /\ Means(a, "take bound", 5) /\ Means(a + 5, "compare", 6)
        /\ Means(a + 11, "take rate if within", 3)
    BY Zenon, <1>3, MovesLayout DEF Applied
  <2>2. CASE ip = a
    <3>1. ip' = a + 5 + 0 /\ HasBound'
      BY Zenon, <2>1, <2>2, Effects
    <3>2. QED
      BY <1>1, <1>3, <3>1 DEF MovesFlow
  <2>3. CASE ip = a + 5
    <3>1. ip' = (a + 5) + 6 + 0 /\ flag' = above /\ result' = result
      BY Zenon, <2>1, <2>3, Effects
    <3>2. HasBound'
      BY <1>1, <1>3, <2>3, <3>1, Kept DEF MovesFlow
    <3>3. QED
      BY <1>1, <1>3, <3>1, <3>2 DEF MovesFlow
  <2>4. CASE ip = a + 11
    <3>1. /\ ip' = (a + 11) + 3 + 0
          /\ (flag => result' = result) /\ (~flag => HasRate')
      BY Zenon, <2>1, <2>4, Effects
    <3>2. HasBound /\ flag = above
      BY <1>1, <1>3, <2>4 DEF MovesFlow
    <3>3. ~(HasBound /\ HasRate)
      BY DEF HasBound, HasRate
    <3>4. HasRate' <=> ~above
      BY Zenon, <3>1, <3>2, <3>3, Kept
    <3>5. QED
      BY <1>1, <1>3, <3>1, <3>4 DEF MovesFlow
  <2>5. QED
    BY <1>1, <1>3, <2>2, <2>3, <2>4 DEF MovesFlow
<1>4. QED
  BY <1>2, <1>3

-----------------------------------------------------------------------------
\* A call of the game begins at the first byte that is known.
LEMMA EnterFlow ==
    ASSUME RewriteInv, Enter
    PROVE  FlowInv'
<1>1. /\ UNCHANGED <<site, code, game, patch>> /\ (Applied' <=> Applied)
      /\ ip' \in DOMAIN code /\ \A n \in DOMAIN code : ip' <= n
      /\ flag' = above' /\ result' = site.holds
  BY Zenon DEF Enter, Applied
<1> SUFFICES ASSUME game = site.bytes PROVE FlowInv'
  BY <1>1 DEF FlowInv
<1>2. ASSUME site = WinNetChan PROVE NetChanFlow'
  <2>1. DOMAIN code = 0..18
    BY <1>2, NetChanLayout
  <2>2. ip' = 0
    <3>1. 0 \in DOMAIN code
      BY <2>1
    <3>2. QED
      BY <1>1, <2>1, <3>1
  <2>3. QED
    BY <2>2 DEF NetChanFlow
<1>3. ASSUME site = WinGameClient PROVE GameClientFlow'
  <2>1. DOMAIN code = 47..53
    BY <1>3, GameClientLayout
  <2>2. ip' = 47
    <3>1. 47 \in DOMAIN code
      BY <2>1
    <3>2. QED
      BY <1>1, <2>1, <3>1
  <2>3. HasRate'
    <3>1. site.holds = "rate"
      BY <1>3 DEF WinGameClient, Site
    <3>2. QED
      BY Zenon, <1>1, <3>1 DEF HasRate
  <2>4. QED
    BY <2>2, <2>3 DEF GameClientFlow
<1>4. ASSUME NEW d \in Distances, site \in LinNetChan(d) PROVE JumpFlow(site.offset, d)'
  <2> DEFINE a == site.offset
  <2>1. a \in Nat /\ DOMAIN code = a..a + 1 /\ site.holds = "rate"
    BY <1>4, JumpLayout
  <2>2. ip' = a
    <3>1. a \in DOMAIN code
      BY <2>1
    <3>2. QED
      BY <1>1, <2>1, <3>1
  <2>3. HasRate'
    BY Zenon, <1>1, <2>1 DEF HasRate
  <2>4. a' = a /\ flag' = above' /\ d \in 1..127
    BY <1>1, DistanceAssumption
  <2>5. QED
    BY <2>1, <2>2, <2>3, <2>4 DEF JumpFlow
<1>5. ASSUME site \in LinMoves PROVE MovesFlow(site.offset)'
  <2> DEFINE a == site.offset
  <2>1. a \in Nat /\ DOMAIN code = a..a + 13
    BY <1>5, MovesLayout
  <2>2. ip' = a
    <3>1. a \in DOMAIN code
      BY <2>1
    <3>2. QED
      BY <1>1, <2>1, <3>1
  <2>3. a' = a
    BY <1>1
  <2>4. QED
    BY <2>1, <2>2, <2>3 DEF MovesFlow
<1>6. QED
  BY Zenon, <1>1, <1>2, <1>3, <1>4, <1>5 DEF FlowInv

\* An instruction inside the call keeps to the way.
LEMMA ExecuteFlow ==
    ASSUME RewriteInv, FlowInv, NEW i \in Instructions, Execute(i)
    PROVE  FlowInv'
<1>1. UNCHANGED <<site, code, game>> /\ ip \in DOMAIN code
  BY Zenon DEF Execute
<1>2. ip # Outside
  BY <1>1, SiteFacts DEF RewriteInv, TypeOK, SiteOK, Outside
<1> SUFFICES ASSUME game = site.bytes PROVE FlowInv'
  BY <1>1 DEF FlowInv
<1>3. site = WinNetChan => NetChanFlow'
  BY Zenon, <1>2, NetChanStep DEF FlowInv
<1>4. site = WinGameClient => GameClientFlow'
  BY Zenon, <1>2, GameClientStep DEF FlowInv
<1>5. \A d \in Distances : site \in LinNetChan(d) => JumpFlow(site.offset, d)'
  BY Zenon, <1>2, JumpStep DEF FlowInv
<1>6. site \in LinMoves => MovesFlow(site.offset)'
  BY Zenon, <1>2, MovesStep DEF FlowInv
<1>7. QED
  BY Zenon, <1>1, <1>3, <1>4, <1>5, <1>6 DEF FlowInv

\* The patches are written between two calls of the game, which is all that the
\* invariant needs of them.
LEMMA OutsideFlow ==
    ASSUME GeneratePatch \/ PatchCode \/ UnpatchCode \/ Leave
    PROVE  FlowInv'
<1>1. ip' = Outside
  BY Zenon DEF GeneratePatch, PatchCode, UnpatchCode, Leave
<1>2. QED
  BY Zenon, <1>1 DEF FlowInv

\* On its way through the right code, patched or not, the game is where one of its
\* instructions begins, and knows what the comparison has said.
THEOREM FlowInvariant == Spec => []FlowInv
<1>1. Init => FlowInv
  BY Zenon DEF Init, FlowInv
<1>2. ASSUME RewriteInv, FlowInv, [Next]_vars PROVE FlowInv'
  <2>1. CASE GeneratePatch \/ PatchCode \/ UnpatchCode \/ Leave
    BY Zenon, <2>1, OutsideFlow
  <2>2. CASE Enter
    BY Zenon, <1>2, <2>2, EnterFlow
  <2>3. CASE \E i \in Instructions : Execute(i)
    BY Zenon, <1>2, <2>3, ExecuteFlow
  <2>4. CASE UNCHANGED vars
    BY Zenon, <1>2, <2>4 DEF FlowInv, NetChanFlow, GameClientFlow, JumpFlow, MovesFlow,
                             Applied, HasRate, HasBound, vars
  <2>5. QED
    BY Zenon, <1>2, <2>1, <2>2, <2>3, <2>4 DEF Next
<1>3. QED
  BY <1>1, <1>2, RewriteInvariant, PTL DEF Spec

-----------------------------------------------------------------------------
\* The processor can read an instruction at a.
Reads(a) == \E i \in Instructions : IsAt(i, a)

\* LiftsTheBound of the place where the game is, for a site where a rate within the
\* bound goes on at w.
Lifted(w) ==
    /\ ip \in DOMAIN code => Reads(ip)
    /\ ip \notin DOMAIN code => (ip = w /\ HasRate <=> Applied \/ ~above)

\* Where an instruction has a meaning, it can be read.
LEMMA MeansReads ==
    \A a, does, n : Means(a, does, n) => Reads(a)
BY Zenon DEF Means, Reads

\* The ways through CNetChan::SetDataRate on Windows.
LEMMA NetChanLifted ==
    ASSUME RewriteInv, game = site.bytes, site = WinNetChan, NetChanFlow
    PROVE  Lifted(35)
<1>1. DOMAIN code = 0..18 /\ Reads(0) /\ Reads(6)
  BY Zenon, NetChanLayout, MeansReads
<1>2. ~Applied => Reads(14) /\ Reads(17)
  BY Zenon, NetChanLayout, MeansReads DEF Applied
<1>3. QED
  BY <1>1, <1>2 DEF NetChanFlow, Lifted

\* Through CGameClient::SetRate on Windows.
LEMMA GameClientLifted ==
    ASSUME RewriteInv, game = site.bytes, site = WinGameClient, GameClientFlow
    PROVE  Lifted(60)
<1>1. DOMAIN code = 47..53 /\ Reads(47)
  BY Zenon, GameClientLayout, MeansReads
<1>2. ~Applied => Reads(52)
  BY Zenon, GameClientLayout, MeansReads DEF Applied
<1>3. QED
  BY <1>1, <1>2 DEF GameClientFlow, Lifted

\* Over the jump on Linux.
LEMMA JumpLifted ==
    ASSUME RewriteInv, game = site.bytes, NEW d \in Distances, site \in LinNetChan(d),
           JumpFlow(site.offset, d)
    PROVE  Lifted(site.within)
<1> DEFINE a == site.offset
<1>1. a \in Nat /\ DOMAIN code = a..a + 1 /\ site.within = a + 2 /\ Reads(a)
  BY Zenon, JumpLayout, MeansReads
<1>2. d \in 1..127
  BY DistanceAssumption
<1>3. QED
  BY <1>1, <1>2 DEF JumpFlow, Lifted

\* Through the moves on Linux.
LEMMA MovesLifted ==
    ASSUME RewriteInv, game = site.bytes, site \in LinMoves, MovesFlow(site.offset)
    PROVE  Lifted(site.within)
<1> DEFINE a == site.offset
<1>1. a \in Nat /\ DOMAIN code = a..a + 13 /\ site.within = a + 14 /\ Reads(a) /\ Reads(a + 11)
  BY Zenon, MovesLayout, MeansReads
<1>2. Applied => Reads(a + 2)
  BY Zenon, MovesLayout, MeansReads DEF Applied
<1>3. ~Applied => Reads(a + 5)
  BY Zenon, MovesLayout, MeansReads DEF Applied
<1>4. QED
  BY <1>1, <1>2, <1>3 DEF MovesFlow, Lifted

\* Every site has its way.
LEMMA FlowLifts ==
    ASSUME RewriteInv, FlowInv
    PROVE  LiftsTheBound
<1> SUFFICES ASSUME game = site.bytes PROVE ip # Outside => Lifted(site.within)
  <2>1. ip \in DOMAIN code => ip # Outside
    BY SiteFacts DEF RewriteInv, TypeOK, SiteOK, Outside
  <2>2. QED
    BY Zenon, <2>1 DEF LiftsTheBound, Lifted, Reads, HasRate, Applied
<1> SUFFICES ASSUME ip # Outside PROVE Lifted(site.within)
  OBVIOUS
<1>1. CASE site = WinNetChan
  <2>1. site.within = 35
    BY <1>1 DEF WinNetChan, Site
  <2>2. QED
    BY Zenon, <1>1, <2>1, NetChanLifted DEF FlowInv
<1>2. CASE site = WinGameClient
  <2>1. site.within = 60
    BY <1>2 DEF WinGameClient, Site
  <2>2. QED
    BY Zenon, <1>2, <2>1, GameClientLifted DEF FlowInv
<1>3. CASE site \in LinNetChans
  <2>1. PICK d \in Distances : site \in LinNetChan(d)
    BY <1>3 DEF LinNetChans
  <2>2. QED
    BY Zenon, <2>1, JumpLifted DEF FlowInv
<1>4. CASE site \in LinMoves
  BY Zenon, <1>4, MovesLifted DEF FlowInv
<1>5. site \in Sites
  BY DEF RewriteInv, TypeOK
<1>6. QED
  BY Zenon, <1>1, <1>2, <1>3, <1>4, <1>5 DEF Sites, WinSites

\* What the patches are for, for every jump distance and in whatever order Load,
\* Unload and the calls of the game come: while a patch is applied a rate above the
\* bound leaves the function where a rate within it does, unchanged; without it, it
\* does not; and the game never runs into the middle of an instruction.
THEOREM RatesAreLifted == Spec => []LiftsTheBound
<1>1. RewriteInv /\ FlowInv => LiftsTheBound
  BY Zenon, FlowLifts
<1>2. QED
  BY <1>1, RewriteInvariant, FlowInvariant, PTL
=============================================================================
