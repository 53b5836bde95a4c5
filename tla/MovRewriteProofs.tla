-------------------------- MODULE MovRewriteProofs --------------------------
(* The rewritten mov is right for every modrm byte, every pointer and every  *)
(* set of foreign opcodes.                                                   *)
EXTENDS MovRewrite, TLAPS

\* What mov_to_disp32 makes of byte n, and what the patch finally writes there.
Converted(n) == IF n = 2 /\ original[1] = MOV_R32_RM32_OPCODE
                THEN ModrmSrcToDisp32(original[2]) ELSE original[n]
Final(n) == IF n \in (offs+1)..(offs+4) THEN Pointer[n - offs] ELSE Converted(n)

\* The code is the original until it is patched; each step has done its part.
RewriteInv ==
    /\ pc # "patched" => code = original
    /\ pc \notin {"offset", "thrown"} =>
          \/ original[1] = MOV_R32_RM32_OPCODE /\ offs = 2
          \/ original[1] = MOV_EAX_MOFFS32_OPCODE /\ offs = 1
    /\ pc = "convert" => \A n \in 1..6 : instr_buf[n] = original[n]
    /\ pc = "plug" => \A n \in 1..6 : instr_buf[n] = Converted(n)
    /\ pc = "patch" => \A n \in 1..6 : instr_buf[n] = Final(n)
    /\ pc = "patched" => /\ \A n \in 1..6 : code[n] = Final(n)
                         /\ \A n \in 7..8 : code[n] = original[n]

Inv == TypeOK /\ RewriteInv

\* A byte with the mod bits clear, rm 101 and the register of another one: it is a
\* byte, and its fields are these.
LEMMA ModrmFields ==
    ASSUME NEW b \in Byte
    PROVE  LET c == ModrmSrcToDisp32(b) IN
           /\ c \in Byte
           /\ Mod(c) = 0
           /\ Rm(c) = 5
           /\ Reg(c) = Reg(b)
<1>1. Reg(b) \in 0..7
  BY DEF Reg, Byte
<1>2. \A r \in 0..7 : /\ 8 * r + 5 \in Byte
                      /\ (8 * r + 5) \div 64 = 0
                      /\ (8 * r + 5) % 8 = 5
                      /\ ((8 * r + 5) \div 8) % 8 = r
  BY DEF Byte
<1> QED
  BY <1>1, <1>2 DEF ModrmSrcToDisp32, Mod, Rm, Reg

\* The invariant holds initially.
LEMMA InitInv == Init => Inv
<1> SUFFICES ASSUME Init PROVE Inv
  OBVIOUS
<1> USE ByteAssumption, OpcodeAssumption
<1>1. PICK op \in Opcodes, m \in ModRMs, s \in Sibs :
                              code = <<op, m, s, 11, 12, 13, 14, 15>>
  BY DEF Init
<1>2. op \in Byte /\ m \in Byte /\ s \in Byte
  BY DEF Opcodes, Byte, MOV_R32_RM32_OPCODE, MOV_EAX_MOFFS32_OPCODE
<1>3. code \in [1..8 -> Byte]
  BY <1>1, <1>2 DEF Byte
<1>4. TypeOK
  BY <1>3 DEF Init, TypeOK, Byte, MAX_MOV_INSTR_LEN
<1>5. RewriteInv
  BY DEF Init, RewriteInv
<1> QED
  BY <1>4, <1>5 DEF Inv

\* Every step preserves it.
LEMMA StepInv == Inv /\ [Next]_vars => Inv'
<1> SUFFICES ASSUME Inv, [Next]_vars PROVE Inv'
  OBVIOUS
<1> USE PointerAssumption DEF MAX_MOV_INSTR_LEN
<1>1. CASE FindOffset
  BY <1>1 DEF Inv, TypeOK, RewriteInv, FindOffset, SrcOperandOffset
<1>2. CASE Copy
  <2>1. TypeOK'
    BY <1>2 DEF Inv, TypeOK, Copy
  <2>2. \A n \in 1..6 : instr_buf'[n] = original[n]
    BY <1>2 DEF Inv, RewriteInv, Copy
  <2>3. RewriteInv'
    BY <1>2, <2>2 DEF Inv, RewriteInv, Copy
  <2> QED
    BY <2>1, <2>3 DEF Inv
<1>3. CASE Convert
  <2>1. instr_buf[1] = original[1] /\ instr_buf[2] = original[2] /\ original[2] \in Byte
    BY <1>3 DEF Inv, TypeOK, RewriteInv, Convert
  <2>2. ModrmSrcToDisp32(original[2]) \in Byte
    BY <2>1, ModrmFields
  <2>3. TypeOK'
    BY <1>3, <2>1, <2>2 DEF Inv, TypeOK, Convert
  <2>4. \A n \in 1..6 : instr_buf'[n] = Converted(n)
    BY <1>3, <2>1 DEF Inv, TypeOK, RewriteInv, Convert, Converted
  <2>5. \A n \in 1..6 : instr_buf'[n] = Converted(n)'
    BY <1>3, <2>4 DEF Convert, Converted
  <2>6. RewriteInv'
    BY <1>3, <2>5 DEF Inv, RewriteInv, Convert
  <2> QED
    BY <2>3, <2>6 DEF Inv
<1>4. CASE Plug
  <2>1. TypeOK'
    BY <1>4 DEF Inv, TypeOK, Plug
  <2>2. \A n \in 1..6 : instr_buf'[n] = Final(n)
    BY <1>4 DEF Inv, TypeOK, RewriteInv, Plug, Final
  <2>3. \A n \in 1..6 : instr_buf'[n] = Final(n)'
    BY <1>4, <2>2 DEF Plug, Final, Converted
  <2>4. RewriteInv'
    BY <1>4, <2>3 DEF Inv, RewriteInv, Plug
  <2> QED
    BY <2>1, <2>4 DEF Inv
<1>5. CASE PatchCode
  <2>1. TypeOK'
    BY <1>5 DEF Inv, TypeOK, PatchCode
  <2>2. /\ \A n \in 1..6 : code'[n] = instr_buf[n]
        /\ \A n \in 7..8 : code'[n] = original[n]
    BY <1>5 DEF Inv, TypeOK, RewriteInv, PatchCode
  <2>3. \A n \in 1..6 : instr_buf[n] = Final(n)'
    BY <1>5 DEF Inv, RewriteInv, PatchCode, Final, Converted
  <2>4. RewriteInv'
    BY <1>5, <2>2, <2>3 DEF Inv, RewriteInv, PatchCode
  <2> QED
    BY <2>1, <2>4 DEF Inv
<1>6. CASE UNCHANGED vars
  BY <1>6 DEF Inv, TypeOK, RewriteInv, vars, Final, Converted
<1> QED
  BY <1>1, <1>2, <1>3, <1>4, <1>5, <1>6 DEF Next

\* Each step of the rewriting does its part, in every behaviour.
THEOREM RewriteInvariant == Spec => []Inv
<1> QED
  BY InitInv, StepInv, PTL DEF Spec

\* Type correctness.
THEOREM RewriteTypeCorrect == Spec => []TypeOK
<1>1. Inv => TypeOK
  BY DEF Inv
<1> QED
  BY <1>1, RewriteInvariant, PTL

\* Whatever mov was at the read's offset, the patched code is a mov into the same
\* register from the plugin's pointer.
THEOREM RewriteReadsPointer == Spec => []ReadsPointer
<1>1. Inv => ReadsPointer
  <2> SUFFICES ASSUME Inv, pc = "patched"
               PROVE  /\ IsAbsolute(code)
                      /\ \A n \in 1..4 : code[Disp32Offset(code) + n] = Pointer[n]
                      /\ Destination(code) = Destination(original)
    BY DEF ReadsPointer
  <2>1. \A n \in 1..6 : code[n] = Final(n)
    BY DEF Inv, RewriteInv
  <2>2. CASE original[1] = MOV_R32_RM32_OPCODE /\ offs = 2
    <3>1. code[1] = MOV_R32_RM32_OPCODE /\ code[2] = ModrmSrcToDisp32(original[2])
      BY <2>1, <2>2 DEF Final, Converted
    <3>2. \A n \in 1..4 : code[2 + n] = Pointer[n]
      BY <2>1, <2>2 DEF Final
    <3>3. original[2] \in Byte
      BY DEF Inv, TypeOK
    <3>4. Mod(code[2]) = 0 /\ Rm(code[2]) = 5 /\ Reg(code[2]) = Reg(original[2])
      BY <3>1, <3>3, ModrmFields
    <3>5. Disp32Offset(code) = 2
      BY <3>1, <3>4 DEF Disp32Offset, DispLength, HasSib, MOV_R32_RM32_OPCODE,
                        MOV_EAX_MOFFS32_OPCODE
    <3> QED
      BY <2>2, <3>1, <3>2, <3>4, <3>5 DEF IsAbsolute, Destination,
         MOV_R32_RM32_OPCODE, MOV_EAX_MOFFS32_OPCODE
  <2>3. CASE original[1] = MOV_EAX_MOFFS32_OPCODE /\ offs = 1
    <3>1. code[1] = MOV_EAX_MOFFS32_OPCODE
      BY <2>1, <2>3 DEF Final, Converted
    <3>2. \A n \in 1..4 : code[1 + n] = Pointer[n]
      BY <2>1, <2>3 DEF Final
    <3> QED
      BY <2>3, <3>1, <3>2 DEF IsAbsolute, Destination, Disp32Offset
  <2> QED
    BY <2>2, <2>3 DEF Inv, RewriteInv
<1> QED
  BY <1>1, RewriteInvariant, PTL

\* A mov as long as its replacement is replaced without touching what follows it.
THEOREM RewriteKeepsTheRest == Spec => []KeepsTheRest
<1>1. Inv => KeepsTheRest
  <2> SUFFICES ASSUME Inv, pc = "patched", Length(original) = Length(code),
                      NEW n \in (Length(original) + 1)..8
               PROVE  code[n] = original[n]
    BY DEF KeepsTheRest
  <2>1. /\ \A q \in 1..6 : code[q] = Final(q)
        /\ \A q \in 7..8 : code[q] = original[q]
    BY DEF Inv, RewriteInv
  <2>2. CASE original[1] = MOV_R32_RM32_OPCODE /\ offs = 2
    <3>1. code[1] = MOV_R32_RM32_OPCODE /\ code[2] = ModrmSrcToDisp32(original[2])
      BY <2>1, <2>2 DEF Final, Converted
    <3>2. original[2] \in Byte
      BY DEF Inv, TypeOK
    <3>3. Mod(code[2]) = 0 /\ Rm(code[2]) = 5
      BY <3>1, <3>2, ModrmFields
    <3>4. Length(code) = 6
      BY <3>1, <3>3 DEF Length, DispLength, HasSib, MOV_R32_RM32_OPCODE,
                        MOV_EAX_MOFFS32_OPCODE
    <3> QED
      BY <2>1, <3>4
  <2>3. CASE original[1] = MOV_EAX_MOFFS32_OPCODE /\ offs = 1
    <3>1. Length(original) = 5
      BY <2>3 DEF Length
    <3>2. code[6] = original[6]
      BY <2>1, <2>3 DEF Final, Converted
    <3> QED
      BY <2>1, <3>1, <3>2
  <2> QED
    BY <2>2, <2>3 DEF Inv, RewriteInv
<1> QED
  BY <1>1, RewriteInvariant, PTL

\* Which movs the comment at boomervomitpatch.cpp:88 is right about: the offset is that of the
\* disp32 exactly for an A1, and for an 8B that has four bytes of displacement and no
\* SIB byte in front of them.
THEOREM OffsetIsRightExactly ==
    Spec => [](pc \notin {"offset", "thrown"} =>
                  (offs = Disp32Offset(original) <=>
                      \/ original[1] = MOV_EAX_MOFFS32_OPCODE
                      \/ DispLength(original) = 4 /\ ~HasSib(original)))
<1>1. Inv => (pc \notin {"offset", "thrown"} =>
                 (offs = Disp32Offset(original) <=>
                     \/ original[1] = MOV_EAX_MOFFS32_OPCODE
                     \/ DispLength(original) = 4 /\ ~HasSib(original)))
  <2> SUFFICES ASSUME Inv, pc \notin {"offset", "thrown"}
               PROVE  offs = Disp32Offset(original) <=>
                         \/ original[1] = MOV_EAX_MOFFS32_OPCODE
                         \/ DispLength(original) = 4 /\ ~HasSib(original)
    OBVIOUS
  <2>1. CASE original[1] = MOV_R32_RM32_OPCODE /\ offs = 2
    BY <2>1 DEF Disp32Offset, MOV_R32_RM32_OPCODE, MOV_EAX_MOFFS32_OPCODE
  <2>2. CASE original[1] = MOV_EAX_MOFFS32_OPCODE /\ offs = 1
    BY <2>2 DEF Disp32Offset
  <2> QED
    BY <2>1, <2>2 DEF Inv, RewriteInv
<1> QED
  BY <1>1, RewriteInvariant, PTL
=============================================================================
