----------------------------- MODULE MovRewrite -----------------------------
(* How BoomerVomitFrameTimePatch makes a frametime read use g_FakeGlobals:   *)
(* InitializeBinPatches (boomervomitpatch.cpp) takes the six bytes at the    *)
(* read's offset, turns them into a mov from an absolute address with the    *)
(* helpers of misc_asm.h and plugs the address in; the patch object later    *)
(* writes them over the code.                                                *)
EXTENDS Integers, Sequences

CONSTANTS Pointer,    \* &gp_FakeGlobals (&gpp_FakeGlobals in the L4D build): four bytes
          ModRMs,     \* what the byte behind the opcode may be
          Sibs,       \* and the one behind that
          Others      \* opcodes that are neither of the two known movs

Byte == 0..255
MOV_R32_RM32_OPCODE == 139   \* 0x8B
MOV_EAX_MOFFS32_OPCODE == 161   \* 0xA1
MAX_MOV_INSTR_LEN == 6

ASSUME PointerAssumption == Pointer \in [1..4 -> Byte]
ASSUME ByteAssumption == ModRMs \subseteq Byte /\ Sibs \subseteq Byte
ASSUME OpcodeAssumption ==
    Others \subseteq Byte \ {MOV_R32_RM32_OPCODE, MOV_EAX_MOFFS32_OPCODE}

\* The fields of a modrm byte, and of the base in a SIB byte (bits 0-2).
Mod(b) == b \div 64
Reg(b) == (b \div 8) % 8
Rm(b) == b % 8

VARIABLES code,       \* eight bytes from pTarget on
          original,   \* and what they were
          instr_buf,
          offs,
          pc          \* "offset", "copy", "convert", "plug", "patch", "patched", "thrown"

vars == <<code, original, instr_buf, offs, pc>>

Opcodes == Others \cup {MOV_R32_RM32_OPCODE, MOV_EAX_MOFFS32_OPCODE}

\* instr_buf is not initialised; zeroes stand for whatever it holds.
Init ==
    /\ \E op \in Opcodes, m \in ModRMs, s \in Sibs :
          code = <<op, m, s, 11, 12, 13, 14, 15>>
    /\ original = code
    /\ instr_buf = [n \in 1..MAX_MOV_INSTR_LEN |-> 0]
    /\ offs = 0
    /\ pc = "offset"

\* Offsets counted from the first byte as 1.
OffsetFromOne(instr) ==
    IF instr[1] = MOV_R32_RM32_OPCODE THEN 3
    ELSE IF instr[1] = MOV_EAX_MOFFS32_OPCODE THEN 2
    ELSE 0

\* mov_src_operand_offset: 0 for an opcode it does not know.
SrcOperandOffset(instr) ==
    IF instr[1] = MOV_R32_RM32_OPCODE THEN 2
    ELSE IF instr[1] = MOV_EAX_MOFFS32_OPCODE THEN 1
    ELSE 0

\* offs = mov_src_operand_offset(pTarget), and the exception for an unknown opcode.
FindOffset ==
    /\ pc = "offset"
    /\ offs' = SrcOperandOffset(code)
    /\ pc' = IF offs' = 0 THEN "thrown" ELSE "copy"
    /\ UNCHANGED <<code, original, instr_buf>>

\* A copy that ends before the last byte.
CopyTooFew ==
    /\ pc = "copy"
    /\ instr_buf' = [n \in 1..MAX_MOV_INSTR_LEN |->
                        IF n < MAX_MOV_INSTR_LEN THEN code[n] ELSE instr_buf[n]]
    /\ pc' = "convert"
    /\ UNCHANGED <<code, original, offs>>

\* memcpy(instr_buf, pTarget, MAX_MOV_INSTR_LEN)
Copy ==
    /\ pc = "copy"
    /\ instr_buf' = [n \in 1..MAX_MOV_INSTR_LEN |-> code[n]]
    /\ pc' = "convert"
    /\ UNCHANGED <<code, original, offs>>

\* MODRM_SRC_TO_DISP32 with the register bits masked out.
ModrmWithoutReg(b) == 5

\* MODRM_SRC_TO_DISP32: (modrm & 0x38) | 0x05
ModrmSrcToDisp32(b) == 8 * Reg(b) + 5

\* mov_to_disp32(instr_buf)
Convert ==
    /\ pc = "convert"
    /\ instr_buf' = IF instr_buf[1] = MOV_R32_RM32_OPCODE
                    THEN [instr_buf EXCEPT ![2] = ModrmSrcToDisp32(@)]
                    ELSE instr_buf
    /\ pc' = "plug"
    /\ UNCHANGED <<code, original, offs>>

\* *(fakeGlobals ***)(instr_buf + offs) = &gp_FakeGlobals
Plug ==
    /\ pc = "plug"
    /\ instr_buf' = [n \in 1..MAX_MOV_INSTR_LEN |->
                        IF n \in (offs+1)..(offs+4) THEN Pointer[n - offs] ELSE instr_buf[n]]
    /\ pc' = "patch"
    /\ UNCHANGED <<code, original, offs>>

\* The object that is registered here writes all of instr_buf when it is patched.
PatchCode ==
    /\ pc = "patch"
    /\ code' = [n \in DOMAIN code |-> IF n <= MAX_MOV_INSTR_LEN THEN instr_buf[n] ELSE code[n]]
    /\ pc' = "patched"
    /\ UNCHANGED <<original, instr_buf, offs>>

Next == FindOffset \/ Copy \/ Convert \/ Plug \/ PatchCode
Spec == Init /\ [][Next]_vars

-----------------------------------------------------------------------------
\* The processor's view of the known movs: how long an instruction is, which
\* register it loads, and where its 32-bit address is, 0 when it has none.

HasSib(c) == Mod(c[2]) # 3 /\ Rm(c[2]) = 4
\* Bytes of displacement behind modrm and SIB.
DispLength(c) ==
    IF Mod(c[2]) = 1 THEN 1
    ELSE IF Mod(c[2]) = 2 THEN 4
    ELSE IF Mod(c[2]) = 0 /\ (Rm(c[2]) = 5 \/ (HasSib(c) /\ Rm(c[3]) = 5)) THEN 4
    ELSE 0

Length(c) == IF c[1] = MOV_EAX_MOFFS32_OPCODE THEN 5
             ELSE 2 + (IF HasSib(c) THEN 1 ELSE 0) + DispLength(c)

Destination(c) == IF c[1] = MOV_EAX_MOFFS32_OPCODE THEN 0 ELSE Reg(c[2])

\* A load from an absolute address and nothing else, and that address.
IsAbsolute(c) == \/ c[1] = MOV_EAX_MOFFS32_OPCODE
                 \/ c[1] = MOV_R32_RM32_OPCODE /\ Mod(c[2]) = 0 /\ Rm(c[2]) = 5
Disp32Offset(c) ==
    IF c[1] = MOV_EAX_MOFFS32_OPCODE THEN 1
    ELSE IF DispLength(c) = 4 THEN (IF HasSib(c) THEN 3 ELSE 2)
    ELSE 0

-----------------------------------------------------------------------------
TypeOK ==
    /\ code \in [1..8 -> Byte] /\ original \in [1..8 -> Byte]
    /\ instr_buf \in [1..MAX_MOV_INSTR_LEN -> Byte]
    /\ offs \in 0..2
    /\ pc \in {"offset", "copy", "convert", "plug", "patch", "patched", "thrown"}

\* Whatever mov was there, the patched code loads the register the game's code goes
\* on to use, from the address of the plugin's pointer.
ReadsPointer ==
    pc = "patched" =>
       /\ IsAbsolute(code)
       /\ \A n \in 1..4 : code[Disp32Offset(code) + n] = Pointer[n]
       /\ Destination(code) = Destination(original)

\* The patch writes six bytes: it keeps the rest of the function when the mov it
\* replaces is as long as the one it writes (the five bytes of an A1 included).
KeepsTheRest ==
    pc = "patched" /\ Length(original) = Length(code) =>
       \A n \in (Length(original) + 1)..8 : code[n] = original[n]

\* "Find offset of disp32 in this particular mov instruction", and an exception when
\* that cannot be identified: an instruction that is rewritten had its disp32 there.
OffsetIsOfDisp32 == pc \notin {"offset", "thrown"} => offs = Disp32Offset(original)
=============================================================================
