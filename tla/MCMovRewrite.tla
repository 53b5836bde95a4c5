---------------------------- MODULE MCMovRewrite ----------------------------
(* Every modrm byte, SIB bytes with and without a base, and two opcodes the  *)
(* helpers do not know: mov eax, imm32 (0xB8) and mov r/m32, r32 (0x89).     *)
EXTENDS MovRewrite

MCPointer == <<201, 202, 203, 204>>
MCModRMs == Byte
MCSibs == {36, 37}
MCOthers == {184, 137}
=============================================================================
