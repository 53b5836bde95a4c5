---------------------------- MODULE RateRewrite -----------------------------
(* The bytes of the rate patches: each GeneratePatch of maxrate_patches.cpp  *)
(* checks one byte of the function it has found and covers its upper-bound   *)
(* check with a jump or with no-operations.  sigs.h says what is there on    *)
(* each build; the game calls the function before and after.                 *)
(*                                                                           *)
(* Addresses count from the beginning of the function.  A rate is a value    *)
(* that is or is not above the bound of 30000.                               *)
EXTENDS Integers, Sequences

CONSTANTS Distances,  \* how far the jumps go whose distance sigs.h does not tell
          Others      \* bytes found in a game of another version

Byte == 0..255
Any == -1             \* in an instruction's form: whatever byte

JMP_8_OPCODE == 235   \* 0xEB
JBE_8_OPCODE == 118   \* 0x76
JA_8_OPCODE == 119    \* 0x77
JB_8_OPCODE == 114    \* 0x72
JLE_8_OPCODE == 126   \* 0x7E, only in the comments of sigs.h
CMP_EAX_OPCODE == 61  \* 0x3D
MOVSS_OPCODE == 243   \* 0xF3
MOV_R32_RM32_OPCODE == 139   \* 0x8B
MOV_R32_IMM32_OPCODE == 184  \* 0xB8

ASSUME DistanceAssumption == Distances \subseteq 1..127
ASSUME OthersAssumption ==
    Others \subseteq Byte \ {MOVSS_OPCODE, JA_8_OPCODE, JB_8_OPCODE, CMP_EAX_OPCODE,
                             MOV_R32_IMM32_OPCODE}

Bound == <<48, 117, 0, 0>>        \* 30000
LoadRate == <<243, 15, 16, 68, 36, 4>>       \* movss xmm0, [esp+4]
LoadMax == <<243, 15, 16, 13, 1, 2, 3, 4>>   \* movss xmm1, [the bound]
CompareRates == <<15, 47, 193>>              \* comiss xmm0, xmm1
BoundByMove == <<MOV_R32_IMM32_OPCODE>> \o Bound \o <<129, 250>> \o Bound \o <<15, 78, 194>>

NOP_2 == <<102, 144>>
NOP_3 == <<15, 31, 0>>
NOP_9 == <<102, 15, 31, 132, 0, 0, 0, 0, 0>>

\* The bytes of a sequence, at addresses from a on.
From(a, bytes) == [n \in a..a + Len(bytes) - 1 |-> bytes[n - a + 1]]

\* A function: its bytes around the patch, the byte that is checked and where, what
\* replaces it, where a rate within the bound goes on, and what the result register
\* holds on entry.
Site(bytes, offset, check, replacement, within, holds) ==
    [bytes |-> bytes, offset |-> offset, check |-> check, replacement |-> replacement,
     within |-> within, holds |-> holds]

\* The distance counted from the jump instead of from the byte behind it.
JumpFromItself == <<JMP_8_OPCODE, 29>>

\* CNetChan::SetDataRate, L4D on Windows: over loading and comparing the bound, to
\* the comparison with the lower bound.
JumpToLowerBound == <<JMP_8_OPCODE, 27>>
WinNetChan == Site(From(0, LoadRate \o LoadMax \o CompareRates \o <<JBE_8_OPCODE, 16>>),
                   6, MOVSS_OPCODE, JumpToLowerBound, 35, "other")

\* CGameClient::SetRate, L4D on Windows.
JumpOverCompare == <<JMP_8_OPCODE, 11>>
WinGameClient == Site(From(47, <<CMP_EAX_OPCODE>> \o Bound \o <<JLE_8_OPCODE, 6>>),
                      47, CMP_EAX_OPCODE, JumpOverCompare, 60, "rate")

\* CNetChan::SetDataRate on Linux: the comparison has been made, a jump leads from
\* it to the bound.
LinNetChan(d) == {Site(From(30, <<JA_8_OPCODE, d>>), 30, JA_8_OPCODE, NOP_2, 32, "rate"),
                  Site(From(24, <<JB_8_OPCODE, d>>), 24, JB_8_OPCODE, NOP_2, 26, "rate")}

\* mov eax, edx and a filling as long as the rest.
MoveAndNops == <<MOV_R32_RM32_OPCODE, 194>> \o NOP_9 \o NOP_3

\* CGameClient::SetRate (L4D) and ClampClientRate (L4D, L4D2) on Linux.
LinBoundByMove(offset) ==
    Site(From(offset, BoundByMove), offset, MOV_R32_IMM32_OPCODE, MoveAndNops, offset + 14, "other")

WinSites == {WinNetChan, WinGameClient}
LinNetChans == UNION {LinNetChan(d) : d \in Distances}
LinMoves == {LinBoundByMove(offset) : offset \in {77, 64, 56}}
Sites == WinSites \cup LinNetChans \cup LinMoves

VARIABLES site,      \* the function patched
          found,     \* the library has it
          code,      \* its bytes now
          game,      \* history: the bytes it came with
          original,  \* what the patch object has saved of them
          patch,     \* "none", "thrown", "generated", "applied", "undone"
          ip,        \* the instruction the game is at, or Outside
          above,     \* the rate in this call is above the bound
          flag,      \* the last comparison has said so
          result     \* what the register with the result holds: "rate", "bound", "other"

vars == <<site, found, code, game, original, patch, ip, above, flag, result>>
Outside == -1

\* The addresses that the patch covers.
Covered == site.offset..site.offset + Len(site.replacement) - 1

\* A byte that is not the one promised.
Foreign(s, b) == [s.bytes EXCEPT ![s.offset] = b]

Init ==
    /\ site \in Sites
    /\ found \in BOOLEAN
    /\ code \in {site.bytes} \cup {Foreign(site, b) : b \in Others}
    /\ game = code
    /\ original = [n \in Covered |-> 0]
    /\ patch = "none"
    /\ ip = Outside
    /\ above = FALSE /\ flag = FALSE /\ result = site.holds

-----------------------------------------------------------------------------
\* The signature of WinNetChan covers the bytes that are patched: what is not as it
\* was when the signature was taken is not found.
Findable == found /\ (site = WinNetChan => code = site.bytes)

\* The test for NULL alone.
AcceptedUnread == Findable

\* The function was found, and its checked byte is the one expected.
Accepted == Findable /\ code[site.offset] = site.check

\* The object saves all but the last byte.
GenerateSavesTooFew ==
    /\ ip = Outside
    /\ Accepted
    /\ patch' = "generated"
    /\ original' = [n \in {k \in Covered : k + 1 \in Covered} |-> code[n]]
    /\ UNCHANGED <<site, found, code, game, ip, above, flag, result>>

\* GeneratePatch builds an object that saves what it is to cover, or throws.  Later
\* Loads come here too, also while the patch of an earlier one is applied.
GeneratePatch ==
    /\ ip = Outside
    /\ IF Accepted
         THEN patch' = "generated" /\ original' = [n \in Covered |-> code[n]]
         ELSE /\ patch' = IF patch = "applied" THEN patch ELSE "thrown"
              /\ original' = original
    /\ UNCHANGED <<site, found, code, game, ip, above, flag, result>>

PatchCode ==
    /\ patch = "generated" /\ ip = Outside
    /\ code' = [n \in DOMAIN code |-> IF n \in Covered THEN site.replacement[n - site.offset + 1]
                                                       ELSE code[n]]
    /\ patch' = "applied"
    /\ UNCHANGED <<site, found, game, original, ip, above, flag, result>>

UnpatchCode ==
    /\ patch = "applied" /\ ip = Outside
    /\ code' = [n \in DOMAIN code |-> IF n \in Covered THEN original[n] ELSE code[n]]
    /\ patch' = "undone"
    /\ UNCHANGED <<site, found, game, original, ip, above, flag, result>>

-----------------------------------------------------------------------------
\* The processor.  What an instruction does to the result, and what makes it jump.
Instruction(form, does) == [form |-> form, does |-> does]
Instructions ==
    {Instruction(LoadRate, "take rate"),
     Instruction(<<243, 15, 16, 13, Any, Any, Any, Any>>, "nothing"),
     Instruction(CompareRates, "compare"),
     Instruction(<<CMP_EAX_OPCODE>> \o Bound, "compare"),
     Instruction(<<129, 250>> \o Bound, "compare"),
     Instruction(<<JBE_8_OPCODE, Any>>, "jump if within"),
     Instruction(<<JLE_8_OPCODE, Any>>, "jump if within"),
     Instruction(<<JA_8_OPCODE, Any>>, "jump if above"),
     Instruction(<<JB_8_OPCODE, Any>>, "jump if above"),
     Instruction(<<JMP_8_OPCODE, Any>>, "jump"),
     Instruction(<<MOV_R32_IMM32_OPCODE>> \o Bound, "take bound"),
     Instruction(<<15, 78, 194>>, "take rate if within"),
     Instruction(<<MOV_R32_RM32_OPCODE, 194>>, "take rate"),
     Instruction(NOP_2, "nothing"),
     Instruction(NOP_3, "nothing"),
     Instruction(NOP_9, "nothing")}

IsAt(i, a) == \A n \in 1..Len(i.form) :
                 a + n - 1 \in DOMAIN code /\ i.form[n] \in {Any, code[a + n - 1]}

\* The game calls the function, with some rate; where it begins after a comparison
\* the flag is that comparison's.
Enter ==
    /\ ip = Outside
    /\ ip' \in DOMAIN code /\ \A n \in DOMAIN code : ip' <= n
    /\ above' \in BOOLEAN
    /\ flag' = above'
    /\ result' = site.holds
    /\ UNCHANGED <<site, found, code, game, original, patch>>

Jumps(does) == \/ does = "jump"
               \/ does = "jump if within" /\ ~flag
               \/ does = "jump if above" /\ flag

Takes(does) == IF does = "take rate" \/ (does = "take rate if within" /\ ~flag) THEN "rate"
               ELSE IF does = "take bound" THEN "bound" ELSE result

Execute(i) ==
    /\ ip \in DOMAIN code /\ IsAt(i, ip)
    /\ ip' = ip + Len(i.form) + IF Jumps(i.does) THEN code[ip + 1] ELSE 0
    /\ flag' = IF i.does = "compare" THEN above ELSE flag
    /\ result' = Takes(i.does)
    /\ UNCHANGED <<site, found, code, game, original, patch, above>>

\* The function goes on elsewhere.
Leave ==
    /\ ip # Outside /\ ip \notin DOMAIN code
    /\ ip' = Outside
    /\ UNCHANGED <<site, found, code, game, original, patch, above, flag, result>>

Next == \/ GeneratePatch \/ PatchCode \/ UnpatchCode
        \/ Enter \/ (\E i \in Instructions : Execute(i)) \/ Leave
Spec == Init /\ [][Next]_vars

-----------------------------------------------------------------------------
TypeOK ==
    /\ site \in Sites
    /\ found \in BOOLEAN /\ above \in BOOLEAN /\ flag \in BOOLEAN
    /\ code \in [DOMAIN site.bytes -> Byte] /\ game \in [DOMAIN site.bytes -> Byte]
    /\ original \in [Covered -> Byte]
    /\ patch \in {"none", "thrown", "generated", "applied", "undone"}
    /\ ip \in Int
    /\ result \in {"rate", "bound", "other"}

\* What the patches are for: while one is applied every rate goes the way a rate
\* within the bound goes, and keeps its value; without it only those within do.
\* The game never runs into the middle of an instruction.
LiftsTheBound ==
    game = site.bytes =>
       /\ ip \in DOMAIN code => \E i \in Instructions : IsAt(i, ip)
       /\ ip # Outside /\ ip \notin DOMAIN code =>
             (ip = site.within /\ result = "rate" <=> patch = "applied" \/ ~above)

\* What an object has saved is the game's code, not that of an earlier Load's patch:
\* each replacement changes the byte that GeneratePatch looks at.
SavesGameCode ==
    patch \in {"generated", "applied"} => \A n \in Covered : original[n] = game[n]
=============================================================================
