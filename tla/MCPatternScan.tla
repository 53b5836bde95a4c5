--------------------------- MODULE MCPatternScan ----------------------------
(* All patterns of one to three bytes in all memories of four or five bytes, *)
(* for PE, ELF and Mach-O headers that end the window inside and at the end  *)
(* of them.                                                                  *)
EXTENDS PatternScan

MCByte == {"a", "b", "*"}
MCPatterns == UNION {[1..n -> MCByte] : n \in 1..3}
MCImages == UNION {[1..n -> {"a", "b"}] : n \in 4..5}

Code(n) == [wanted |-> TRUE, size |-> n]
Data(n) == [wanted |-> FALSE, size |-> n]
Upto(s) == LET u[n \in 0..Len(s)] ==
                 IF n = 0 THEN 0 ELSE u[n - 1] + (IF s[n].wanted THEN s[n].size ELSE 0)
           IN u
Library(v, f, n, s) == [valid |-> v, format |-> f, imageSize |-> n, segments |-> s, upto |-> Upto(s)]
Pe(v, n) == Library(v, "pe", n, <<>>)
Elf(s) == Library(TRUE, "elf", 0, s)
MachO(s) == Library(TRUE, "mach-o", 0, s)

MCHeaders == {Pe(TRUE, 4), Pe(FALSE, 4), Elf(<<Data(4)>>), Elf(<<Data(1), Code(3)>>),
              Elf(<<Code(2), Code(4)>>), MachO(<<Code(1), Data(4), Code(2)>>)}
=============================================================================
