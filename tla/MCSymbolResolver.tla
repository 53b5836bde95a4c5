-------------------------- MODULE MCSymbolResolver --------------------------
(* One library with any table of up to three entries of two names, some of   *)
(* them twice, another with a small table of its own or none; on Linux the   *)
(* first one's file may be replaced, on Apple the images come in both orders *)
(* or one of them is not loaded.                                             *)
EXTENDS SymbolResolver

CONSTANTS server, engine, exe, a, b

MCLib == {server, engine}
MCName == {a, b}
Upto(n) == UNION {[1..k -> Entry] : k \in 0..n}
Short == <<[name |-> b, eligible |-> TRUE]>>
Contents(hs, es) == [headers : hs, entries : es]

Elf == <<"section", ".symtab", ".strtab">>
Stripped == <<".strtab">>
MachO == {<<"segment", "__LINKEDIT", "LC_SYMTAB">>, <<"LC_SYMTAB", "segment", "__LINKEDIT">>}
NoMachO == {<<"__LINKEDIT", "empty LC_SYMTAB">>, <<"__LINKEDIT">>}

LinuxFiles == {f \in [MCLib -> Contents({Elf, Stripped}, Upto(3))] :
                  f[server].headers = Elf /\ f[engine].entries = Short}
AppleFiles == {f \in [MCLib -> Contents(MachO \cup NoMachO, Upto(2))] :
                  f[server].headers \in MachO /\ f[engine].entries = Short}

MCSystems == [platform : {"linux"}, file : LinuxFiles, images : {<<>>}]
             \cup [platform : {"apple"}, file : AppleFiles,
                   images : {<<exe, server, engine>>, <<exe, engine, server>>, <<server, engine>>}]
MCUpdates == Contents({Elf}, {<<[name |-> a, eligible |-> TRUE]>>,
                              <<[name |-> b, eligible |-> TRUE], [name |-> a, eligible |-> TRUE]>>})
=============================================================================
