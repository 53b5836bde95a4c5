--------------------------- MODULE SymbolResolver ---------------------------
(* MemoryUtils::ResolveSymbol on Linux and on Apple systems, and             *)
(* SimpleResolve, its only caller, on Linux (memutils.cpp).  Symbol tables   *)
(* are cached, and each search goes on where the one before it has stopped.  *)
(* Linux reads the table from the library's file, which may have been        *)
(* replaced since the library was loaded; Apple reads it from the mapped     *)
(* library, once its image is found in the process.                          *)
(*                                                                           *)
(* A symbol table is a sequence of entries; an address is the position of    *)
(* its entry, 0 is NULL.  dladdr, dlopen, open, fstat and mmap may fail at   *)
(* any call.                                                                 *)
EXTENDS Integers, Sequences, Functions

CONSTANTS Lib,         \* the libraries: each has its own l_addr
          Executable,  \* the image of the process itself
          Name,        \* symbol names
          Systems,     \* what the plugin may run on
          Updates      \* what a library's file may be replaced by

\* What a search for the table comes across: sections of a file on Linux, load
\* commands of an image on Apple.  An LC_SYMTAB with zero offsets has no table.
Header == {".symtab", ".strtab", "section", "__LINKEDIT", "LC_SYMTAB", "empty LC_SYMTAB", "segment"}

\* eligible: defined, and on Linux a function or an object.  An image has one
\* LC_SYMTAB at most.
Entry == [name : Name, eligible : BOOLEAN]
File == [headers : {h \in Seq(Header) : ~({"LC_SYMTAB", "empty LC_SYMTAB"} \subseteq Range(h))},
         entries : Seq(Entry)]
System == [platform : {"linux", "apple"}, file : [Lib -> File],
           images : Seq(Lib \cup {Executable})]

ASSUME SystemsAssumption == Systems \subseteq System
ASSUME UpdatesAssumption == Updates \subseteq File

VARIABLES platform, \* PLATFORM_LINUX or PLATFORM_APPLE
          images,   \* dyld's list of the images in the process
          file,     \* the library files, on Apple the mapped libraries
          replaced, \* history: files that are no longer those that were loaded
          tables,   \* m_SymTables: the libraries that have a table
          cache,    \* LibSymbolTable::table: address of each interned name
          lastPos,  \* LibSymbolTable::last_pos: entries already interned
          pc,       \* where the call is
          lib,      \* its library
          symbol,   \* its symbol
          scan,     \* the image, header or entry the loop is at
          found,    \* the headers it has come across
          answer,   \* the address to return
          held,     \* open resources: references, descriptors, mappings
          failed    \* history: the system has let this call down

fileVars == <<platform, images, file, replaced>>
tableVars == <<tables, cache, lastPos>>
vars == <<fileVars, tableVars, pc, lib, symbol, scan, found, answer, held, failed>>

Linux == platform = "linux"
Entries(l) == file[l].entries
NoResources == [handle |-> 0, fd |-> 0, map |-> 0]

Init ==
    /\ \E s \in Systems : platform = s.platform /\ file = s.file /\ images = s.images
    /\ replaced = {}
    /\ tables = {}
    /\ cache = [l \in Lib |-> <<>>]
    /\ lastPos = [l \in Lib |-> 0]
    /\ pc = "idle"
    /\ lib \in Lib /\ symbol \in Name
    /\ scan = 1 /\ found = {} /\ answer = 0
    /\ held = NoResources
    /\ failed = FALSE

-----------------------------------------------------------------------------
\* Outside a call.

\* An update of the game writes a new file.  One that is open or mapped is read
\* to the end as it was: replacing it then is replacing it afterwards.
ReplaceFile(l) ==
    /\ Linux
    /\ held.fd = 0 /\ held.map = 0
    /\ file' \in {[file EXCEPT ![l] = u] : u \in Updates}
    /\ replaced' = replaced \cup {l}
    /\ UNCHANGED <<platform, images, tableVars, pc, lib, symbol, scan, found, answer, held, failed>>

\* ~MemoryUtils deletes the tables as the plugin is unmapped; the next mapping
\* starts with none.
Remap ==
    /\ pc = "idle"
    /\ tables' = {}
    /\ cache' = [l \in Lib |-> <<>>]
    /\ lastPos' = [l \in Lib |-> 0]
    /\ UNCHANGED <<fileVars, pc, lib, symbol, scan, found, answer, held, failed>>

\* SimpleResolve(pBaseAddr, symbol) with pBaseAddr in library l; on Apple
\* ResolveSymbol(handle, symbol) with a handle of l.
Call(l, n) ==
    /\ pc = "idle"
    /\ lib' = l /\ symbol' = n
    /\ answer' = 0 /\ failed' = FALSE
    /\ IF Linux THEN pc' = "dlopen" /\ scan' = scan
                ELSE pc' = "images" /\ scan' = 2
    /\ UNCHANGED <<fileVars, tableVars, found, held>>

-----------------------------------------------------------------------------
\* The library's base: dladdr and dlopen on Linux.

\* The reference is dropped again by dlclose.
OpenHandle ==
    /\ pc = "dlopen"
    /\ held' = [held EXCEPT !.handle = @ + 1]
    /\ pc' = "table"
    /\ UNCHANGED <<fileVars, tableVars, lib, symbol, scan, found, answer, failed>>

\* dlclose also when dlopen has returned NULL.
HandleFailsCloses ==
    /\ pc = "dlopen"
    /\ held' = [held EXCEPT !.handle = @ - 1]
    /\ failed' = TRUE
    /\ pc' = "idle"
    /\ UNCHANGED <<fileVars, tableVars, lib, symbol, scan, found, answer>>

HandleFails ==
    /\ pc = "dlopen"
    /\ failed' = TRUE
    /\ pc' = "idle"
    /\ UNCHANGED <<fileVars, tableVars, lib, symbol, scan, found, answer, held>>

\* On Apple the images are opened with RTLD_NOLOAD, the executable's excepted,
\* until one has the handle.
OpenImage ==
    /\ pc = "images"
    /\ scan <= Len(images)
    /\ held' = [held EXCEPT !.handle = @ + 1]
    /\ pc' = "opened"
    /\ UNCHANGED <<fileVars, tableVars, lib, symbol, scan, found, answer, failed>>

\* NULL is not the handle, and closing it does nothing.
ImageFails ==
    /\ pc = "images"
    /\ scan <= Len(images)
    /\ scan' = scan + 1
    /\ UNCHANGED <<fileVars, tableVars, pc, lib, symbol, found, answer, held, failed>>

CloseImage ==
    /\ pc = "opened"
    /\ held' = [held EXCEPT !.handle = @ - 1]
    /\ IF images[scan] = lib THEN pc' = "table" /\ scan' = scan
                             ELSE pc' = "images" /\ scan' = scan + 1
    /\ UNCHANGED <<fileVars, tableVars, lib, symbol, found, answer, failed>>

\* The handle is of no image that could be opened.
ImagesEnd ==
    /\ pc = "images"
    /\ scan > Len(images)
    /\ failed' = TRUE
    /\ pc' = "return"
    /\ UNCHANGED <<fileVars, tableVars, lib, symbol, scan, found, answer, held>>

-----------------------------------------------------------------------------
\* A table that is never found again: each call makes a new one.
LookUpAnew ==
    /\ pc = "table"
    /\ tables' = tables \cup {lib}
    /\ cache' = [cache EXCEPT ![lib] = <<>>]
    /\ lastPos' = [lastPos EXCEPT ![lib] = 0]
    /\ scan' = 1 /\ found' = {}
    /\ pc' = IF Linux THEN "open" ELSE "headers"
    /\ UNCHANGED <<fileVars, lib, symbol, answer, held, failed>>

\* The table of the library, a new one if there is none, and the cached symbol.
LookUp ==
    /\ pc = "table"
    /\ tables' = tables \cup {lib}
    /\ scan' = 1 /\ found' = {}
    /\ IF lib \in tables /\ symbol \in DOMAIN cache[lib]
         THEN answer' = cache[lib][symbol] /\ pc' = "return"
         ELSE answer' = answer /\ pc' = IF Linux THEN "open" ELSE "headers"
    /\ UNCHANGED <<fileVars, cache, lastPos, lib, symbol, held, failed>>

OpenFile ==
    /\ pc = "open"
    /\ held' = [held EXCEPT !.fd = @ + 1]
    /\ pc' = "fstat"
    /\ UNCHANGED <<fileVars, tableVars, lib, symbol, scan, found, answer, failed>>

\* open fails (the close that follows is of descriptor -1).
OpenFails ==
    /\ pc = "open"
    /\ failed' = TRUE
    /\ pc' = "return"
    /\ UNCHANGED <<fileVars, tableVars, lib, symbol, scan, found, answer, held>>

\* fstat and mmap succeed: the descriptor is closed, the mapping stays.
MapFile ==
    /\ pc = "fstat"
    /\ held' = [handle |-> held.handle, fd |-> held.fd - 1, map |-> held.map + 1]
    /\ pc' = "headers"
    /\ UNCHANGED <<fileVars, tableVars, lib, symbol, scan, found, answer, failed>>

\* The descriptor is not closed when fstat or mmap fails.
MapFailsOpen ==
    /\ pc = "fstat"
    /\ failed' = TRUE
    /\ pc' = "return"
    /\ UNCHANGED <<fileVars, tableVars, lib, symbol, scan, found, answer, held>>

\* fstat or mmap fails.
MapFails ==
    /\ pc = "fstat"
    /\ held' = [held EXCEPT !.fd = @ - 1]
    /\ failed' = TRUE
    /\ pc' = "return"
    /\ UNCHANGED <<fileVars, tableVars, lib, symbol, scan, found, answer>>

\* The headers a table needs.
Needed == IF Linux THEN {".symtab", ".strtab"} ELSE {"__LINKEDIT", "LC_SYMTAB"}

\* On Linux all sections are looked at; on Apple the walk breaks off when it has
\* seen both load commands.
Breaks ==
    /\ ~Linux
    /\ "__LINKEDIT" \in found
    /\ found \cap {"LC_SYMTAB", "empty LC_SYMTAB"} # {}

WalkHeader ==
    /\ pc = "headers"
    /\ scan <= Len(file[lib].headers) /\ ~Breaks
    /\ found' = found \cup {file[lib].headers[scan]}
    /\ scan' = scan + 1
    /\ UNCHANGED <<fileVars, tableVars, pc, lib, symbol, answer, held, failed>>

\* Without a table NULL is returned, with one the loop starts at last_pos.
HeadersEnd ==
    /\ pc = "headers"
    /\ Breaks \/ scan > Len(file[lib].headers)
    /\ IF Needed \subseteq found
         THEN pc' = "scan" /\ scan' = lastPos[lib] + 1 /\ held' = held
         ELSE /\ pc' = "return" /\ scan' = scan
              /\ held' = IF Linux THEN [held EXCEPT !.map = @ - 1] ELSE held
    /\ UNCHANGED <<fileVars, tableVars, lib, symbol, found, answer, failed>>

\* InternSymbol (SourceMod's sm_symtable.h): a name that is there already keeps
\* the address it has.
Intern(l, k) ==
    LET name == Entries(l)[k].name IN
    IF name \in DOMAIN cache[l] THEN cache
    ELSE [cache EXCEPT ![l] = [n \in DOMAIN @ \cup {name} |-> IF n = name THEN k ELSE @[n]]]

\* Only Linux has mapped the file.
Scanned == IF Linux THEN "munmap" ELSE "return"

\* The loop is continued without the increment.
SkipStuck ==
    /\ pc = "scan"
    /\ scan <= Len(Entries(lib)) /\ ~Entries(lib)[scan].eligible
    /\ UNCHANGED vars

\* One turn of the loop over the symbol table.
Skip ==
    /\ pc = "scan"
    /\ scan <= Len(Entries(lib)) /\ ~Entries(lib)[scan].eligible
    /\ scan' = scan + 1
    /\ UNCHANGED <<fileVars, tableVars, pc, lib, symbol, found, answer, held, failed>>

\* Only the wanted symbol is cached.
PassOther ==
    /\ pc = "scan"
    /\ scan <= Len(Entries(lib)) /\ Entries(lib)[scan].eligible
    /\ Entries(lib)[scan].name # symbol
    /\ scan' = scan + 1
    /\ UNCHANGED <<fileVars, tableVars, pc, lib, symbol, found, answer, held, failed>>

InternOther ==
    /\ pc = "scan"
    /\ scan <= Len(Entries(lib)) /\ Entries(lib)[scan].eligible
    /\ Entries(lib)[scan].name # symbol
    /\ cache' = Intern(lib, scan)
    /\ scan' = scan + 1
    /\ UNCHANGED <<fileVars, tables, lastPos, pc, lib, symbol, found, answer, held, failed>>

\* last_pos one entry too far.
InternWantedSkips ==
    /\ pc = "scan"
    /\ scan <= Len(Entries(lib)) /\ Entries(lib)[scan].eligible
    /\ Entries(lib)[scan].name = symbol
    /\ cache' = Intern(lib, scan)
    /\ answer' = cache'[lib][symbol]
    /\ lastPos' = [lastPos EXCEPT ![lib] = scan + 1]
    /\ pc' = Scanned
    /\ UNCHANGED <<fileVars, tables, lib, symbol, scan, found, held, failed>>

InternWanted ==
    /\ pc = "scan"
    /\ scan <= Len(Entries(lib)) /\ Entries(lib)[scan].eligible
    /\ Entries(lib)[scan].name = symbol
    /\ cache' = Intern(lib, scan)
    /\ answer' = cache'[lib][symbol]
    /\ lastPos' = [lastPos EXCEPT ![lib] = scan]
    /\ pc' = Scanned
    /\ UNCHANGED <<fileVars, tables, lib, symbol, scan, found, held, failed>>

\* The loop runs off the table: last_pos keeps its value.
ScanEnds ==
    /\ pc = "scan"
    /\ scan > Len(Entries(lib))
    /\ pc' = Scanned
    /\ UNCHANGED <<fileVars, tableVars, lib, symbol, scan, found, answer, held, failed>>

Unmap ==
    /\ pc = "munmap"
    /\ held' = [held EXCEPT !.map = @ - 1]
    /\ pc' = "return"
    /\ UNCHANGED <<fileVars, tableVars, lib, symbol, scan, found, answer, failed>>

\* SimpleResolve drops its reference; on Apple the handle is the caller's.
CloseHandle ==
    /\ pc = "return"
    /\ held' = IF Linux THEN [held EXCEPT !.handle = @ - 1] ELSE held
    /\ pc' = "idle"
    /\ UNCHANGED <<fileVars, tableVars, lib, symbol, scan, found, answer, failed>>

Step == \/ OpenHandle \/ HandleFails
        \/ OpenImage \/ ImageFails \/ CloseImage \/ ImagesEnd
        \/ LookUp \/ OpenFile \/ OpenFails \/ MapFile \/ MapFails
        \/ WalkHeader \/ HeadersEnd
        \/ Skip \/ InternOther \/ InternWanted \/ ScanEnds \/ Unmap \/ CloseHandle
Next == Step \/ Remap \/ \E l \in Lib : ReplaceFile(l) \/ \E n \in Name : Call(l, n)

Spec == Init /\ [][Next]_vars
FairSpec == Spec /\ WF_vars(Step)

-----------------------------------------------------------------------------
Places == {"idle", "dlopen", "images", "opened", "table", "open", "fstat", "headers", "scan",
           "munmap", "return"}

TypeOK ==
    /\ platform \in {"linux", "apple"}
    /\ images \in Seq(Lib \cup {Executable})
    /\ file \in [Lib -> File]
    /\ replaced \subseteq Lib
    /\ tables \subseteq Lib
    /\ lastPos \in [Lib -> Nat]
    /\ DOMAIN cache = Lib
    /\ \A l \in Lib : /\ DOMAIN cache[l] \subseteq Name
                      /\ \A n \in DOMAIN cache[l] : cache[l][n] \in Nat
    /\ pc \in Places
    /\ lib \in Lib /\ symbol \in Name
    /\ scan \in Nat \ {0} /\ found \subseteq Header /\ answer \in Nat
    /\ held \in [handle : Nat, fd : Nat, map : Nat]
    /\ failed \in BOOLEAN

\* l has a symbol table.
HasTable(l) == Needed \subseteq Range(file[l].headers)

\* k is the first entry of l that the loader could mean by n.
IsFirst(l, n, k) ==
    /\ k \in DOMAIN Entries(l)
    /\ Entries(l)[k].eligible /\ Entries(l)[k].name = n
    /\ \A j \in 1..k - 1 : Entries(l)[j].eligible => Entries(l)[j].name # n

Absent(l, n) ==
    \A k \in DOMAIN Entries(l) : Entries(l)[k].eligible => Entries(l)[k].name # n

\* Whatever was looked up before, in whatever order, and whichever of those calls
\* failed half way: a call that is not let down by the system returns the first
\* eligible entry of that name, and NULL only if there is none; a call that is
\* let down returns NULL.  On Linux this is so while the file is the one loaded.
AnswersFirst ==
    pc = "return" =>
       /\ failed => answer = 0
       /\ ~failed /\ lib \notin replaced =>
             IF HasTable(lib) THEN IsFirst(lib, symbol, answer) \/ (answer = 0 /\ Absent(lib, symbol))
                              ELSE answer = 0

\* Entries before last_pos are never read again, so each name among them must be
\* in the cache, at its first entry.
CacheCoversSkipped ==
    \A l \in Lib \ replaced :
       /\ \A n \in DOMAIN cache[l] : IsFirst(l, n, cache[l][n])
       /\ \A k \in DOMAIN Entries(l) :
             k <= lastPos[l] /\ Entries(l)[k].eligible => Entries(l)[k].name \in DOMAIN cache[l]

\* The address a symbol has been given is the one it is given for as long as the
\* plugin is mapped, also when an update has meanwhile replaced the library's file:
\* a second Load finds its functions where the first has patched them.
\* Whether it was right is AnswersFirst's question: one read from a replaced file is
\* relative to that file, and the code has no means to notice.
AnswersAreStable ==
    /\ [](pc = "return" /\ answer # 0 =>
             symbol \in DOMAIN cache[lib] /\ answer = cache[lib][symbol])
    /\ [][Remap \/ \A l \in Lib : \A n \in DOMAIN cache[l] :
             n \in DOMAIN cache'[l] /\ cache'[l][n] = cache[l][n]]_vars

\* Every path out of the two functions gives back what it has taken.
NoLeak == pc = "idle" => held = NoResources

\* Every call returns.
CallsReturn == pc # "idle" ~> pc = "idle"
=============================================================================
