------------------------ MODULE SymbolResolverProofs ------------------------
(* The cached, resumed symbol search answers as a fresh one would, for every *)
(* set of libraries, every symbol table and every history of calls.          *)
EXTENDS SymbolResolver, TLAPS

\* What the calls hold at each place.
HeldAt(place) ==
    [handle |-> IF Linux THEN IF place \in {"idle", "dlopen"} THEN 0 ELSE 1
                         ELSE IF place = "opened" THEN 1 ELSE 0,
     fd     |-> IF place = "fstat" THEN 1 ELSE 0,
     map    |-> IF Linux /\ place \in {"headers", "scan", "munmap"} THEN 1 ELSE 0]

\* The entries before k have been interned.
CoveredBefore(l, k) ==
    \A j \in DOMAIN Entries(l) :
       j < k /\ Entries(l)[j].eligible => Entries(l)[j].name \in DOMAIN cache[l]

\* The address a complete search has come to is the right one.
Right(l, n, k) == IsFirst(l, n, k) \/ (k = 0 /\ Absent(l, n))

\* The tables between calls.
CacheInv ==
    /\ TypeOK
    /\ CacheCoversSkipped
    /\ \A l \in Lib : l \notin tables => DOMAIN cache[l] = {}
    /\ \A l \in Lib \ replaced : ~HasTable(l) => DOMAIN cache[l] = {}

\* What a call has answered is what the table says.
AnswerCached ==
    pc \in {"munmap", "return"} /\ answer # 0 =>
       symbol \in DOMAIN cache[lib] /\ answer = cache[lib][symbol]

\* The call under way: it has found no answer yet and the symbol is not cached
\* when the table is read; a scan interns all it passes.
CallInv ==
    /\ held = HeldAt(pc)
    /\ pc \in {"dlopen", "open", "fstat", "munmap"} => Linux
    /\ pc \in {"images", "opened"} => ~Linux
    /\ pc \notin {"idle", "munmap", "return"} => answer = 0 /\ ~failed
    /\ pc \in {"open", "fstat", "headers", "scan"} =>
          lib \in tables /\ symbol \notin DOMAIN cache[lib]
    /\ pc \in {"open", "fstat"} => scan = 1 /\ found = {}
    /\ pc = "headers" => /\ found = {file[lib].headers[k] : k \in 1..scan - 1}
                         /\ scan <= Len(file[lib].headers) + 1
    /\ pc \in {"scan", "munmap"} /\ lib \notin replaced => HasTable(lib)
    /\ pc = "scan" /\ lib \notin replaced => CoveredBefore(lib, scan)
    /\ pc = "munmap" => ~failed /\ (lib \notin replaced => Right(lib, symbol, answer))
    /\ AnswersFirst
    /\ AnswerCached

ResolverInv == CacheInv /\ CallInv

\* A symbol table is a sequence of entries, numbered from 1.
LEMMA EntriesType ==
    ASSUME TypeOK, NEW l \in Lib
    PROVE  /\ Entries(l) \in Seq(Entry) /\ Len(Entries(l)) \in Nat
           /\ DOMAIN Entries(l) = 1..Len(Entries(l))
           /\ \A k \in DOMAIN Entries(l) :
                 k \in Nat /\ k >= 1 /\ k <= Len(Entries(l)) /\ Entries(l)[k].name \in Name
<1>1. file[l] \in File
  BY DEF TypeOK
<1>2. Entries(l) \in Seq(Entry)
  BY <1>1 DEF File, Entries
<1>3. \A k \in DOMAIN Entries(l) : k \in Nat /\ k >= 1 /\ k <= Len(Entries(l)) /\ Entries(l)[k] \in Entry
  BY <1>2
<1>4. QED
  BY <1>2, <1>3 DEF Entry

\* So are the headers, and no image has a good and an empty LC_SYMTAB.
LEMMA HeadersType ==
    ASSUME TypeOK, NEW l \in Lib
    PROVE  /\ file[l].headers \in Seq(Header) /\ Len(file[l].headers) \in Nat
           /\ DOMAIN file[l].headers = 1..Len(file[l].headers)
           /\ ~({"LC_SYMTAB", "empty LC_SYMTAB"} \subseteq Range(file[l].headers))
<1>1. file[l] \in File
  BY DEF TypeOK
<1>2. /\ file[l].headers \in Seq(Header)
      /\ ~({"LC_SYMTAB", "empty LC_SYMTAB"} \subseteq Range(file[l].headers))
  BY <1>1 DEF File
<1>3. \A s \in Seq(Header) : Len(s) \in Nat /\ DOMAIN s = 1..Len(s)
  OBVIOUS
<1>4. QED
  BY <1>2, <1>3

\* A scan that has not run off the table is at an entry of it.
LEMMA ScanType ==
    ASSUME TypeOK, scan <= Len(Entries(lib))
    PROVE  lib \in Lib /\ scan \in Nat /\ scan \in DOMAIN Entries(lib)
<1>1. lib \in Lib /\ scan \in Nat \ {0}
  BY DEF TypeOK
<1>2. QED
  BY <1>1, EntriesType

\* The initial state satisfies the invariant.
LEMMA ResolverInit == Init => ResolverInv
<1> SUFFICES ASSUME Init PROVE ResolverInv
  OBVIOUS
<1>1. cache = [l \in Lib |-> <<>>] /\ \A l \in Lib : DOMAIN cache[l] = {}
  BY DEF Init
<1>2. CacheInv
  <2>1. PICK s \in Systems : platform = s.platform /\ file = s.file /\ images = s.images
    BY DEF Init
  <2>2. file \in [Lib -> File] /\ platform \in {"linux", "apple"} /\ images \in Seq(Lib \cup {Executable})
    BY <2>1, SystemsAssumption DEF System
  <2>3. lastPos \in [Lib -> Nat] /\ DOMAIN cache = Lib /\ \A l \in Lib : lastPos[l] = 0
    BY <1>1 DEF Init
  <2>4. held \in [handle : Nat, fd : Nat, map : Nat]
    BY DEF Init, NoResources
  <2>5. failed \in BOOLEAN
    BY Zenon DEF Init
  <2>6. TypeOK
    BY <1>1, <2>2, <2>3, <2>4, <2>5 DEF Init, TypeOK, Places
  <2>7. \A l \in Lib : \A k \in DOMAIN Entries(l) : ~(k <= lastPos[l])
    BY <2>3, <2>6, EntriesType
  <2>8. CacheCoversSkipped
    BY <1>1, <2>7 DEF CacheCoversSkipped
  <2>9. QED
    BY <1>1, <2>6, <2>8 DEF CacheInv
<1>3. CallInv
  BY DEF Init, CallInv, HeldAt, NoResources, AnswersFirst, AnswerCached
<1>4. QED
  BY <1>2, <1>3 DEF ResolverInv

\* Steps that leave the files, the tables' contents and last_pos alone.
LEMMA CacheKept ==
    ASSUME CacheInv, UNCHANGED <<fileVars, cache, lastPos>>, tables \subseteq tables', TypeOK'
    PROVE  CacheInv'
<1>1. CacheCoversSkipped'
  BY DEF CacheInv, CacheCoversSkipped, IsFirst, Entries, fileVars
<1>2. \A l \in Lib : HasTable(l)' <=> HasTable(l)
  BY DEF HasTable, Needed, Linux, fileVars
<1>3. QED
  BY <1>1, <1>2 DEF CacheInv, fileVars

\* What InternSymbol does to the tables: entry k is in that of l, and no address
\* given before is another one.
LEMMA InternKeeps ==
    ASSUME TypeOK, NEW l \in Lib, NEW k \in DOMAIN Entries(l), cache' = Intern(l, k)
    PROVE  /\ DOMAIN cache' = Lib
           /\ \A m \in Lib \ {l} : cache'[m] = cache[m]
           /\ DOMAIN cache'[l] = DOMAIN cache[l] \cup {Entries(l)[k].name}
           /\ \A n \in DOMAIN cache'[l] : cache'[l][n] \in Nat
           /\ \A n \in DOMAIN cache[l] : cache'[l][n] = cache[l][n]
           /\ Entries(l)[k].name \in Name
           /\ Entries(l)[k].name \notin DOMAIN cache[l] => cache'[l][Entries(l)[k].name] = k
<1> DEFINE name == Entries(l)[k].name
<1>1. name \in Name /\ k \in Nat
  BY EntriesType
<1>2. CASE name \in DOMAIN cache[l]
  BY <1>1, <1>2 DEF Intern, TypeOK
<1>3. CASE name \notin DOMAIN cache[l]
  <2>1. cache' = [cache EXCEPT ![l] =
                     [n \in DOMAIN cache[l] \cup {name} |-> IF n = name THEN k ELSE cache[l][n]]]
    BY <1>3 DEF Intern
  <2>2. /\ DOMAIN cache' = Lib
        /\ \A m \in Lib \ {l} : cache'[m] = cache[m]
        /\ cache'[l] = [n \in DOMAIN cache[l] \cup {name} |-> IF n = name THEN k ELSE cache[l][n]]
    BY <2>1 DEF TypeOK
  <2>3. QED
    BY <1>1, <1>3, <2>2 DEF TypeOK
<1>4. QED
  BY <1>2, <1>3

\* If l's file is still the one loaded and every eligible entry before k is in the
\* table, the table stays right.
LEMMA InternRight ==
    ASSUME CacheInv, NEW l \in Lib \ replaced, NEW k \in DOMAIN Entries(l), CoveredBefore(l, k),
           Entries(l)[k].eligible, cache' = Intern(l, k)
    PROVE  \A n \in DOMAIN cache'[l] : IsFirst(l, n, cache'[l][n])
<1> DEFINE name == Entries(l)[k].name
<1>1. /\ DOMAIN cache'[l] = DOMAIN cache[l] \cup {name}
      /\ \A n \in DOMAIN cache[l] : cache'[l][n] = cache[l][n]
      /\ name \notin DOMAIN cache[l] => cache'[l][name] = k
  BY InternKeeps DEF CacheInv
<1>2. \A n \in DOMAIN cache[l] : IsFirst(l, n, cache[l][n])
  BY DEF CacheInv, CacheCoversSkipped
<1>3. name \notin DOMAIN cache[l] => IsFirst(l, name, k)
  BY EntriesType DEF CacheInv, IsFirst, CoveredBefore
<1>4. QED
  BY <1>1, <1>2, <1>3

\* A scan interns an entry that is not the wanted one.
LEMMA InternOtherInv ==
    ASSUME ResolverInv, InternOther
    PROVE  ResolverInv'
<1>1. /\ lib \in Lib /\ scan \in DOMAIN Entries(lib) /\ (lib \notin replaced => CoveredBefore(lib, scan))
      /\ Entries(lib)[scan].eligible /\ Entries(lib)[scan].name # symbol
      /\ lib \in tables
      /\ cache' = Intern(lib, scan) /\ scan' = scan + 1 /\ pc = "scan"
      /\ UNCHANGED <<fileVars, tables, lastPos, pc, lib, symbol, found, answer, held, failed>>
  BY ScanType DEF ResolverInv, CacheInv, CallInv, InternOther
<1>2. /\ DOMAIN cache' = Lib
      /\ \A m \in Lib \ {lib} : cache'[m] = cache[m]
      /\ DOMAIN cache'[lib] = DOMAIN cache[lib] \cup {Entries(lib)[scan].name}
      /\ \A n \in DOMAIN cache'[lib] : cache'[lib][n] \in Nat
      /\ Entries(lib)[scan].name \in Name
      /\ lib \notin replaced => \A n \in DOMAIN cache'[lib] : IsFirst(lib, n, cache'[lib][n])
  BY <1>1, InternKeeps, InternRight DEF ResolverInv, CacheInv
<1>3. TypeOK'
  BY <1>1, <1>2 DEF ResolverInv, CacheInv, TypeOK, fileVars
<1>4. CacheCoversSkipped'
  BY <1>1, <1>2 DEF ResolverInv, CacheInv, CacheCoversSkipped, IsFirst, Entries, fileVars
<1>5. \A l \in Lib : HasTable(l)' <=> HasTable(l)
  BY <1>1 DEF HasTable, Needed, Linux, fileVars
<1>6. CacheInv'
  <2>1. lib \notin replaced => HasTable(lib)
    BY <1>1 DEF ResolverInv, CallInv
  <2>2. QED
    BY <1>1, <1>2, <1>3, <1>4, <1>5, <2>1 DEF ResolverInv, CacheInv, fileVars
<1>7. lib \notin replaced => CoveredBefore(lib, scan)'
  <2>1. \A j \in DOMAIN Entries(lib) : j < scan + 1 => j < scan \/ j = scan
    BY <1>1, EntriesType DEF ResolverInv, CacheInv, TypeOK
  <2>2. QED
    BY <1>1, <1>2, <2>1 DEF CoveredBefore, Entries, fileVars
<1>8. CallInv'
  <2>1. symbol \notin DOMAIN cache'[lib]
    BY <1>1, <1>2 DEF ResolverInv, CallInv
  <2>2. held' = HeldAt(pc)'
    BY <1>1 DEF ResolverInv, CallInv, HeldAt, Linux, fileVars
  <2>3. QED
    BY <1>1, <1>5, <1>7, <2>1, <2>2 DEF ResolverInv, CallInv, AnswersFirst, AnswerCached, fileVars
<1>9. QED
  BY <1>6, <1>8 DEF ResolverInv

\* A scan interns the wanted entry, and everything up to it is in the table.
LEMMA InternWantedInv ==
    ASSUME ResolverInv, InternWanted
    PROVE  ResolverInv'
<1>1. /\ lib \in Lib /\ scan \in DOMAIN Entries(lib) /\ scan \in Nat
      /\ (lib \notin replaced => CoveredBefore(lib, scan))
      /\ Entries(lib)[scan].eligible /\ Entries(lib)[scan].name = symbol
      /\ lib \in tables /\ symbol \notin DOMAIN cache[lib] /\ ~failed /\ pc = "scan"
      /\ cache' = Intern(lib, scan) /\ answer' = cache'[lib][symbol]
      /\ lastPos' = [lastPos EXCEPT ![lib] = scan] /\ pc' = Scanned
      /\ UNCHANGED <<fileVars, tables, lib, symbol, scan, found, held, failed>>
  BY ScanType DEF ResolverInv, CacheInv, CallInv, InternWanted
<1>2. /\ DOMAIN cache' = Lib
      /\ \A m \in Lib \ {lib} : cache'[m] = cache[m]
      /\ DOMAIN cache'[lib] = DOMAIN cache[lib] \cup {symbol}
      /\ \A n \in DOMAIN cache'[lib] : cache'[lib][n] \in Nat
      /\ symbol \in Name
      /\ answer' = scan
      /\ lib \notin replaced => \A n \in DOMAIN cache'[lib] : IsFirst(lib, n, cache'[lib][n])
  BY <1>1, InternKeeps, InternRight DEF ResolverInv, CacheInv
<1>3. TypeOK'
  BY <1>1, <1>2 DEF ResolverInv, CacheInv, TypeOK, Places, Scanned, fileVars
<1>4. CacheCoversSkipped'
  <2> SUFFICES ASSUME NEW l \in Lib \ replaced
               PROVE  /\ \A n \in DOMAIN cache'[l] : IsFirst(l, n, cache[l][n])'
                      /\ \A k \in DOMAIN Entries(l) :
                            k <= lastPos'[l] /\ Entries(l)[k].eligible
                            => Entries(l)[k].name \in DOMAIN cache'[l]
    BY <1>1 DEF CacheCoversSkipped, Entries, fileVars
  <2>1. \A n \in DOMAIN cache'[l] : IsFirst(l, n, cache'[l][n])
    BY <1>2 DEF ResolverInv, CacheInv, CacheCoversSkipped
  <2>2. \A n \in DOMAIN cache'[l] : IsFirst(l, n, cache[l][n])'
    BY <1>1, <2>1 DEF IsFirst, Entries, fileVars
  <2>3. CASE l = lib
    <3>1. lastPos'[l] = scan
      BY <1>1, <2>3 DEF ResolverInv, CacheInv, TypeOK
    <3>2. \A j \in DOMAIN Entries(lib) : j <= scan => j < scan \/ j = scan
      BY <1>1, EntriesType DEF ResolverInv, CacheInv
    <3>3. QED
      BY <1>1, <1>2, <2>2, <2>3, <3>1, <3>2 DEF CoveredBefore
  <2>4. CASE l # lib
    <3>1. lastPos'[l] = lastPos[l] /\ cache'[l] = cache[l]
      BY <1>1, <1>2, <2>4 DEF ResolverInv, CacheInv, TypeOK
    <3>2. QED
      BY <2>2, <3>1 DEF ResolverInv, CacheInv, CacheCoversSkipped
  <2>5. QED
    BY <2>3, <2>4
<1>5. \A l \in Lib : HasTable(l)' <=> HasTable(l)
  BY <1>1 DEF HasTable, Needed, Linux, fileVars
<1>6. lib \notin replaced => HasTable(lib)
  BY <1>1 DEF ResolverInv, CallInv
<1>7. CacheInv'
  BY <1>1, <1>2, <1>3, <1>4, <1>5, <1>6 DEF ResolverInv, CacheInv, fileVars
<1>8. CallInv'
  <2>1. lib \notin replaced => IsFirst(lib, symbol, answer)'
    <3>1. lib \notin replaced => IsFirst(lib, symbol, scan)
      BY <1>1, EntriesType DEF IsFirst, CoveredBefore, ResolverInv, CacheInv
    <3>2. QED
      BY <1>1, <1>2, <3>1 DEF IsFirst, Entries, fileVars
  <2>2. held' = HeldAt(pc)'
    BY <1>1 DEF ResolverInv, CallInv, Scanned, HeldAt, Linux, fileVars
  <2>3. symbol' \in DOMAIN cache'[lib'] /\ answer' = cache'[lib'][symbol']
    BY <1>1, <1>2
  <2>4. pc' = "munmap" => Linux'
    BY <1>1 DEF Scanned, Linux, fileVars
  <2>5. pc' \in {"munmap", "return"}
    BY <1>1 DEF Scanned
  <2>6. QED
    BY <1>1, <1>5, <1>6, <2>1, <2>2, <2>3, <2>4, <2>5
       DEF CallInv, AnswersFirst, AnswerCached, Right, fileVars
<1>9. QED
  BY <1>7, <1>8 DEF ResolverInv

\* A scan passes an entry that does not count.
LEMMA SkipInv ==
    ASSUME ResolverInv, Skip
    PROVE  ResolverInv'
<1>1. TypeOK'
  BY DEF ResolverInv, CacheInv, TypeOK, Skip, fileVars, tableVars
<1>2. CacheInv'
  BY <1>1, CacheKept DEF ResolverInv, Skip, tableVars
<1>3. lib \notin replaced => CoveredBefore(lib, scan)'
  <2>1. lib \in Lib /\ scan \in Nat
    BY DEF ResolverInv, CacheInv, TypeOK
  <2>2. \A j \in DOMAIN Entries(lib) : j < scan + 1 => j < scan \/ j = scan
    BY <2>1, EntriesType DEF ResolverInv, CacheInv
  <2>3. QED
    BY <2>2 DEF ResolverInv, CallInv, CoveredBefore, Entries, Skip, fileVars, tableVars
<1>4. HasTable(lib)' <=> HasTable(lib)
  BY DEF HasTable, Needed, Linux, Skip, fileVars
<1>5. held' = HeldAt(pc)'
  BY DEF ResolverInv, CallInv, HeldAt, Linux, Skip, fileVars
<1>6. QED
  BY <1>2, <1>3, <1>4, <1>5
     DEF ResolverInv, CallInv, AnswersFirst, AnswerCached, Skip, fileVars, tableVars

\* A scan that runs off the table has seen every entry: the symbol is absent.
LEMMA ScanEndsInv ==
    ASSUME ResolverInv, ScanEnds
    PROVE  ResolverInv'
<1>1. TypeOK'
  BY DEF ResolverInv, CacheInv, TypeOK, ScanEnds, Scanned, Places, fileVars, tableVars
<1>2. CacheInv'
  BY <1>1, CacheKept DEF ResolverInv, ScanEnds, tableVars
<1>3. lib \notin replaced => Absent(lib, symbol)
  <2>1. lib \in Lib /\ scan \in Nat
    BY DEF ResolverInv, CacheInv, TypeOK
  <2>2. \A j \in DOMAIN Entries(lib) : j < scan
    BY <2>1, EntriesType DEF ResolverInv, CacheInv, ScanEnds
  <2>3. QED
    BY <2>2 DEF ResolverInv, CacheInv, CallInv, TypeOK, CoveredBefore, Absent, ScanEnds
<1>4. Absent(lib, symbol)' <=> Absent(lib, symbol)
  BY DEF Absent, Entries, ScanEnds, fileVars
<1>5. HasTable(lib)' <=> HasTable(lib)
  BY DEF HasTable, Needed, Linux, ScanEnds, fileVars
<1>6. held' = HeldAt(pc)' /\ pc' \in {"munmap", "return"} /\ (pc' = "munmap" => Linux')
  BY DEF ResolverInv, CallInv, HeldAt, Linux, ScanEnds, Scanned, fileVars
<1>7. QED
  BY <1>2, <1>3, <1>4, <1>5, <1>6
     DEF ResolverInv, CallInv, AnswersFirst, AnswerCached, Right, ScanEnds, fileVars, tableVars

\* A cached symbol is answered from the table, any other is looked for.
LEMMA LookUpInv ==
    ASSUME ResolverInv, LookUp
    PROVE  ResolverInv'
<1>1. TypeOK'
  BY DEF ResolverInv, CacheInv, TypeOK, LookUp, Places, fileVars
<1>2. CacheInv'
  BY <1>1, CacheKept DEF ResolverInv, LookUp
<1>3. HasTable(lib)' <=> HasTable(lib)
  BY DEF HasTable, Needed, Linux, LookUp, fileVars
<1>4. held' = HeldAt(pc)'
  BY DEF ResolverInv, CallInv, HeldAt, Linux, LookUp, fileVars
<1>5. CASE lib \in tables /\ symbol \in DOMAIN cache[lib]
  <2>1. lib \notin replaced => HasTable(lib) /\ IsFirst(lib, symbol, cache[lib][symbol])
    BY <1>5 DEF ResolverInv, CacheInv, TypeOK, CacheCoversSkipped
  <2>2. lib \notin replaced => IsFirst(lib, symbol, answer)'
    BY <1>5, <2>1 DEF IsFirst, Entries, LookUp, fileVars
  <2>3. QED
    BY <1>2, <1>3, <1>4, <1>5, <2>1, <2>2
       DEF ResolverInv, CallInv, AnswersFirst, AnswerCached, LookUp, fileVars
<1>6. CASE ~(lib \in tables /\ symbol \in DOMAIN cache[lib])
  <2>1. symbol \notin DOMAIN cache[lib]
    BY <1>6 DEF ResolverInv, CacheInv, TypeOK
  <2>2. pc' = IF Linux THEN "open" ELSE "headers"
    BY <1>6 DEF LookUp
  <2>3. file[lib].headers \in Seq(Header)
    BY HeadersType DEF ResolverInv, CacheInv, TypeOK
  <2>4. pc' = "headers" => /\ found' = {file[lib].headers[k] : k \in 1..scan' - 1}
                           /\ scan' <= Len(file[lib].headers) + 1
    BY <2>3 DEF LookUp
  <2>5. QED
    BY <1>2, <1>4, <1>6, <2>1, <2>2, <2>4
       DEF ResolverInv, CallInv, AnswersFirst, AnswerCached, LookUp, Linux, fileVars
<1>7. QED
  BY <1>5, <1>6

\* One more header has been seen.
LEMMA WalkHeaderInv ==
    ASSUME ResolverInv, WalkHeader
    PROVE  ResolverInv'
<1>1. file[lib].headers \in Seq(Header) /\ lib \in Lib /\ scan \in Nat \ {0}
  BY HeadersType DEF ResolverInv, CacheInv, TypeOK
<1>2. file[lib].headers[scan] \in Header
  BY <1>1 DEF WalkHeader
<1>3. TypeOK'
  BY <1>2 DEF ResolverInv, CacheInv, TypeOK, WalkHeader, fileVars, tableVars
<1>4. CacheInv'
  BY <1>3, CacheKept DEF ResolverInv, WalkHeader, tableVars
<1>5. /\ found' = {file[lib].headers[k] : k \in 1..scan' - 1}
      /\ scan' <= Len(file[lib].headers) + 1
  <2>1. 1..scan' - 1 = 1..(scan - 1) \cup {scan}
    BY <1>1 DEF WalkHeader
  <2>2. found = {file[lib].headers[k] : k \in 1..scan - 1}
    BY DEF ResolverInv, CallInv, WalkHeader
  <2>3. found' = found \cup {file[lib].headers[scan]} /\ scan' <= Len(file[lib].headers) + 1
    BY <1>1 DEF WalkHeader
  <2>4. QED
    BY <2>1, <2>2, <2>3
<1>6. held' = HeldAt(pc)'
  BY DEF ResolverInv, CallInv, HeldAt, Linux, WalkHeader, fileVars
<1>7. QED
  BY <1>4, <1>5, <1>6
     DEF ResolverInv, CallInv, AnswersFirst, AnswerCached, WalkHeader, fileVars, tableVars

\* Breaking off early is no loss: the walk has found a table exactly if there is
\* one.  The scan begins where the last one stopped: what lies before is in the table.
LEMMA HeadersEndInv ==
    ASSUME ResolverInv, HeadersEnd
    PROVE  ResolverInv'
<1> DEFINE hs == file[lib].headers
<1>1. TypeOK
  BY DEF ResolverInv, CacheInv
<1>2. lib \in Lib /\ scan \in Nat /\ scan >= 1 /\ lastPos[lib] \in Nat
  BY <1>1 DEF TypeOK
<1>3. Len(hs) \in Nat /\ DOMAIN hs = 1..Len(hs)
  BY <1>1, <1>2, HeadersType
<1>4. ~({"LC_SYMTAB", "empty LC_SYMTAB"} \subseteq Range(hs))
  BY <1>1, <1>2, HeadersType
<1> HIDE DEF hs
<1>5. found = {hs[k] : k \in 1..scan - 1} /\ scan <= Len(hs) + 1
  BY DEF ResolverInv, CallInv, HeadersEnd, hs
<1>6. found \subseteq Range(hs)
  <2>1. \A k \in 1..scan - 1 : k \in DOMAIN hs
    BY <1>2, <1>3, <1>5
  <2>2. QED
    BY <1>5, <2>1 DEF Range
<1>7. Needed \subseteq found <=> HasTable(lib)
  <2>1. CASE scan > Len(hs)
    <3>1. 1..scan - 1 = DOMAIN hs
      BY <1>2, <1>3, <1>5, <2>1
    <3>2. found = Range(hs)
      BY <1>5, <3>1 DEF Range
    <3>3. QED
      BY <3>2 DEF HasTable, hs
  <2>2. CASE Breaks
    <3>1. ~Linux /\ "__LINKEDIT" \in found /\ ("LC_SYMTAB" \in found \/ "empty LC_SYMTAB" \in found)
      BY <2>2 DEF Breaks
    <3>2. "LC_SYMTAB" \in found <=> "LC_SYMTAB" \in Range(hs)
      BY <1>4, <1>6, <3>1
    <3>3. QED
      BY <1>6, <3>1, <3>2 DEF HasTable, Needed, hs
  <2>3. QED
    BY <2>1, <2>2 DEF HeadersEnd, hs
<1>8. pc' = IF HasTable(lib) THEN "scan" ELSE "return"
  BY <1>7 DEF HeadersEnd
<1>9. held' = HeldAt(pc)'
  <2>1. held = HeldAt("headers")
    BY DEF ResolverInv, CallInv, HeadersEnd
  <2>2. CASE Linux
    BY <1>7, <2>1, <2>2 DEF HeldAt, Linux, HeadersEnd, fileVars
  <2>3. CASE ~Linux
    BY <1>7, <2>1, <2>3 DEF HeldAt, Linux, HeadersEnd, fileVars
  <2>4. QED
    BY <2>2, <2>3
<1>10. TypeOK'
  <2>1. scan' = lastPos[lib] + 1 \/ scan' = scan
    BY DEF HeadersEnd
  <2>2. HeldAt(pc)' \in [handle : Nat, fd : Nat, map : Nat]
    BY DEF HeldAt
  <2>3. scan' \in Nat \ {0}
    BY <1>2, <2>1
  <2>4. pc' \in Places
    BY <1>8 DEF Places
  <2>5. failed' \in BOOLEAN
    BY Zenon DEF ResolverInv, CacheInv, TypeOK, HeadersEnd
  <2>6. QED
    BY <1>9, <2>2, <2>3, <2>4, <2>5
       DEF ResolverInv, CacheInv, TypeOK, HeadersEnd, fileVars, tableVars
<1>11. CacheInv'
  BY <1>10, CacheKept DEF ResolverInv, HeadersEnd, tableVars
<1>12. HasTable(lib)' <=> HasTable(lib)
  BY DEF HasTable, Needed, Linux, HeadersEnd, fileVars
<1>13. lib \notin replaced /\ HasTable(lib) => CoveredBefore(lib, scan)'
  <2> SUFFICES ASSUME lib \notin replaced, HasTable(lib), NEW j \in DOMAIN Entries(lib),
                      j < lastPos[lib] + 1, Entries(lib)[j].eligible
               PROVE  Entries(lib)[j].name \in DOMAIN cache[lib]
    BY <1>7 DEF CoveredBefore, Entries, HeadersEnd, fileVars, tableVars
  <2>1. j \in Nat
    BY <1>1, <1>2, EntriesType
  <2>2. j <= lastPos[lib]
    BY <1>2, <2>1
  <2>3. QED
    BY <1>2, <2>2 DEF ResolverInv, CacheInv, CacheCoversSkipped
<1>14. QED
  BY <1>8, <1>9, <1>11, <1>12, <1>13
     DEF ResolverInv, CallInv, AnswersFirst, AnswerCached, HeadersEnd, fileVars, tableVars

\* A file is replaced while it is not being read.
LEMMA ReplaceFileInv ==
    ASSUME ResolverInv, NEW l \in Lib, ReplaceFile(l)
    PROVE  ResolverInv'
<1>1. pc \notin {"fstat", "headers", "scan", "munmap"} /\ pc \in Places
  BY DEF ResolverInv, CacheInv, CallInv, TypeOK, HeldAt, ReplaceFile
<1>2. PICK u \in Updates : file' = [file EXCEPT ![l] = u]
  BY DEF ReplaceFile
<1>3. u \in File /\ \A m \in Lib \ {l} : file'[m] = file[m]
  BY <1>2, UpdatesAssumption DEF ResolverInv, CacheInv, TypeOK
<1>4. TypeOK'
  BY <1>2, <1>3 DEF ResolverInv, CacheInv, TypeOK, ReplaceFile, tableVars
<1>5. \A m \in Lib \ replaced' : m \in Lib \ replaced /\ m # l /\ file'[m] = file[m]
  BY <1>3 DEF ReplaceFile
<1>6. CacheCoversSkipped'
  BY <1>5 DEF ResolverInv, CacheInv, CacheCoversSkipped, IsFirst, Entries, ReplaceFile, tableVars
<1>7. \A m \in Lib \ replaced' : HasTable(m)' <=> HasTable(m)
  BY <1>5 DEF HasTable, Needed, Linux, ReplaceFile
<1>8. CacheInv'
  BY <1>4, <1>5, <1>6, <1>7 DEF ResolverInv, CacheInv, ReplaceFile, tableVars
<1>9. lib \notin replaced' => /\ \A k : IsFirst(lib, symbol, k)' <=> IsFirst(lib, symbol, k)
                              /\ Absent(lib, symbol)' <=> Absent(lib, symbol)
  BY <1>5 DEF ResolverInv, CacheInv, TypeOK, IsFirst, Absent, Entries, ReplaceFile
<1>10. AnswersFirst'
  <2>1. lib \in Lib /\ UNCHANGED <<pc, lib, symbol, answer, failed>> /\ (lib \notin replaced' => lib \notin replaced)
    BY DEF ResolverInv, CacheInv, TypeOK, ReplaceFile
  <2>2. lib \notin replaced' => IsFirst(lib, symbol, answer)' = IsFirst(lib, symbol, answer)
    BY <1>5, <2>1 DEF IsFirst, Entries
  <2>3. QED
    BY <1>7, <1>9, <2>1, <2>2 DEF ResolverInv, CallInv, AnswersFirst
<1>11. held' = HeldAt(pc)'
  BY DEF ResolverInv, CallInv, HeldAt, Linux, ReplaceFile
<1>12. QED
  BY <1>1, <1>8, <1>10, <1>11 DEF ResolverInv, CallInv, AnswerCached, Linux, ReplaceFile, tableVars

\* A new mapping of the plugin starts with no tables, which are right.
LEMMA RemapInv ==
    ASSUME ResolverInv, Remap
    PROVE  ResolverInv'
<1>1. cache' = [l \in Lib |-> <<>>] /\ \A l \in Lib : DOMAIN cache'[l] = {}
  BY DEF Remap
<1>2. TypeOK'
  BY <1>1 DEF ResolverInv, CacheInv, TypeOK, Remap, fileVars
<1>3. CacheCoversSkipped'
  <2>1. \A l \in Lib : lastPos'[l] = 0
    BY DEF Remap
  <2>2. \A l \in Lib : \A k \in DOMAIN Entries(l) : ~(k <= 0)
    BY EntriesType DEF ResolverInv, CacheInv
  <2>3. \A l \in Lib : Entries(l)' = Entries(l)
    BY DEF Entries, Remap, fileVars
  <2>4. QED
    BY <1>1, <2>1, <2>2, <2>3 DEF CacheCoversSkipped
<1>4. held' = HeldAt(pc)'
  BY DEF ResolverInv, CallInv, HeldAt, Linux, Remap, fileVars
<1>5. QED
  BY <1>1, <1>2, <1>3, <1>4
     DEF ResolverInv, CacheInv, CallInv, AnswersFirst, AnswerCached, Remap, Linux, fileVars

\* The remaining steps open and close things: they leave the tables alone.
SystemCall == \/ \E l \in Lib, n \in Name : Call(l, n)
              \/ OpenHandle \/ HandleFails \/ OpenFile \/ OpenFails \/ MapFile \/ MapFails
              \/ Unmap \/ CloseHandle
ImageStep == OpenImage \/ ImageFails \/ CloseImage \/ ImagesEnd

\* Those steps preserve the invariant; first what they hold.
LEMMA SystemCallHeld ==
    ASSUME ResolverInv, SystemCall \/ ImageStep
    PROVE  held' = HeldAt(pc)'
<1> USE DEF HeldAt, Linux, fileVars
<1>1. held = HeldAt(pc) /\ (pc \in {"dlopen", "open", "fstat", "munmap"} => Linux)
      /\ (pc \in {"images", "opened"} => ~Linux)
  BY DEF ResolverInv, CallInv
<1>2. CASE (\E l \in Lib, n \in Name : Call(l, n)) \/ HandleFails \/ OpenFails
  BY <1>1, <1>2 DEF Call, HandleFails, OpenFails
<1>3. CASE OpenHandle
  BY <1>1, <1>3 DEF OpenHandle
<1>4. CASE CloseHandle
  BY <1>1, <1>4 DEF CloseHandle
<1>5. CASE OpenFile \/ MapFails
  BY <1>1, <1>5 DEF OpenFile, MapFails
<1>6. CASE MapFile
  <2>1. held = [handle |-> 1, fd |-> 1, map |-> 0]
    BY <1>1, <1>6 DEF MapFile
  <2>2. held' = [handle |-> 1, fd |-> 0, map |-> 1]
    BY <2>1, <1>6 DEF MapFile
  <2>3. QED
    BY <1>1, <2>2, <1>6 DEF MapFile
<1>7. CASE Unmap
  BY <1>1, <1>7 DEF Unmap
<1>8. CASE OpenImage
  BY <1>1, <1>8 DEF OpenImage
<1>9. CASE CloseImage
  BY <1>1, <1>9 DEF CloseImage
<1>10. CASE ImageFails \/ ImagesEnd
  BY <1>1, <1>10 DEF ImageFails, ImagesEnd
<1>11. QED
  BY <1>2, <1>3, <1>4, <1>5, <1>6, <1>7, <1>8, <1>9, <1>10 DEF SystemCall, ImageStep

\* Then the rest of it.
LEMMA SystemCallInv ==
    ASSUME ResolverInv, SystemCall \/ ImageStep
    PROVE  ResolverInv'
<1>1. UNCHANGED <<fileVars, tableVars, found>>
  BY DEF SystemCall, ImageStep, Call, OpenHandle, HandleFails, OpenFile, OpenFails, MapFile, MapFails,
         Unmap, CloseHandle, OpenImage, ImageFails, CloseImage, ImagesEnd
<1>2. pc' \in Places /\ lib' \in Lib /\ symbol' \in Name /\ answer' \in Nat
  BY DEF ResolverInv, CacheInv, TypeOK, Places, SystemCall, ImageStep, Call, OpenHandle, HandleFails,
         OpenFile, OpenFails, MapFile, MapFails, Unmap, CloseHandle, OpenImage, ImageFails, CloseImage,
         ImagesEnd
<1>3. failed' \in BOOLEAN
  BY Zenon DEF ResolverInv, CacheInv, TypeOK, SystemCall, ImageStep, Call, OpenHandle, HandleFails,
         OpenFile, OpenFails, MapFile, MapFails, Unmap, CloseHandle, OpenImage, ImageFails, CloseImage,
         ImagesEnd
<1>4. scan' \in Nat \ {0}
  BY DEF ResolverInv, CacheInv, TypeOK, SystemCall, ImageStep, Call, OpenHandle, HandleFails,
         OpenFile, OpenFails, MapFile, MapFails, Unmap, CloseHandle, OpenImage, ImageFails, CloseImage,
         ImagesEnd
<1>5. held' = HeldAt(pc)'
  BY SystemCallHeld
<1>6. TypeOK'
  BY <1>1, <1>2, <1>3, <1>4, <1>5 DEF ResolverInv, CacheInv, TypeOK, HeldAt, fileVars, tableVars
<1>7. CacheInv'
  BY <1>1, <1>6, CacheKept DEF ResolverInv, tableVars
<1>8. CallInv'
  <2> USE DEF fileVars, tableVars, Linux
  <2>1. CASE \E l \in Lib, n \in Name : Call(l, n)
    BY <1>5, <2>1 DEF CallInv, AnswersFirst, AnswerCached, Call
  <2>2. CASE OpenHandle \/ HandleFails \/ OpenFile
    BY <1>5, <2>2 DEF ResolverInv, CallInv, AnswersFirst, AnswerCached, OpenHandle, HandleFails, OpenFile
  <2>3. CASE MapFile
    <3>1. file[lib].headers \in Seq(Header)
      BY HeadersType DEF ResolverInv, CacheInv, TypeOK
    <3>2. found = {file[lib].headers[k] : k \in 1..scan - 1} /\ scan <= Len(file[lib].headers) + 1
      BY <2>3, <3>1 DEF ResolverInv, CallInv, MapFile
    <3>3. QED
      BY <1>5, <2>3, <3>2 DEF ResolverInv, CallInv, AnswersFirst, AnswerCached, MapFile
  <2>4. CASE OpenFails \/ MapFails \/ CloseHandle
    BY <1>5, <2>4 DEF ResolverInv, CallInv, AnswersFirst, AnswerCached, OpenFails, MapFails, CloseHandle
  <2>5. CASE Unmap
    <3>1. HasTable(lib)' <=> HasTable(lib)
      BY <1>1, <2>5 DEF HasTable, Needed, Linux, Unmap
    <3>2. lib \notin replaced => Right(lib, symbol, answer)'
      BY <1>1, <2>5 DEF ResolverInv, CallInv, Right, IsFirst, Absent, Entries, Unmap
    <3>3. QED
      BY <1>5, <2>5, <3>1, <3>2 DEF ResolverInv, CallInv, Right, AnswersFirst, AnswerCached, Unmap
  <2>6. CASE OpenImage \/ ImageFails \/ ImagesEnd
    BY <1>5, <2>6 DEF ResolverInv, CallInv, AnswersFirst, AnswerCached, OpenImage, ImageFails, ImagesEnd
  <2>7. CASE CloseImage
    BY <1>5, <2>7 DEF ResolverInv, CallInv, AnswersFirst, AnswerCached, CloseImage
  <2>8. QED
    BY <2>1, <2>2, <2>3, <2>4, <2>5, <2>6, <2>7 DEF SystemCall, ImageStep
<1>9. QED
  BY <1>7, <1>8 DEF ResolverInv

\* The invariant holds in every reachable state.
THEOREM ResolverInvariant == Spec => []ResolverInv
<1>1. ResolverInv /\ UNCHANGED vars => ResolverInv'
  <2> SUFFICES ASSUME ResolverInv, UNCHANGED vars PROVE ResolverInv'
    OBVIOUS
  <2>1. CacheInv'
    <3>1. TypeOK'
      BY DEF ResolverInv, CacheInv, TypeOK, vars, fileVars, tableVars
    <3>2. QED
      BY <3>1, CacheKept DEF ResolverInv, vars, tableVars
  <2>2. /\ HasTable(lib)' <=> HasTable(lib)
        /\ CoveredBefore(lib, scan)' <=> CoveredBefore(lib, scan)
        /\ Right(lib, symbol, answer)' <=> Right(lib, symbol, answer)
        /\ HeldAt(pc)' = HeldAt(pc)
    BY DEF HasTable, Needed, Linux, CoveredBefore, Right, IsFirst, Absent, Entries, HeldAt, vars,
           fileVars, tableVars
  <2>3. CallInv'
    BY <2>2 DEF ResolverInv, CallInv, AnswersFirst, AnswerCached, Right, Linux, vars, fileVars, tableVars
  <2>4. QED
    BY <2>1, <2>3 DEF ResolverInv
<1>2. ResolverInv /\ [Next]_vars => ResolverInv'
  BY <1>1, InternOtherInv, InternWantedInv, SkipInv, ScanEndsInv, LookUpInv, WalkHeaderInv,
     HeadersEndInv, ReplaceFileInv, RemapInv, SystemCallInv DEF Next, Step, SystemCall, ImageStep
<1>3. QED
  BY ResolverInit, <1>2, PTL DEF Spec

\* The resolver's variables keep their types.
THEOREM ResolverTypeCorrect == Spec => []TypeOK
<1>1. ResolverInv => TypeOK
  BY DEF ResolverInv, CacheInv
<1>2. QED
  BY ResolverInvariant, <1>1, PTL

\* Any call answers as a search of the whole table would, or NULL if the system
\* has let it down.
THEOREM SearchAnswers == Spec => []AnswersFirst
<1>1. ResolverInv => AnswersFirst
  BY DEF ResolverInv, CallInv
<1>2. QED
  BY ResolverInvariant, <1>1, PTL

\* Entries before last_pos, which are never read again, are in the cache.
THEOREM CacheCovers == Spec => []CacheCoversSkipped
<1>1. ResolverInv => CacheCoversSkipped
  BY DEF ResolverInv, CacheInv
<1>2. QED
  BY ResolverInvariant, <1>1, PTL

\* No path leaks a library reference, a descriptor or a mapping.
THEOREM NothingLeaks == Spec => []NoLeak
<1>1. ResolverInv => NoLeak
  BY DEF ResolverInv, CallInv, HeldAt, NoLeak, NoResources
<1>2. QED
  BY ResolverInvariant, <1>1, PTL

\* A symbol's address, once given, is given for as long as the plugin is mapped,
\* whatever becomes of the library's file.
THEOREM AnswersStable == Spec => AnswersAreStable
<1> DEFINE Answered == pc = "return" /\ answer # 0 =>
                          symbol \in DOMAIN cache[lib] /\ answer = cache[lib][symbol]
           Keeps == Remap \/ \A l \in Lib : \A n \in DOMAIN cache[l] :
                          n \in DOMAIN cache'[l] /\ cache'[l][n] = cache[l][n]
<1>1. ResolverInv => Answered
  BY DEF ResolverInv, CallInv, AnswerCached
<1>2. ResolverInv /\ [Next]_vars => [Keeps]_vars
  <2> SUFFICES ASSUME ResolverInv, Next PROVE Keeps
    OBVIOUS
  <2>1. CASE InternOther \/ InternWanted
    <3>1. TypeOK /\ lib \in Lib /\ scan \in DOMAIN Entries(lib) /\ cache' = Intern(lib, scan)
      BY <2>1, ScanType DEF ResolverInv, CacheInv, InternOther, InternWanted
    <3>2. /\ \A m \in Lib \ {lib} : cache'[m] = cache[m]
          /\ DOMAIN cache[lib] \subseteq DOMAIN cache'[lib]
          /\ \A n \in DOMAIN cache[lib] : cache'[lib][n] = cache[lib][n]
      BY <3>1, InternKeeps
    <3>3. QED
      BY <3>2
  <2>2. CASE Remap
    BY <2>2
  <2>3. CASE ~(InternOther \/ InternWanted \/ Remap)
    <3>1. cache' = cache
      BY <2>3 DEF Next, Step, ReplaceFile, Call, OpenHandle, HandleFails, OpenImage, ImageFails,
                  CloseImage, ImagesEnd, LookUp, OpenFile, OpenFails, MapFile, MapFails, WalkHeader,
                  HeadersEnd, Skip, ScanEnds, Unmap, CloseHandle, tableVars
    <3>2. QED
      BY <3>1
  <2>4. QED
    BY <2>1, <2>2, <2>3
<1>3. QED
  BY ResolverInvariant, <1>1, <1>2, PTL DEF Spec, AnswersAreStable
-----------------------------------------------------------------------------
\* How far a call still has to go: the stage it is in, and the turns that the loop of
\* this stage can still take, two for every image, one for every header or entry.
Stage(place) ==
    IF place = "idle" THEN 0 ELSE IF place = "return" THEN 1 ELSE IF place = "munmap" THEN 2
    ELSE IF place = "scan" THEN 3 ELSE IF place = "headers" THEN 4 ELSE IF place = "fstat" THEN 5
    ELSE IF place = "open" THEN 6 ELSE IF place = "table" THEN 7 ELSE 8
Behind(k, n) == IF k <= n THEN n + 1 - k ELSE 0
Turns ==
    IF pc = "images" THEN 2 * Behind(scan, Len(images)) + 1
    ELSE IF pc = "opened" THEN 2 * Behind(scan, Len(images))
    ELSE IF pc = "headers" THEN Behind(scan, Len(file[lib].headers))
    ELSE IF pc = "scan" THEN Behind(scan, Len(Entries(lib)))
    ELSE 0
Lower == Stage(pc') < Stage(pc) \/ (Stage(pc') = Stage(pc) /\ Turns' < Turns)

\* The image that has been opened is one of the list.
OpenedInv == pc = "opened" => scan <= Len(images)

\* The order of the stages.
LEMMA Stages ==
    /\ Stage("idle") = 0 /\ Stage("return") = 1 /\ Stage("munmap") = 2 /\ Stage("scan") = 3
    /\ Stage("headers") = 4 /\ Stage("fstat") = 5 /\ Stage("open") = 6 /\ Stage("table") = 7
    /\ Stage("dlopen") = 8 /\ Stage("images") = 8 /\ Stage("opened") = 8
BY DEF Stage

\* A step that ends its stage.
LEMMA StageEnds ==
    ASSUME \/ OpenHandle \/ HandleFails \/ ImagesEnd \/ LookUp \/ OpenFile \/ OpenFails
           \/ MapFile \/ MapFails \/ HeadersEnd \/ InternWanted \/ ScanEnds \/ Unmap \/ CloseHandle
    PROVE  Lower
<1>1. CASE OpenHandle \/ HandleFails \/ ImagesEnd
  <2>1. Stage(pc) = 8 /\ Stage(pc') \in {7, 0, 1}
    BY <1>1, Stages DEF OpenHandle, HandleFails, ImagesEnd
  <2>2. QED
    BY <2>1 DEF Lower
<1>2. CASE LookUp
  <2>1. Stage(pc) = 7 /\ Stage(pc') \in {1, 6, 4}
    BY <1>2, Stages DEF LookUp
  <2>2. QED
    BY <2>1 DEF Lower
<1>3. CASE OpenFile \/ OpenFails
  <2>1. Stage(pc) = 6 /\ Stage(pc') \in {5, 1}
    BY <1>3, Stages DEF OpenFile, OpenFails
  <2>2. QED
    BY <2>1 DEF Lower
<1>4. CASE MapFile \/ MapFails
  <2>1. Stage(pc) = 5 /\ Stage(pc') \in {4, 1}
    BY <1>4, Stages DEF MapFile, MapFails
  <2>2. QED
    BY <2>1 DEF Lower
<1>5. CASE HeadersEnd
  <2>1. Stage(pc) = 4 /\ Stage(pc') \in {3, 1}
    BY <1>5, Stages DEF HeadersEnd
  <2>2. QED
    BY <2>1 DEF Lower
<1>6. CASE InternWanted \/ ScanEnds
  <2>1. Stage(pc) = 3 /\ Stage(pc') \in {2, 1}
    BY <1>6, Stages DEF InternWanted, ScanEnds, Scanned
  <2>2. QED
    BY <2>1 DEF Lower
<1>7. CASE Unmap \/ CloseHandle
  <2>1. (Stage(pc) = 2 /\ Stage(pc') = 1) \/ (Stage(pc) = 1 /\ Stage(pc') = 0)
    BY <1>7, Stages DEF Unmap, CloseHandle
  <2>2. QED
    BY <2>1 DEF Lower
<1>8. QED
  BY Zenon, <1>1, <1>2, <1>3, <1>4, <1>5, <1>6, <1>7

\* The lengths of the lists are numbers.
LEMMA Lengths ==
    ASSUME TypeOK
    PROVE  /\ scan \in Nat /\ Len(images) \in Nat
           /\ Len(file[lib].headers) \in Nat /\ Len(Entries(lib)) \in Nat
<1>1. scan \in Nat /\ lib \in Lib /\ Len(images) \in Nat
  BY DEF TypeOK
<1>2. QED
  BY <1>1, HeadersType, EntriesType

\* What is left of a list.
LEMMA BehindFacts ==
    ASSUME NEW k \in Nat, NEW n \in Nat
    PROVE  /\ Behind(k, n) \in Nat /\ Behind(k + 1, n) \in Nat
           /\ k <= n => Behind(k, n) = Behind(k + 1, n) + 1
BY DEF Behind

\* The turns at each place.
LEMMA TurnsAt ==
    /\ pc = "images" => Turns = 2 * Behind(scan, Len(images)) + 1
    /\ pc = "opened" => Turns = 2 * Behind(scan, Len(images))
    /\ pc = "headers" => Turns = Behind(scan, Len(file[lib].headers))
    /\ pc = "scan" => Turns = Behind(scan, Len(Entries(lib)))
BY Zenon DEF Turns

\* The same after a step.
LEMMA TurnsAtNext ==
    ASSUME UNCHANGED <<images, file, lib>>
    PROVE  /\ pc' = "images" => Turns' = 2 * Behind(scan', Len(images)) + 1
           /\ pc' = "opened" => Turns' = 2 * Behind(scan', Len(images))
           /\ pc' = "headers" => Turns' = Behind(scan', Len(file[lib].headers))
           /\ pc' = "scan" => Turns' = Behind(scan', Len(Entries(lib)))
BY Zenon DEF Turns, Entries

\* A turn of a loop.
LEMMA TurnTaken ==
    ASSUME TypeOK, OpenedInv, OpenImage \/ ImageFails \/ CloseImage \/ WalkHeader \/ Skip \/ InternOther
    PROVE  Lower
<1>1. UNCHANGED <<images, file, lib>>
  BY Zenon DEF OpenImage, ImageFails, CloseImage, WalkHeader, Skip, InternOther, fileVars
<1>2. CASE OpenImage
  <2>1. pc = "images" /\ pc' = "opened" /\ scan' = scan /\ Stage(pc) = 8 /\ Stage(pc') = 8
    BY <1>2, Stages DEF OpenImage
  <2>2. /\ Turns = 2 * Behind(scan, Len(images)) + 1
        /\ Turns' = 2 * Behind(scan, Len(images))
    BY Zenon, <1>1, <2>1, TurnsAt, TurnsAtNext
  <2>3. Behind(scan, Len(images)) \in Nat
    BY Lengths, BehindFacts
  <2>4. QED
    BY <2>1, <2>2, <2>3 DEF Lower
<1>3. CASE ImageFails
  <2>1. /\ scan <= Len(images) /\ scan' = scan + 1 /\ pc = "images" /\ pc' = "images"
        /\ Stage(pc) = 8 /\ Stage(pc') = 8
    BY <1>3, Stages DEF ImageFails
  <2>2. /\ Turns = 2 * Behind(scan, Len(images)) + 1
        /\ Turns' = 2 * Behind(scan + 1, Len(images)) + 1
    BY Zenon, <1>1, <2>1, TurnsAt, TurnsAtNext
  <2>3. /\ Behind(scan + 1, Len(images)) \in Nat
        /\ Behind(scan, Len(images)) = Behind(scan + 1, Len(images)) + 1
    BY <2>1, Lengths, BehindFacts
  <2>4. QED
    BY <2>1, <2>2, <2>3 DEF Lower
<1>4. CASE CloseImage
  <2>1. /\ scan <= Len(images) /\ pc = "opened" /\ Stage(pc) = 8
        /\ Stage(pc') = 7 \/ (Stage(pc') = 8 /\ pc' = "images" /\ scan' = scan + 1)
    BY <1>4, Stages DEF CloseImage, OpenedInv
  <2>2. /\ Turns = 2 * Behind(scan, Len(images))
        /\ pc' = "images" /\ scan' = scan + 1 => Turns' = 2 * Behind(scan + 1, Len(images)) + 1
    BY Zenon, <1>1, <2>1, TurnsAt, TurnsAtNext
  <2>3. /\ Behind(scan + 1, Len(images)) \in Nat
        /\ Behind(scan, Len(images)) = Behind(scan + 1, Len(images)) + 1
    BY <2>1, Lengths, BehindFacts
  <2>4. QED
    BY <2>1, <2>2, <2>3 DEF Lower
<1>5. CASE WalkHeader
  <2>1. /\ scan <= Len(file[lib].headers) /\ scan' = scan + 1 /\ pc = "headers" /\ pc' = "headers"
        /\ Stage(pc) = 4 /\ Stage(pc') = 4
    BY <1>5, Stages DEF WalkHeader
  <2>2. /\ Turns = Behind(scan, Len(file[lib].headers))
        /\ Turns' = Behind(scan + 1, Len(file[lib].headers))
    BY Zenon, <1>1, <2>1, TurnsAt, TurnsAtNext
  <2>3. /\ Behind(scan + 1, Len(file[lib].headers)) \in Nat
        /\ Behind(scan, Len(file[lib].headers)) = Behind(scan + 1, Len(file[lib].headers)) + 1
    BY <2>1, Lengths, BehindFacts
  <2>4. QED
    BY <2>1, <2>2, <2>3 DEF Lower
<1>6. CASE Skip \/ InternOther
  <2>1. /\ scan <= Len(Entries(lib)) /\ scan' = scan + 1 /\ pc = "scan" /\ pc' = "scan"
        /\ Stage(pc) = 3 /\ Stage(pc') = 3
    BY <1>6, Stages DEF Skip, InternOther
  <2>2. /\ Turns = Behind(scan, Len(Entries(lib)))
        /\ Turns' = Behind(scan + 1, Len(Entries(lib)))
    BY Zenon, <1>1, <2>1, TurnsAt, TurnsAtNext
  <2>3. /\ Behind(scan + 1, Len(Entries(lib))) \in Nat
        /\ Behind(scan, Len(Entries(lib))) = Behind(scan + 1, Len(Entries(lib))) + 1
    BY <2>1, Lengths, BehindFacts
  <2>4. QED
    BY <2>1, <2>2, <2>3 DEF Lower
<1>7. QED
  BY Zenon, <1>2, <1>3, <1>4, <1>5, <1>6

\* An update of a file leaves a call where it is: what is read has been opened.
LEMMA ReplaceKeepsRank ==
    ASSUME ResolverInv, NEW l \in Lib, ReplaceFile(l)
    PROVE  Stage(pc') = Stage(pc) /\ Turns' = Turns
<1>1. held.map = 0 /\ Linux /\ UNCHANGED <<images, lib, pc, scan>>
  BY DEF ReplaceFile
<1>2. pc # "headers" /\ pc # "scan"
  BY <1>1 DEF ResolverInv, CallInv, HeldAt
<1>3. QED
  BY Zenon, <1>1, <1>2 DEF Turns, Behind

\* Each step of a call brings it nearer to its end, and nothing else moves it: the
\* stages come in one order, and their loops run over lists of fixed length, also while
\* files are replaced and whatever calls of the system fail.  This is why CallsReturn
\* holds.
THEOREM CallsRunOut ==
    Spec => /\ [](Turns \in Nat /\ Stage(pc) \in 0..8)
            /\ [][pc # "idle" => \/ Lower
                                  \/ /\ \E l \in Lib : ReplaceFile(l)
                                     /\ Stage(pc') = Stage(pc) /\ Turns' = Turns]_vars
<1> DEFINE Moves == pc # "idle" => \/ Lower
                                   \/ /\ \E l \in Lib : ReplaceFile(l)
                                      /\ Stage(pc') = Stage(pc) /\ Turns' = Turns
<1>1. ResolverInv => Turns \in Nat /\ Stage(pc) \in 0..8
  <2> SUFFICES ASSUME ResolverInv PROVE Turns \in Nat /\ Stage(pc) \in 0..8
    OBVIOUS
  <2>1. /\ Behind(scan, Len(images)) \in Nat
        /\ Behind(scan, Len(file[lib].headers)) \in Nat
        /\ Behind(scan, Len(Entries(lib))) \in Nat
    BY Lengths, BehindFacts DEF ResolverInv, CacheInv
  <2>2. Turns \in Nat
    BY <2>1 DEF Turns
  <2>3. Stage(pc) \in 0..8
    BY DEF Stage
  <2>4. QED
    BY <2>2, <2>3
<1>2. Init => OpenedInv
  BY DEF Init, OpenedInv
<1>3. OpenedInv /\ [Next]_vars => OpenedInv'
  <2> SUFFICES ASSUME OpenedInv, [Next]_vars, pc' = "opened" PROVE scan' <= Len(images')
    BY DEF OpenedInv
  <2>1. CASE OpenImage
    BY <2>1 DEF OpenImage, fileVars
  <2>2. CASE ~OpenImage
    <3>1. pc = "opened" /\ scan' = scan /\ images' = images
      BY <2>2 DEF Next, Step, Remap, ReplaceFile, Call, OpenHandle, HandleFails, ImageFails,
                  CloseImage, ImagesEnd, LookUp, OpenFile, OpenFails, MapFile, MapFails, WalkHeader,
                  HeadersEnd, Skip, InternOther, InternWanted, Scanned, ScanEnds, Unmap, CloseHandle,
                  fileVars, vars
    <3>2. QED
      BY <3>1 DEF OpenedInv
  <2>3. QED
    BY <2>1, <2>2
<1>4. ResolverInv /\ OpenedInv /\ [Next]_vars => [Moves]_vars
  <2> SUFFICES ASSUME ResolverInv, OpenedInv, Next, pc # "idle"
               PROVE  Lower \/ (/\ \E l \in Lib : ReplaceFile(l)
                                /\ Stage(pc') = Stage(pc) /\ Turns' = Turns)
    OBVIOUS
  <2>1. CASE Step
    BY Zenon, <2>1, StageEnds, TurnTaken DEF Step, ResolverInv, CacheInv
  <2>2. ASSUME NEW l \in Lib, ReplaceFile(l) PROVE Stage(pc') = Stage(pc) /\ Turns' = Turns
    BY <2>2, ReplaceKeepsRank
  <2>3. ~Remap /\ \A l \in Lib : \A n \in Name : ~Call(l, n)
    BY Zenon DEF Remap, Call
  <2>4. QED
    BY Zenon, <2>1, <2>2, <2>3 DEF Next
<1>5. QED
  BY ResolverInvariant, <1>1, <1>2, <1>3, <1>4, PTL DEF Spec
=============================================================================
