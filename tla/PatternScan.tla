---------------------------- MODULE PatternScan -----------------------------
(* FindLibPattern, FindPattern and GetLibraryInfo of memutils.cpp: the       *)
(* Windows way to find a function.  The library's headers give the size of   *)
(* the window that is searched, byte by byte, for a pattern with wildcards.  *)
(* Addresses count from the library's base.                                  *)
EXTENDS Integers, Sequences

CONSTANTS Byte,       \* what a byte of the library or of a pattern can be
          Wild,       \* '\x2A', the pattern byte that matches anything
          Patterns,   \* patterns searched for
          Images,     \* contents of the memory that is mapped from the base on
          Headers,    \* what the headers of a library may say
          PageSize    \* PAGE_SIZE

PageAlignUp(n) == PageSize * ((n + PageSize - 1) \div PageSize)

Segment == [wanted : BOOLEAN,   \* elf: PT_LOAD, PF_X|PF_R; mach-o: an LC_SEGMENT command
            size : Nat]         \* p_filesz, vmsize

ASSUME PageAssumption == PageSize \in Nat \ {0}
ASSUME ByteAssumption == Patterns \subseteq Seq(Byte) /\ Images \subseteq Seq(Byte)
ASSUME HeaderAssumption ==
    \A h \in Headers :
       /\ h.valid \in BOOLEAN              \* there is a library and the checks pass
       /\ h.format \in {"pe", "elf", "mach-o"}
       /\ h.imageSize \in Nat              \* pe: SizeOfImage
       /\ h.segments \in Seq(Segment)      \* elf: program headers; mach-o: load commands
       \* What the wanted ones among the first n take up.
       /\ h.upto \in [0..Len(h.segments) -> Nat]
       /\ h.upto[0] = 0
       /\ \A n \in 1..Len(h.segments) :
             /\ h.upto[n] = h.upto[n - 1] + (IF h.segments[n].wanted THEN h.segments[n].size ELSE 0)
             /\ h.upto[n] <= h.upto[Len(h.segments)]

\* The window the headers describe: the image of a PE file; for an ELF file as many
\* bytes as the first executable segment has, for a Mach-O file as many as all
\* segments have, counted from the base wherever they lie (p_vaddr and vmaddr are
\* not looked at).
Window(h) ==
    IF h.format = "pe" THEN h.imageSize
    ELSE IF h.format = "mach-o" THEN h.upto[Len(h.segments)]
    ELSE IF \E n \in DOMAIN h.segments : h.segments[n].wanted
         THEN LET first == CHOOSE n \in DOMAIN h.segments :
                              /\ h.segments[n].wanted
                              /\ \A m \in 1..(n-1) : ~h.segments[m].wanted
              IN PageAlignUp(h.segments[first].size)
         ELSE 0

VARIABLES image,     \* mapped bytes
          headers,
          pattern,
          size,      \* lib.memorySize
          k,         \* the program header or load command being looked at
          ptr, i,    \* FindPattern's locals
          pc,        \* "headers", "segments", "scan", "compare", "done", "fault"
          result     \* the address returned, -1 for NULL

args == <<image, headers, pattern>>
vars == <<args, size, k, ptr, i, pc, result>>

\* The loader maps at least what the headers describe.
Init ==
    /\ image \in Images /\ headers \in Headers /\ pattern \in Patterns
    /\ Window(headers) \in 0..Len(image)
    /\ size = 0
    /\ k = 1
    /\ ptr = 0 /\ i = 0
    /\ pc = "headers"
    /\ result = -1

Return(r) == result' = r /\ pc' = "done"

-----------------------------------------------------------------------------
\* GetLibraryInfo

\* The checks; a PE header then gives the size at once.
ReadHeaders ==
    /\ pc = "headers"
    /\ \/ ~headers.valid /\ Return(-1) /\ size' = size
       \/ /\ headers.valid /\ headers.format = "pe"
          /\ size' = headers.imageSize
          /\ pc' = "scan" /\ result' = result
       \/ /\ headers.valid /\ headers.format # "pe"
          /\ pc' = "segments"
          /\ UNCHANGED <<size, result>>
    /\ UNCHANGED <<args, k, ptr, i>>

\* The loop without its break: the last executable segment counts.
WalkAllSegments ==
    /\ pc = "segments" /\ headers.format = "elf"
    /\ \/ /\ k \in DOMAIN headers.segments
          /\ size' = IF headers.segments[k].wanted
                     THEN PageAlignUp(headers.segments[k].size) ELSE size
          /\ k' = k + 1 /\ pc' = pc
       \/ k \notin DOMAIN headers.segments /\ pc' = "scan" /\ UNCHANGED <<size, k>>
    /\ UNCHANGED <<args, ptr, i, result>>

\* One turn of the loop over the program headers, which stops at the first
\* executable one; memorySize stays 0 when there is none.
WalkSegments ==
    /\ pc = "segments" /\ headers.format = "elf"
    /\ \/ /\ k \in DOMAIN headers.segments
          /\ headers.segments[k].wanted
          /\ size' = PageAlignUp(headers.segments[k].size)
          /\ pc' = "scan" /\ k' = k
       \/ /\ k \in DOMAIN headers.segments
          /\ ~headers.segments[k].wanted
          /\ k' = k + 1
          /\ UNCHANGED <<size, pc>>
       \/ /\ k \notin DOMAIN headers.segments
          /\ pc' = "scan"
          /\ UNCHANGED <<size, k>>
    /\ UNCHANGED <<args, ptr, i, result>>

\* One turn of the loop over the load commands: every segment counts.
AddSegments ==
    /\ pc = "segments" /\ headers.format = "mach-o"
    /\ \/ /\ k \in DOMAIN headers.segments
          /\ size' = size + (IF headers.segments[k].wanted THEN headers.segments[k].size ELSE 0)
          /\ k' = k + 1 /\ pc' = pc
       \/ k \notin DOMAIN headers.segments /\ pc' = "scan" /\ UNCHANGED <<size, k>>
    /\ UNCHANGED <<args, ptr, i, result>>

-----------------------------------------------------------------------------
\* FindPattern

\* while (ptr <= end)
ScanToEnd ==
    /\ pc = "scan"
    /\ \/ ptr <= size /\ i' = 0 /\ pc' = "compare" /\ result' = result
       \/ ptr > size /\ Return(-1) /\ i' = i
    /\ UNCHANGED <<args, size, k, ptr>>

\* An index that is not set back to the pattern's start.
ScanKeepsIndex ==
    /\ pc = "scan"
    /\ \/ ptr < size /\ pc' = "compare" /\ result' = result
       \/ ptr >= size /\ Return(-1)
    /\ UNCHANGED <<args, size, k, ptr, i>>

\* while (ptr < end)
Scan ==
    /\ pc = "scan"
    /\ \/ ptr < size /\ i' = 0 /\ pc' = "compare" /\ result' = result
       \/ ptr >= size /\ Return(-1) /\ i' = i
    /\ UNCHANGED <<args, size, k, ptr>>

\* The bytes at q + j and of the pattern at j agree; the first is mapped unless
\* the wildcard makes reading it unnecessary.
Mapped(q) == q < Len(image)
Agree(q, j) == \/ pattern[j + 1] = Wild
               \/ Mapped(q + j) /\ image[q + j + 1] = pattern[j + 1]
Unreadable(q, j) == pattern[j + 1] # Wild /\ ~Mapped(q + j)

Match ==
    /\ pc = "compare" /\ i < Len(pattern)
    /\ Agree(ptr, i)
    /\ i' = i + 1
    /\ UNCHANGED <<args, size, k, ptr, pc, result>>

\* A search that goes on behind the bytes it has compared, one that stays where it
\* is.
MismatchSkips ==
    /\ pc = "compare" /\ i < Len(pattern)
    /\ ~Agree(ptr, i) /\ ~Unreadable(ptr, i)
    /\ ptr' = ptr + i + 1
    /\ pc' = "scan"
    /\ UNCHANGED <<args, size, k, i, result>>
MismatchStays ==
    /\ pc = "compare" /\ i < Len(pattern)
    /\ ~Agree(ptr, i) /\ ~Unreadable(ptr, i)
    /\ pc' = "scan"
    /\ UNCHANGED <<args, size, k, ptr, i, result>>

Mismatch ==
    /\ pc = "compare" /\ i < Len(pattern)
    /\ ~Agree(ptr, i) /\ ~Unreadable(ptr, i)
    /\ ptr' = ptr + 1
    /\ pc' = "scan"
    /\ UNCHANGED <<args, size, k, i, result>>

\* ptr[i] lies behind everything mapped.
ReadFaults ==
    /\ pc = "compare" /\ i < Len(pattern)
    /\ Unreadable(ptr, i)
    /\ pc' = "fault"
    /\ UNCHANGED <<args, size, k, ptr, i, result>>

Found ==
    /\ pc = "compare" /\ i = Len(pattern)
    /\ Return(ptr)
    /\ UNCHANGED <<args, size, k, ptr, i>>

Compare == Match \/ Mismatch \/ ReadFaults \/ Found
Next == ReadHeaders \/ WalkSegments \/ AddSegments \/ Scan \/ Compare
Spec == Init /\ [][Next]_vars
FairSpec == Spec /\ WF_vars(Next)

-----------------------------------------------------------------------------
TypeOK ==
    /\ image \in Seq(Byte) /\ headers \in Headers /\ pattern \in Seq(Byte)
    /\ size \in 0..Len(image)
    /\ k \in 1..(Len(headers.segments) + 1)
    /\ ptr \in 0..size /\ i \in 0..Len(pattern)
    /\ pc \in {"headers", "segments", "scan", "compare", "done", "fault"}
    /\ result \in {-1} \cup 0..(size - 1)

MatchAt(q) == \A j \in 0..(Len(pattern) - 1) : Agree(q, j)

\* FindLibPattern answers with the first place of the library's window where the
\* pattern matches, with NULL when there is none or the library fails the checks.  The
\* window is the one the headers give: that it covers the code is not claimed.
FindsFirst ==
    pc = "done" =>
       LET places == {q \in 0..(Window(headers) - 1) : MatchAt(q)} IN
       IF headers.valid /\ places # {}
       THEN result \in places /\ \A q \in places : result <= q
       ELSE result = -1

\* FindPattern takes no notice of the pattern's length at the end of the window, and
\* gets away with it when the function is there: a search for a pattern that lies
\* inside the window reads nothing behind it and does not fault.
ReadsInsideIfPresent ==
    (\E q \in 0..(size - Len(pattern)) : MatchAt(q)) =>
       /\ pc = "compare" /\ i < Len(pattern) => ptr + i < size
       /\ pc # "fault"

\* Behind the window's end it reads only while everything up to there agrees.
FaultsOnlyOnPartialMatch ==
    pc = "fault" => \A j \in 0..(Len(image) - ptr - 1) : Agree(ptr, j)

\* Every search comes to an end.
Terminates == <>(pc \in {"done", "fault"})
=============================================================================
