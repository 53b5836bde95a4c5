------------------------- MODULE PatternScanProofs --------------------------
(* FindLibPattern answers with the first match, for every memory, pattern    *)
(* and set of headers.                                                       *)
EXTENDS PatternScan, TLAPS

\* While headers are read nothing has been searched; after that the window is the
\* one the headers describe.
WindowInv ==
    /\ Window(headers) \in 0..Len(image)
    /\ pc \in {"headers", "segments"} => ptr = 0
    /\ pc = "headers" => k = 1 /\ size = 0 /\ result = -1
    /\ pc = "segments" => headers.valid /\ result = -1
    /\ pc = "segments" /\ headers.format = "elf" =>
          size = 0 /\ \A m \in 1..(k - 1) : ~headers.segments[m].wanted
    /\ pc = "segments" /\ headers.format = "mach-o" => size = headers.upto[k - 1]
    /\ pc \in {"scan", "compare", "fault"} => headers.valid /\ size = Window(headers)

\* No place before ptr matches, and at ptr everything before i agrees.
SearchInv ==
    /\ \A q \in 0..(ptr - 1) : ~MatchAt(q)
    /\ pc \in {"compare", "fault"} => /\ ptr < size
                                      /\ \A j \in 0..(i - 1) : Agree(ptr, j)
    /\ pc = "fault" => i < Len(pattern) /\ ~Mapped(ptr + i)

Inv == TypeOK /\ WindowInv /\ SearchInv /\ FindsFirst

-----------------------------------------------------------------------------
\* What is known of the headers of a library.
LEMMA HeaderFacts ==
    ASSUME NEW h \in Headers
    PROVE  /\ h.valid \in BOOLEAN
           /\ h.format \in {"pe", "elf", "mach-o"}
           /\ h.imageSize \in Nat
           /\ h.segments \in Seq(Segment)
           /\ h.upto \in [0..Len(h.segments) -> Nat] /\ h.upto[0] = 0
           /\ \A n \in 1..Len(h.segments) :
                 /\ h.upto[n] = h.upto[n - 1] + (IF h.segments[n].wanted THEN h.segments[n].size ELSE 0)
                 /\ h.upto[n] <= h.upto[Len(h.segments)]
BY HeaderAssumption

\* The window of an ELF file is that of the executable segment with no other before
\* it, and empty without one.
LEMMA FirstExecutable ==
    ASSUME NEW h \in Headers, h.format = "elf",
           NEW n \in DOMAIN h.segments, h.segments[n].wanted,
           \A m \in 1..(n - 1) : ~h.segments[m].wanted
    PROVE  Window(h) = PageAlignUp(h.segments[n].size)
<1> DEFINE First(q) == /\ h.segments[q].wanted
                       /\ \A m \in 1..(q - 1) : ~h.segments[m].wanted
<1>1. h.segments \in Seq(Segment)
  BY HeaderFacts
<1>2. \A q \in DOMAIN h.segments : First(q) => q = n
  BY <1>1
<1>3. First(n)
  OBVIOUS
<1> HIDE DEF First
<1>4. (CHOOSE q \in DOMAIN h.segments : First(q)) = n
  BY <1>2, <1>3
<1>5. (CHOOSE q \in DOMAIN h.segments :
          /\ h.segments[q].wanted
          /\ \A m \in 1..(q - 1) : ~h.segments[m].wanted) = n
  BY <1>4 DEF First
<1> QED
  BY <1>5 DEF Window

\* The invariant holds initially.
LEMMA InitInv == Init => Inv
<1> SUFFICES ASSUME Init PROVE Inv
  OBVIOUS
<1>0. /\ image \in Seq(Byte) /\ pattern \in Seq(Byte)
      /\ headers \in Headers
  BY ByteAssumption DEF Init
<1>1. headers.segments \in Seq(Segment)
  BY <1>0, HeaderFacts
<1>2. Len(image) \in Nat /\ Len(pattern) \in Nat /\ Len(headers.segments) \in Nat
  BY <1>0, <1>1
<1>3. TypeOK
  BY <1>0, <1>2 DEF Init, TypeOK
<1>4. WindowInv
  BY DEF Init, WindowInv
<1>5. SearchInv
  BY DEF Init, SearchInv
<1>6. FindsFirst
  BY DEF Init, FindsFirst
<1> QED
  BY <1>3, <1>4, <1>5, <1>6 DEF Inv

-----------------------------------------------------------------------------
\* The headers give the size of the window.
LEMMA ReadHeadersInv ==
    ASSUME Inv, ReadHeaders
    PROVE  Inv'
<1> USE DEF Return
<1>0. /\ headers \in Headers /\ size = 0 /\ ptr = 0 /\ k \in Nat /\ i \in Nat
      /\ Window(headers) \in 0..Len(image) /\ Len(image) \in Nat
  BY DEF Inv, TypeOK, WindowInv, ReadHeaders
<1>1. CASE ~headers.valid /\ Return(-1) /\ size' = size
  <2>1. TypeOK'
    BY <1>0, <1>1 DEF Inv, TypeOK, ReadHeaders, args
  <2>2. WindowInv'
    BY <1>0, <1>1 DEF Inv, WindowInv, ReadHeaders, args, Window
  <2>3. SearchInv'
    BY <1>0, <1>1 DEF Inv, SearchInv, ReadHeaders, args
  <2>4. FindsFirst'
    BY <1>1 DEF ReadHeaders, args, FindsFirst
  <2> QED
    BY <2>1, <2>2, <2>3, <2>4 DEF Inv
<1>2. CASE headers.valid /\ headers.format = "pe" /\ size' = headers.imageSize
           /\ pc' = "scan" /\ result' = result
  <2>1. size' = Window(headers)
    BY <1>2 DEF Window
  <2>2. TypeOK'
    BY <1>0, <1>2, <2>1 DEF Inv, TypeOK, WindowInv, SearchInv, ReadHeaders, args
  <2>3. WindowInv'
    BY <1>0, <1>2, <2>1 DEF Inv, WindowInv, ReadHeaders, args, Window
  <2>4. SearchInv'
    BY <1>0, <1>2 DEF Inv, SearchInv, ReadHeaders, args
  <2>5. FindsFirst'
    BY <1>2 DEF FindsFirst
  <2> QED
    BY <2>2, <2>3, <2>4, <2>5 DEF Inv
<1>3. CASE headers.valid /\ headers.format # "pe" /\ pc' = "segments"
           /\ UNCHANGED <<size, result>>
  <2>1. TypeOK'
    BY <1>0, <1>3 DEF Inv, TypeOK, ReadHeaders, args
  <2>2. WindowInv'
    BY <1>0, <1>3, HeaderFacts DEF Inv, WindowInv, ReadHeaders, args, Window
  <2>3. SearchInv'
    BY <1>0, <1>3 DEF Inv, SearchInv, ReadHeaders, args
  <2>4. FindsFirst'
    BY <1>3 DEF FindsFirst
  <2> QED
    BY <2>1, <2>2, <2>3, <2>4 DEF Inv
<1> QED
  BY <1>1, <1>2, <1>3 DEF ReadHeaders

\* So does the first executable program header; the walk over the others keeps
\* that none was executable.
LEMMA WalkSegmentsInv ==
    ASSUME Inv, WalkSegments
    PROVE  Inv'
<1>0. /\ headers \in Headers /\ size = 0 /\ ptr = 0 /\ k \in Nat \ {0} /\ i \in Nat
      /\ Window(headers) \in 0..Len(image) /\ Len(image) \in Nat
      /\ headers.valid /\ headers.format = "elf"
      /\ \A m \in 1..(k - 1) : ~headers.segments[m].wanted
      /\ headers.segments \in Seq(Segment)
      /\ UNCHANGED <<image, headers, pattern>>
      /\ result = -1 /\ result' = -1
  BY HeaderFacts DEF Inv, TypeOK, WindowInv, WalkSegments, args
<1>1. CASE /\ k \in DOMAIN headers.segments
           /\ headers.segments[k].wanted
           /\ size' = PageAlignUp(headers.segments[k].size)
           /\ pc' = "scan" /\ k' = k
  <2>1. size' = Window(headers)
    BY <1>0, <1>1, FirstExecutable
  <2>2. TypeOK'
    BY <1>0, <1>1, <2>1 DEF Inv, TypeOK, SearchInv, WalkSegments
  <2>3. WindowInv'
    BY <1>0, <1>1, <2>1 DEF WindowInv, Window
  <2> QED
    BY <1>0, <1>1, <2>2, <2>3 DEF Inv, SearchInv, WalkSegments, FindsFirst
<1>2. CASE /\ k \in DOMAIN headers.segments
           /\ ~headers.segments[k].wanted
           /\ k' = k + 1
           /\ UNCHANGED <<size, pc>>
  <2>1. TypeOK'
    BY <1>0, <1>2 DEF Inv, TypeOK, WalkSegments
  <2>2. \A m \in 1..(k' - 1) : ~headers.segments[m].wanted
    BY <1>0, <1>2
  <2>3. WindowInv'
    BY <1>0, <1>2, <2>2 DEF WindowInv, WalkSegments, Window
  <2> QED
    BY <1>0, <1>2, <2>1, <2>3 DEF Inv, SearchInv, WalkSegments, FindsFirst
<1>3. CASE /\ k \notin DOMAIN headers.segments
           /\ pc' = "scan"
           /\ UNCHANGED <<size, k>>
  <2>1. \A m \in DOMAIN headers.segments : ~headers.segments[m].wanted
    BY <1>0, <1>3 DEF Inv, TypeOK
  <2>2. Window(headers) = 0
    BY <1>0, <2>1 DEF Window
  <2>3. TypeOK'
    BY <1>0, <1>3 DEF Inv, TypeOK, WalkSegments
  <2>4. WindowInv'
    BY <1>0, <1>3, <2>2 DEF WindowInv, Window
  <2> QED
    BY <1>0, <1>3, <2>3, <2>4 DEF Inv, SearchInv, WalkSegments, FindsFirst
<1> QED
  BY <1>1, <1>2, <1>3 DEF WalkSegments

\* The load commands walked so far have been added up.
LEMMA AddSegmentsInv ==
    ASSUME Inv, AddSegments
    PROVE  Inv'
<1>0. /\ headers \in Headers /\ ptr = 0 /\ k \in 1..(Len(headers.segments) + 1) /\ i \in Nat
      /\ Window(headers) \in 0..Len(image) /\ Len(image) \in Nat
      /\ headers.valid /\ headers.format = "mach-o"
      /\ size = headers.upto[k - 1]
      /\ headers.segments \in Seq(Segment)
      /\ UNCHANGED <<image, headers, pattern>>
      /\ result = -1 /\ result' = -1
  BY HeaderFacts DEF Inv, TypeOK, WindowInv, AddSegments, args
<1>1. Window(headers) = headers.upto[Len(headers.segments)]
  BY <1>0 DEF Window
<1>2. CASE /\ k \in DOMAIN headers.segments
           /\ size' = size + (IF headers.segments[k].wanted THEN headers.segments[k].size ELSE 0)
           /\ k' = k + 1 /\ pc' = pc
  <2>1. k \in 1..Len(headers.segments)
    BY <1>0, <1>2
  <2>2. size' = headers.upto[k] /\ headers.upto[k] \in Nat /\ headers.upto[k] <= Window(headers)
    <3>1. /\ headers.upto[k] = headers.upto[k - 1]
                               + (IF headers.segments[k].wanted THEN headers.segments[k].size ELSE 0)
          /\ headers.upto[k] <= headers.upto[Len(headers.segments)]
      BY <1>0, <2>1, HeaderFacts
    <3>2. headers.upto \in [0..Len(headers.segments) -> Nat]
      BY <1>0, HeaderFacts
    <3>3. k \in 0..Len(headers.segments)
      BY <2>1
    <3>4. headers.upto[k] \in Nat
      BY <3>2, <3>3
    <3>5. size' = headers.upto[k]
      BY <1>0, <1>2, <3>1
    <3> QED
      BY <1>1, <3>1, <3>4, <3>5
  <2>3. k' \in 1..(Len(headers.segments) + 1) /\ k' - 1 = k
    BY <1>2, <2>1
  <2>4. TypeOK'
    <3>1. size' \in 0..Len(image)
      BY <1>0, <2>2
    <3>2. ptr' = 0 /\ i' = i /\ pc' = "segments"
      BY <1>0, <1>2 DEF AddSegments
    <3> QED
      BY <1>0, <2>3, <3>1, <3>2 DEF Inv, TypeOK
  <2>5. WindowInv'
    BY <1>0, <1>2, <2>2, <2>3 DEF WindowInv, AddSegments, Window
  <2> QED
    BY <1>0, <1>2, <2>4, <2>5 DEF Inv, SearchInv, AddSegments, FindsFirst
<1>3. CASE k \notin DOMAIN headers.segments /\ pc' = "scan" /\ UNCHANGED <<size, k>>
  <2>1. k - 1 = Len(headers.segments)
    BY <1>0, <1>3
  <2>2. size' = Window(headers)
    BY <1>0, <1>1, <1>3, <2>1
  <2>3. TypeOK'
    BY <1>0, <1>3 DEF Inv, TypeOK, AddSegments
  <2>4. WindowInv'
    BY <1>0, <1>3, <2>2 DEF WindowInv, Window
  <2> QED
    BY <1>0, <1>3, <2>3, <2>4 DEF Inv, SearchInv, AddSegments, FindsFirst
<1> QED
  BY <1>2, <1>3 DEF AddSegments

\* What the loops of FindPattern leave alone.
LEMMA ScanFacts ==
    ASSUME Inv, Scan \/ Compare
    PROVE  /\ ptr \in Nat /\ i \in Nat /\ size \in Nat /\ Len(pattern) \in Nat
           /\ Len(image) \in Nat
           /\ headers.valid /\ size = Window(headers)
           /\ UNCHANGED <<image, headers, pattern, size, k>>
           /\ \A q, j : Agree(q, j)' <=> Agree(q, j)
           /\ \A q : MatchAt(q)' <=> MatchAt(q)
           /\ Window(headers)' = Window(headers)
<1>1. /\ pc \in {"scan", "compare"}
      /\ UNCHANGED <<image, headers, pattern, size, k>>
  BY DEF Scan, Compare, Match, Mismatch, ReadFaults, Found, Return, args
<1>2. /\ ptr \in Nat /\ i \in Nat /\ size \in Nat /\ Len(pattern) \in Nat
      /\ Len(image) \in Nat
      /\ headers.valid /\ size = Window(headers)
  BY <1>1 DEF Inv, TypeOK, WindowInv
<1>3. \A q, j : Agree(q, j)' <=> Agree(q, j)
  BY <1>1 DEF Agree, Mapped
<1>4. \A q : MatchAt(q)' <=> MatchAt(q)
  BY <1>1 DEF MatchAt, Agree, Mapped
<1>5. Window(headers)' = Window(headers)
  BY <1>1 DEF Window
<1> QED
  BY <1>1, <1>2, <1>3, <1>4, <1>5

\* At the end of the window no place has matched.
LEMMA ScanInv ==
    ASSUME Inv, Scan
    PROVE  Inv'
<1> USE ScanFacts DEF Scan, Return
<1>1. TypeOK'
  BY DEF Inv, TypeOK, args
<1>2. WindowInv'
  BY DEF Inv, WindowInv
<1>3. SearchInv'
  BY DEF Inv, SearchInv, TypeOK
<1>4. CASE ptr < size
  BY <1>1, <1>2, <1>3, <1>4 DEF Inv, FindsFirst
<1>5. CASE ptr >= size
  <2>1. \A q \in 0..(Window(headers) - 1) : ~MatchAt(q)
    BY <1>5 DEF Inv, SearchInv
  <2>2. FindsFirst'
    BY <1>5, <2>1 DEF FindsFirst
  <2> QED
    BY <1>1, <1>2, <1>3, <2>2 DEF Inv
<1> QED
  BY <1>4, <1>5

\* A byte that agrees extends the match, a byte that does not refutes the place,
\* and the end of the pattern makes it the first that matches.
LEMMA CompareInv ==
    ASSUME Inv, Compare
    PROVE  Inv'
<1>0. /\ ptr \in Nat /\ i \in Nat /\ size \in Nat /\ Len(pattern) \in Nat
      /\ Len(image) \in Nat
      /\ headers.valid /\ size = Window(headers)
      /\ UNCHANGED <<image, headers, pattern, size, k>>
      /\ pc = "compare" /\ ptr < size /\ i <= Len(pattern)
  BY ScanFacts DEF Inv, TypeOK, SearchInv, Compare, Match, Mismatch, ReadFaults, Found
<1>1. /\ \A q, j : Agree(q, j)' <=> Agree(q, j)
      /\ \A q : MatchAt(q)' <=> MatchAt(q)
      /\ Window(headers)' = Window(headers)
  BY ScanFacts
<1>2. WindowInv'
  BY <1>0, <1>1 DEF Inv, WindowInv, Compare, Match, Mismatch, ReadFaults, Found, Return
<1>3. TypeOK'
  BY <1>0 DEF Inv, TypeOK, Compare, Match, Mismatch, ReadFaults, Found, Return
<1>4. CASE Match
  <2>1. \A j \in 0..(i' - 1) : Agree(ptr, j)
    BY <1>0, <1>4 DEF Inv, SearchInv, Match
  <2>2. SearchInv'
    BY <1>0, <1>1, <1>4, <2>1 DEF Inv, SearchInv, Match
  <2> QED
    BY <1>0, <1>2, <1>3, <1>4, <2>2 DEF Inv, Match, FindsFirst
<1>5. CASE Mismatch
  <2>1. ~MatchAt(ptr)
    BY <1>0, <1>5 DEF Mismatch, MatchAt
  <2>2. \A q \in 0..(ptr' - 1) : ~MatchAt(q)
    BY <1>0, <1>5, <2>1 DEF Inv, SearchInv, Mismatch
  <2>3. SearchInv'
    BY <1>1, <1>5, <2>2 DEF SearchInv, Mismatch
  <2> QED
    BY <1>2, <1>3, <1>5, <2>3 DEF Inv, Mismatch, FindsFirst
<1>6. CASE ReadFaults
  <2>1. SearchInv'
    BY <1>0, <1>1, <1>6 DEF Inv, SearchInv, ReadFaults, Unreadable, Mapped
  <2> QED
    BY <1>2, <1>3, <1>6, <2>1 DEF Inv, ReadFaults, FindsFirst
<1>7. CASE Found
  <2>1. MatchAt(ptr)
    BY <1>0, <1>7 DEF Inv, SearchInv, Found, MatchAt
  <2>2. \A q \in 0..(Window(headers) - 1) : MatchAt(q) => ptr <= q
    BY <1>0 DEF Inv, SearchInv
  <2>3. FindsFirst'
    BY <1>0, <1>1, <1>7, <2>1, <2>2 DEF Found, Return, FindsFirst
  <2>4. SearchInv'
    BY <1>0, <1>1, <1>7 DEF Inv, SearchInv, Found, Return
  <2> QED
    BY <1>2, <1>3, <2>3, <2>4 DEF Inv
<1> QED
  BY <1>4, <1>5, <1>6, <1>7 DEF Compare

-----------------------------------------------------------------------------
\* Places before ptr have been refuted and bytes before i agree, in every behaviour.
THEOREM ScanInvariant == Spec => []Inv
<1>1. Inv /\ UNCHANGED vars => Inv'
  <2> SUFFICES ASSUME Inv, UNCHANGED vars PROVE Inv'
    OBVIOUS
  <2> USE DEF vars, args
  <2>1. TypeOK'
    BY DEF Inv, TypeOK
  <2>2. WindowInv'
    BY DEF Inv, WindowInv, Window
  <2>3. /\ \A q, j : Agree(q, j)' <=> Agree(q, j)
        /\ \A q : MatchAt(q)' <=> MatchAt(q)
        /\ Window(headers)' = Window(headers)
    BY DEF MatchAt, Agree, Mapped, Window
  <2>4. SearchInv'
    BY <2>3 DEF Inv, SearchInv, Mapped
  <2>5. FindsFirst'
    BY <2>3 DEF Inv, FindsFirst
  <2> QED
    BY <2>1, <2>2, <2>4, <2>5 DEF Inv
<1>2. Inv /\ [Next]_vars => Inv'
  BY <1>1, ReadHeadersInv, WalkSegmentsInv, AddSegmentsInv, ScanInv, CompareInv DEF Next
<1> QED
  BY <1>2, InitInv, PTL DEF Spec

\* Type correctness.
THEOREM ScanTypeCorrect == Spec => []TypeOK
<1>1. Inv => TypeOK
  BY DEF Inv
<1> QED
  BY <1>1, ScanInvariant, PTL

\* The answer is the first place of the window that matches.
THEOREM ScanCorrect == Spec => []FindsFirst
<1>1. Inv => FindsFirst
  BY DEF Inv
<1> QED
  BY <1>1, ScanInvariant, PTL

\* When the function is there, nothing behind the window is read.
THEOREM ScanInside == Spec => []ReadsInsideIfPresent
<1>1. Inv => ReadsInsideIfPresent
  <2> SUFFICES ASSUME Inv, NEW q \in 0..(size - Len(pattern)), MatchAt(q)
               PROVE  /\ pc = "compare" /\ i < Len(pattern) => ptr + i < size
                      /\ pc # "fault"
    BY DEF ReadsInsideIfPresent
  <2>1. /\ ptr \in Nat /\ i \in Nat /\ size \in Nat /\ Len(pattern) \in Nat
        /\ Len(image) \in Nat /\ size <= Len(image)
        /\ q \in Nat /\ q + Len(pattern) <= size
    BY DEF Inv, TypeOK
  <2>2. ptr <= q
    BY <2>1 DEF Inv, SearchInv
  <2>3. pc # "fault"
    BY <2>1, <2>2 DEF Inv, SearchInv, Mapped
  <2> QED
    BY <2>1, <2>2, <2>3
<1> QED
  BY <1>1, ScanInvariant, PTL

\* A search that faults has agreed with everything up to the end of the memory.
THEOREM ScanFaults == Spec => []FaultsOnlyOnPartialMatch
<1>1. Inv => FaultsOnlyOnPartialMatch
  <2> SUFFICES ASSUME Inv, pc = "fault", NEW j \in 0..(Len(image) - ptr - 1)
               PROVE  Agree(ptr, j)
    BY DEF FaultsOnlyOnPartialMatch
  <2>1. ptr \in Nat /\ i \in Nat /\ Len(image) \in Nat /\ j < i
    BY DEF Inv, TypeOK, SearchInv, Mapped
  <2> QED
    BY <2>1 DEF Inv, SearchInv
<1> QED
  BY <1>1, ScanInvariant, PTL
-----------------------------------------------------------------------------
\* How many steps the search can still take at most: one for each header that is
\* left, and for each place that is left the test, a comparison of every byte of the
\* pattern, and the answer.
PerPlace == Len(pattern) + 3
Left(n) == (Len(image) - n) * PerPlace
Turns(place) ==
    IF place = "compare" THEN Len(pattern) - i + 1
    ELSE IF place = "scan" THEN Len(pattern) + 2
    ELSE IF place = "segments" THEN Len(pattern) + Len(headers.segments) + 4 - k
    ELSE Len(pattern) + Len(headers.segments) + 5
Ended == pc \in {"done", "fault"}
Remaining == IF Ended THEN 0 ELSE Left(ptr) + Turns(pc)

\* The place after the next one has less left, by what one place takes.
LEMMA LeftDrops ==
    ASSUME Inv
    PROVE  /\ Len(image) \in Nat /\ Len(pattern) \in Nat /\ Len(headers.segments) \in Nat
           /\ ptr \in 0..Len(image) /\ i \in 0..Len(pattern)
           /\ k \in 1..Len(headers.segments) + 1
           /\ Left(ptr) \in Nat /\ Left(ptr + 1) = Left(ptr) - PerPlace
<1>1. /\ Len(image) \in Nat /\ Len(pattern) \in Nat
      /\ ptr \in 0..Len(image) /\ i \in 0..Len(pattern) /\ k \in 1..Len(headers.segments) + 1
  BY DEF Inv, TypeOK
<1>2. Len(headers.segments) \in Nat
  BY HeaderFacts DEF Inv, TypeOK
<1>3. \A a, b \in Nat : a * b \in Nat /\ (a - 1) * b = a * b - b
  OBVIOUS
<1>4. Len(image) - ptr \in Nat /\ PerPlace \in Nat /\ Len(image) - (ptr + 1) = (Len(image) - ptr) - 1
  BY <1>1 DEF PerPlace
<1>5. QED
  BY <1>1, <1>2, <1>3, <1>4 DEF Left

\* What remains at each place.
LEMMA RemainingAt ==
    /\ pc = "headers" => Remaining = Left(ptr) + (Len(pattern) + Len(headers.segments) + 5)
    /\ pc = "segments" => Remaining = Left(ptr) + (Len(pattern) + Len(headers.segments) + 4 - k)
    /\ pc = "scan" => Remaining = Left(ptr) + (Len(pattern) + 2)
    /\ pc = "compare" => Remaining = Left(ptr) + (Len(pattern) - i + 1)
    /\ Ended => Remaining = 0
BY Zenon DEF Remaining, Turns, Ended

\* The same after a step.
LEMMA RemainingAtNext ==
    ASSUME UNCHANGED args
    PROVE  /\ pc' = "segments" => Remaining' = Left(ptr') + (Len(pattern) + Len(headers.segments) + 4 - k')
           /\ pc' = "scan" => Remaining' = Left(ptr') + (Len(pattern) + 2)
           /\ pc' = "compare" => Remaining' = Left(ptr') + (Len(pattern) - i' + 1)
           /\ Ended' => Remaining' = 0
<1>1. image' = image /\ headers' = headers /\ pattern' = pattern
  BY DEF args
<1>2. Left(ptr)' = Left(ptr')
  BY Zenon, <1>1 DEF Left, PerPlace
<1>3. QED
  BY Zenon, <1>1, <1>2 DEF Remaining, Turns, Ended

\* Each step of the search lowers what remains, whatever the library's headers say
\* and whatever is mapped: the walk over the headers and the search both move on, and
\* a mismatch gives up one place for good.  This is why Terminates holds.
THEOREM ScanRunsOut ==
    Spec => /\ [](Remaining \in Nat)
            /\ [][Remaining' < Remaining]_vars
<1>1. Inv => Remaining \in Nat
  <2> SUFFICES ASSUME Inv PROVE Remaining \in Nat
    OBVIOUS
  <2>1. Ended \/ pc = "headers" \/ pc = "segments" \/ pc = "scan" \/ pc = "compare"
    BY Zenon DEF Inv, TypeOK, Ended
  <2>2. CASE Ended
    BY <2>2, RemainingAt
  <2>3. CASE pc = "headers" \/ pc = "segments"
    <3>1. \/ Remaining = Left(ptr) + (Len(pattern) + Len(headers.segments) + 5)
          \/ Remaining = Left(ptr) + (Len(pattern) + Len(headers.segments) + 4 - k)
      BY Zenon, <2>3, RemainingAt
    <3>2. /\ Len(pattern) \in Nat /\ Len(headers.segments) \in Nat /\ Left(ptr) \in Nat
          /\ k \in Nat /\ k <= Len(headers.segments) + 1
      BY LeftDrops
    <3>3. QED
      BY <3>1, <3>2
  <2>4. CASE pc = "scan" \/ pc = "compare"
    BY <2>4, LeftDrops, RemainingAt
  <2>5. QED
    BY Zenon, <2>1, <2>2, <2>3, <2>4
<1>2. Inv /\ Inv' /\ [Next]_vars => [Remaining' < Remaining]_vars
  <2> SUFFICES ASSUME Inv, Inv', Next PROVE Remaining' < Remaining
    OBVIOUS
  <2>1. UNCHANGED args
    BY Zenon DEF Next, ReadHeaders, WalkSegments, AddSegments, Scan, Compare, Match, Mismatch,
                 ReadFaults, Found
  <2>2. CASE ReadHeaders
    <3>1. pc = "headers" /\ k' = k /\ ptr' = ptr /\ (Ended' \/ pc' = "scan" \/ pc' = "segments")
      BY Zenon, <2>2 DEF ReadHeaders, Return, Ended
    <3>2. QED
      BY <2>1, <3>1, LeftDrops, RemainingAt, RemainingAtNext
  <2>3. CASE WalkSegments \/ AddSegments
    <3>1. /\ pc = "segments" /\ ptr' = ptr
          /\ pc' = "scan" \/ (pc' = "segments" /\ k' = k + 1)
      BY Zenon, <2>3 DEF WalkSegments, AddSegments
    <3>2. QED
      BY <2>1, <3>1, LeftDrops, RemainingAt, RemainingAtNext
  <2>4. CASE Scan
    <3>1. pc = "scan" /\ ptr' = ptr /\ (Ended' \/ (pc' = "compare" /\ i' = 0))
      BY Zenon, <2>4 DEF Scan, Return, Ended
    <3>2. QED
      BY <2>1, <3>1, LeftDrops, RemainingAt, RemainingAtNext
  <2>5. CASE Compare
    <3>1. /\ pc = "compare"
          /\ \/ Ended'
             \/ pc' = "compare" /\ i' = i + 1 /\ ptr' = ptr
             \/ pc' = "scan" /\ ptr' = ptr + 1
      BY Zenon, <2>5 DEF Compare, Match, Mismatch, ReadFaults, Found, Return, Ended
    <3>2. QED
      BY <2>1, <3>1, LeftDrops, RemainingAt, RemainingAtNext DEF PerPlace
  <2>6. QED
    BY Zenon, <2>2, <2>3, <2>4, <2>5 DEF Next
<1>3. QED
  BY ScanInvariant, <1>1, <1>2, PTL DEF Spec
=============================================================================
