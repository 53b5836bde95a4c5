----------------------- MODULE TickrateEnablerProofs ------------------------
(* Theorems about the plugin, for any sites, any cvars and any number of     *)
(* mappings of the module and calls of Load and Unload.                      *)
EXTENDS ServerRates, PatchManagerProofs

-----------------------------------------------------------------------------
\* The inductive invariant.

Clean == code = pristine
AllDirty == \A s \in Site : code[s] # pristine[s]
Live(p) == life[p] = "live"

\* Which loop runs in which phase, and which objects a phase has built.
OpOf(ph) == CASE ph = "patching" -> "patchAll"
              [] ph = "unpatching" -> "unpatchAll"
              [] ph \in {"unregistering", "teardown"} -> "unregisterAll"
              [] OTHER -> "idle"
PhaseInv ==
    /\ op = OpOf(phase)
    /\ phase # "unmapped" => module > 0
    /\ phase \in {"unmapped", "teardown", "patching", "cvar", "uncap"} => ~up
    /\ phase = "unmapped" => patchList = <<>>
    /\ phase # "boomer" => inner = <<>>
    /\ \A i \in DOMAIN inner :
          /\ i <= Len(BoomerReads) /\ inner[i] = ObjectFor(BoomerReads[i])
          /\ Live(inner[i]) /\ inner[i] \notin Listed /\ ~patched[inner[i]]

\* Every live object is that of the module mapped now, is in one of the lists,
\* and, once applied, can be undone.
ObjectInv ==
    \A p \in Patches : Live(p) =>
       /\ p \in Listed \cup Range(inner)
       /\ replacement[p][p[1]] = Wanted(p[1])
       /\ patched[p] => original[p][p[1]] = pristine[p[1]]

\* What a site may hold.
CodeInv ==
    /\ pristine \in [Site -> {Expected, Unexpected}]
    /\ \A s \in Site : \/ code[s] = pristine[s]
                       \/ s \in BoomerSite /\ \E m \in 1..MaxModules : code[s] = Fake(m)
                       \/ s \in RateSite /\ code[s] = Rewritten
    /\ host.icvar => \A s \in Site : code[s] \in {pristine[s], Wanted(s)}

\* Outside the loops that write code it is all or nothing.
Resting == {"unmapped", "idle", "interfaces", "boomer", "rates", "recap", "teardown"}
RestInv ==
    phase \in Resting => /\ Clean \/ AllDirty
                         /\ host.icvar => IF up THEN AllPatched ELSE Clean

\* Load: on clean code every snapshot is the library's own, and a rate patch is
\* only built on clean code.
Unapplied == {"idle", "interfaces", "boomer", "rates", "patching"}
SnapshotInv ==
    /\ phase \in Unapplied /\ (Clean \/ phase = "patching") =>
          \A p \in Patches : Live(p) => original[p][p[1]] = pristine[p[1]]
    /\ phase = "boomer" => built = 0
    /\ phase = "rates" =>
          /\ \A s \in BoomerSite : ObjectFor(s) \in Listed
          /\ \A j \in 1..built : /\ ObjectFor(RateSites[j]) \in Listed
                                 /\ code[RateSites[j]] = pristine[RateSites[j]]
          /\ built > 0 => host.engine
    /\ phase = "patching" =>
          /\ \A s \in Site : ObjectFor(s) \in Listed
          /\ \A i \in DOMAIN patchList :
                i < cursor /\ fault = "none" => code[patchList[i][1]] = Wanted(patchList[i][1])
    /\ phase \in {"cvar", "uncap"} => AllPatched

\* Applied objects are in force, and cover every site that is not clean.
ForceInv ==
    /\ phase \notin {"unpatching", "unregistering"} =>
          \A p \in Patches : Live(p) /\ patched[p] => code[p[1]] = Wanted(p[1])
    /\ host.icvar => \A s \in Site :
          code[s] = pristine[s] \/ \E p \in Listed : Live(p) /\ patched[p] /\ p[1] = s
    /\ phase = "unregistering" => Clean

\* The cvars, the hook and the NULL checks.
CvarInv ==
    /\ pCvar => host.icvar
    /\ up => hooks > 0 /\ pCvar /\ host.missing = {} /\ crash # "unload"
    /\ up /\ phase \in {"idle", "interfaces", "boomer", "rates"} => capped = {}
    /\ phase \in {"boomer", "rates", "patching", "cvar", "uncap"} => hooks > 0
    /\ phase = "uncap" => /\ pCvar
                          /\ crash # "unload"
                          /\ \A k \in DOMAIN Cvars : k < step =>
                                Cvars[k] \notin capped /\ Cvars[k] \notin host.missing
    /\ phase = "recap" => \A k \in DOMAIN Cvars : k < step => pCvar /\ Cvars[k] \in capped
    /\ phase \in {"unpatching", "unregistering"} => capped = Range(Cvars) /\ pCvar
    /\ capped # Range(Cvars) => host.icvar /\ AllPatched
    /\ hooks <= loads /\ (phase = "interfaces" => hooks < loads)

\* Without VEngineServer nothing is ever applied.
EngineInv ==
    ~host.engine => /\ Clean /\ ~up
                    /\ phase \notin {"patching", "cvar", "uncap"}
                    /\ \A p \in Patches : Live(p) => ~patched[p]

IInv == /\ ManagerInv /\ TypeOK /\ PhaseInv /\ ObjectInv /\ CodeInv /\ RestInv
        /\ SnapshotInv /\ ForceInv /\ CvarInv /\ EngineInv

-----------------------------------------------------------------------------
\* What two sequences one after the other hold.
LEMMA ConcatRange ==
    ASSUME NEW S, NEW a \in Seq(S), NEW b \in Seq(S)
    PROVE  Range(a \o b) = Range(a) \cup Range(b)
<1>1. /\ DOMAIN a = 1..Len(a) /\ DOMAIN b = 1..Len(b) /\ Len(a) \in Nat /\ Len(b) \in Nat
      /\ DOMAIN (a \o b) = 1..Len(a) + Len(b)
      /\ \A i \in 1..Len(a) : (a \o b)[i] = a[i]
      /\ \A i \in 1..Len(b) : (a \o b)[Len(a) + i] = b[i]
  OBVIOUS
<1>2. \A i \in DOMAIN (a \o b) : i \in DOMAIN a \/ (i - Len(a) \in DOMAIN b /\ i = Len(a) + (i - Len(a)))
  BY <1>1
<1>3. Range(a \o b) \subseteq Range(a) \cup Range(b)
  <2> SUFFICES ASSUME NEW i \in DOMAIN (a \o b) PROVE (a \o b)[i] \in Range(a) \cup Range(b)
    BY DEF Range
  <2>1. CASE i \in DOMAIN a
    BY <1>1, <2>1 DEF Range
  <2>2. CASE i \notin DOMAIN a
    <3> DEFINE j == i - Len(a)
    <3>1. j \in DOMAIN b /\ i = Len(a) + j
      BY <1>2, <2>2
    <3>2. (a \o b)[i] = b[j]
      BY <1>1, <3>1
    <3>3. QED
      BY <3>1, <3>2 DEF Range
  <2>3. QED
    BY <2>1, <2>2
<1>4. ASSUME NEW i \in DOMAIN a PROVE a[i] \in Range(a \o b)
  <2>1. i \in DOMAIN (a \o b) /\ (a \o b)[i] = a[i]
    BY <1>1
  <2>2. QED
    BY <2>1 DEF Range
<1>5. ASSUME NEW i \in DOMAIN b PROVE b[i] \in Range(a \o b)
  <2>1. Len(a) + i \in DOMAIN (a \o b) /\ (a \o b)[Len(a) + i] = b[i]
    BY <1>1
  <2>2. QED
    BY <2>1 DEF Range
<1>6. QED
  BY <1>3, <1>4, <1>5 DEF Range

\* What the assumptions say of one object and of one site.
LEMMA ObjectFacts ==
    ASSUME NEW p \in Patches
    PROVE  /\ p[1] \in Site /\ p[2] \in 1..MaxLoads /\ p = <<p[1], p[2]>>
           /\ Target[p] = {p[1]} /\ ~PatchTimeCopy[p]
BY ObjectAssumption

\* The sites of the two kinds.
LEMMA SiteFacts ==
    /\ BoomerSite \subseteq Site /\ RateSite \subseteq Site
    /\ \A s \in Site : s \in BoomerSite \/ s \in RateSite
    /\ \A s \in BoomerSite : s \notin RateSite
    /\ \A s \in RateSite : s \notin BoomerSite
BY SiteAssumption

\* The two sequences enumerate them without repetition.
LEMMA SequenceFacts ==
    ASSUME NEW S \in Seq(Site), IsInjective(S), S # <<>>
    PROVE  /\ Len(S) \in Nat \ {0} /\ DOMAIN S = 1..Len(S)
           /\ \A i \in 1..Len(S) : S[i] \in Range(S)
           /\ \A s \in Range(S) : \E i \in 1..Len(S) : s = S[i]
           /\ \A i, j \in 1..Len(S) : S[i] = S[j] => i = j
<1>1. DOMAIN S = 1..Len(S) /\ Len(S) \in Nat
  OBVIOUS
<1>2. Len(S) # 0
  OBVIOUS
<1>3. QED
  BY <1>1, <1>2 DEF Range, IsInjective

\* So the frametime reads enumerate the Boomer sites.
LEMMA ReadFacts ==
    /\ Len(BoomerReads) \in Nat \ {0} /\ DOMAIN BoomerReads = 1..Len(BoomerReads)
    /\ \A i \in 1..Len(BoomerReads) : BoomerReads[i] \in BoomerSite
    /\ \A s \in BoomerSite : \E i \in 1..Len(BoomerReads) : s = BoomerReads[i]
    /\ \A i, j \in 1..Len(BoomerReads) : BoomerReads[i] = BoomerReads[j] => i = j
BY SiteAssumption, SequenceFacts DEF BoomerSite

\* And the rate patches theirs.
LEMMA RateFacts ==
    /\ Len(RateSites) \in Nat \ {0} /\ DOMAIN RateSites = 1..Len(RateSites)
    /\ \A i \in 1..Len(RateSites) : RateSites[i] \in RateSite
    /\ \A s \in RateSite : \E i \in 1..Len(RateSites) : s = RateSites[i]
    /\ \A i, j \in 1..Len(RateSites) : RateSites[i] = RateSites[j] => i = j
BY SiteAssumption, SequenceFacts DEF RateSite

\* The contents of sites are told apart.
LEMMA ByteFacts ==
    /\ Expected # Unexpected /\ Expected # Rewritten /\ Unexpected # Rewritten
    /\ \A m \in Nat : Fake(m) \notin {Expected, Unexpected, Rewritten}
    /\ \A m, n \in Nat : Fake(m) = Fake(n) => m = n
    /\ {Expected, Unexpected, Rewritten} \subseteq Byte
    /\ \A m \in 1..MaxModules : Fake(m) \in Byte
    /\ MovSource = {Expected} \cup {Fake(m) : m \in 1..MaxModules}
BY CodeAssumption DEF Expected, Unexpected, Rewritten, Fake, MovSource

\* The cvars.
LEMMA CvarFacts ==
    /\ Len(Cvars) \in Nat \ {0} /\ DOMAIN Cvars = 1..Len(Cvars)
    /\ Range(Cvars) = {Cvars[k] : k \in 1..Len(Cvars)}
BY CvarAssumption DEF Range

\* No site's own code is the plugin's.
LEMMA PristineFacts ==
    ASSUME CodeInv, NEW s \in Site, NEW m \in Nat
    PROVE  pristine[s] # Fake(m) /\ pristine[s] # Rewritten
BY ByteFacts DEF CodeInv

\* Untouched code is not patched code.
LEMMA CleanNotPatched ==
    ASSUME CodeInv, Clean, module \in Nat
    PROVE  ~AllPatched
<1>1. PICK s \in Site : s \in BoomerSite
  BY SiteFacts, ReadFacts
<1>2. QED
  BY <1>1, PristineFacts DEF Clean, AllPatched, Wanted

\* A call that leaves the manager alone.
LEMMA HostMapInv ==
    ASSUME IInv, HostMap
    PROVE  IInv'
<1>1. ManagerInv'
  BY ManagerStutterInv DEF IInv, HostMap
<1> USE DEF IInv, HostMap, At, managerVars, binVars, memory, objects, loopVars
<1>2. TypeOK'
  <2>1. module' \in 0..MaxModules
    BY BoundAssumption DEF TypeOK
  <2>2. pCvar' \in BOOLEAN
    OBVIOUS
  <2>3. QED
    BY <1>1, <2>1, <2>2, Zenon DEF TypeOK, ManagerInv
<1>3. PhaseInv'
  BY DEF PhaseInv, OpOf, TypeOK, Listed, Live, ObjectFor
<1>4. ObjectInv'
  BY DEF ObjectInv, PhaseInv, Live, Listed, Range, Wanted
<1>5. CodeInv'
  BY DEF CodeInv, RestInv, Resting, PhaseInv, Clean, Wanted
<1>6. RestInv'
  BY DEF RestInv, Resting, PhaseInv, Clean, AllDirty, AllPatched, Wanted
<1>7. SnapshotInv'
  BY DEF SnapshotInv, ObjectInv, PhaseInv, Live, Listed, Range
<1>8. ForceInv'
  BY DEF ForceInv, ObjectInv, PhaseInv, Live, Listed, Range
<1>9. CvarInv'
  <2>1. capped = Range(Cvars)
    BY CleanNotPatched DEF CvarInv, PhaseInv, RestInv, Resting, TypeOK
  <2>2. QED
    BY <2>1 DEF CvarInv, PhaseInv, Range
<1>10. EngineInv'
  BY DEF EngineInv, PhaseInv, Clean, Live
<1>11. QED
  BY <1>1, <1>2, <1>3, <1>4, <1>5, <1>6, <1>7, <1>8, <1>9, <1>10

\* The code is clean when every site is.
LEMMA CleanEverywhere ==
    ASSUME IInv, \A s \in Site : code[s] = pristine[s]
    PROVE  Clean
<1>1. code \in [Site -> Byte] /\ pristine \in [Site -> Byte]
  BY DEF IInv, ManagerInv, BinInv, BinTypeOK
<1>2. QED
  BY <1>1 DEF Clean

\* Patched at every site, no site is clean.
LEMMA PatchedIsDirty ==
    ASSUME CodeInv, AllPatched, module \in Nat
    PROVE  AllDirty
BY PristineFacts DEF AllDirty, AllPatched, Wanted

\* What a step leaves alone that touches neither the code nor the objects.
LEMMA Untouched ==
    ASSUME IInv, UNCHANGED <<binVars, patchList, host, module, inner>>
    PROVE  /\ ObjectInv' /\ CodeInv'
           /\ (Clean' <=> Clean) /\ (AllDirty' <=> AllDirty) /\ (AllPatched' <=> AllPatched)
           /\ Listed' = Listed /\ \A p \in Patches : Live(p)' <=> Live(p)
           /\ \A s \in Site : Wanted(s)' = Wanted(s)
<1> USE DEF binVars, memory, objects
<1>2. Listed' = Listed /\ \A p \in Patches : Live(p)' <=> Live(p)
  BY DEF Listed, Live
<1>3. \A s \in Site : Wanted(s)' = Wanted(s)
  BY DEF Wanted
<1>4. ObjectInv'
  BY DEF IInv, ObjectInv, Listed, Live, Wanted, Range
<1>5. CodeInv'
  BY DEF IInv, CodeInv, Wanted
<1>6. (Clean' <=> Clean) /\ (AllDirty' <=> AllDirty) /\ (AllPatched' <=> AllPatched)
  BY DEF Clean, AllDirty, AllPatched, Wanted
<1>7. QED
  BY <1>2, <1>3, <1>4, <1>5, <1>6

\* The server calls Load.
LEMMA HostLoadInv ==
    ASSUME IInv, HostLoad
    PROVE  IInv'
<1> USE DEF HostLoad, At, Alive
<1>1. /\ ManagerInv' /\ ObjectInv' /\ CodeInv'
      /\ (Clean' <=> Clean) /\ (AllDirty' <=> AllDirty) /\ (AllPatched' <=> AllPatched)
      /\ Listed' = Listed /\ \A p \in Patches : Live(p)' <=> Live(p)
      /\ \A s \in Site : Wanted(s)' = Wanted(s)
      /\ UNCHANGED <<managerVars, host, module, inner>>
  BY Untouched, ManagerStutterInv DEF IInv, managerVars, loopVars
<1> USE DEF IInv, managerVars, binVars, memory, objects, loopVars
<1>2. TypeOK'
  BY <1>1, BoundAssumption, RateFacts, CvarFacts DEF TypeOK, CvarInv, ManagerInv, GiveUp
<1>3. PhaseInv'
  BY <1>1, ReadFacts DEF PhaseInv, OpOf, TypeOK, GiveUp, ObjectFor
<1>4. RestInv'
  BY <1>1, CleanNotPatched, PatchedIsDirty DEF RestInv, Resting, PhaseInv, SnapshotInv, TypeOK, GiveUp
<1>5. SnapshotInv'
  BY <1>1, CleanNotPatched DEF SnapshotInv, Unapplied, PhaseInv, RestInv, Resting, GiveUp, TypeOK, ObjectFor
<1>6. ForceInv'
  BY <1>1 DEF ForceInv, GiveUp, Live, Wanted
<1>7. CvarInv'
  BY <1>1, CvarFacts DEF CvarInv, SnapshotInv, PhaseInv, TypeOK, GiveUp
<1>8. EngineInv'
  BY <1>1 DEF EngineInv, GiveUp
<1>9. QED
  BY <1>1, <1>2, <1>3, <1>4, <1>5, <1>6, <1>7, <1>8

\* The server calls Unload.
LEMMA HostUnloadInv ==
    ASSUME IInv, HostUnload
    PROVE  IInv'
<1> USE DEF HostUnload, At, Alive
<1>1. /\ ManagerInv' /\ ObjectInv' /\ CodeInv'
      /\ (Clean' <=> Clean) /\ (AllDirty' <=> AllDirty) /\ (AllPatched' <=> AllPatched)
      /\ Listed' = Listed /\ \A p \in Patches : Live(p)' <=> Live(p)
      /\ \A s \in Site : Wanted(s)' = Wanted(s)
      /\ UNCHANGED <<managerVars, host, module, inner>>
  BY Untouched, ManagerStutterInv DEF IInv, managerVars, loopVars
<1> USE DEF IInv, managerVars, binVars, memory, objects, loopVars
<1>2. TypeOK'
  BY <1>1, BoundAssumption, RateFacts, CvarFacts DEF TypeOK, CvarInv, ManagerInv, GiveUp
<1>3. PhaseInv'
  BY <1>1, ReadFacts DEF PhaseInv, OpOf, TypeOK, GiveUp, ObjectFor
<1>4. RestInv'
  BY <1>1, CleanNotPatched, PatchedIsDirty DEF RestInv, Resting, PhaseInv, SnapshotInv, TypeOK, GiveUp
<1>5. SnapshotInv'
  BY <1>1, CleanNotPatched DEF SnapshotInv, Unapplied, PhaseInv, RestInv, Resting, GiveUp, TypeOK, ObjectFor
<1>6. ForceInv'
  BY <1>1 DEF ForceInv, GiveUp, Live, Wanted
<1>7. CvarInv'
  BY <1>1, CvarFacts DEF CvarInv, SnapshotInv, PhaseInv, TypeOK, GiveUp
<1>8. EngineInv'
  BY <1>1 DEF EngineInv, GiveUp
<1>9. QED
  BY <1>1, <1>2, <1>3, <1>4, <1>5, <1>6, <1>7, <1>8

\* Load looks for the interfaces and adds the hook.
LEMMA FindInterfacesInv ==
    ASSUME IInv, FindInterfaces
    PROVE  IInv'
<1> USE DEF FindInterfaces, At, Alive
<1>1. /\ ManagerInv' /\ ObjectInv' /\ CodeInv'
      /\ (Clean' <=> Clean) /\ (AllDirty' <=> AllDirty) /\ (AllPatched' <=> AllPatched)
      /\ Listed' = Listed /\ \A p \in Patches : Live(p)' <=> Live(p)
      /\ \A s \in Site : Wanted(s)' = Wanted(s)
      /\ UNCHANGED <<managerVars, host, module, inner>>
  BY Untouched, ManagerStutterInv DEF IInv, managerVars, loopVars
<1> USE DEF IInv, managerVars, binVars, memory, objects, loopVars
<1>2. TypeOK'
  BY <1>1, BoundAssumption, RateFacts, CvarFacts DEF TypeOK, CvarInv, ManagerInv, GiveUp
<1>3. PhaseInv'
  BY <1>1, ReadFacts DEF PhaseInv, OpOf, TypeOK, GiveUp, ObjectFor
<1>4. RestInv'
  BY <1>1, CleanNotPatched, PatchedIsDirty DEF RestInv, Resting, PhaseInv, SnapshotInv, TypeOK, GiveUp
<1>5. SnapshotInv'
  BY <1>1, CleanNotPatched DEF SnapshotInv, Unapplied, PhaseInv, RestInv, Resting, GiveUp, TypeOK, ObjectFor
<1>6. ForceInv'
  BY <1>1 DEF ForceInv, GiveUp, Live, Wanted
<1>7. CvarInv'
  BY <1>1, CvarFacts DEF CvarInv, SnapshotInv, PhaseInv, TypeOK, GiveUp
<1>8. EngineInv'
  BY <1>1 DEF EngineInv, GiveUp
<1>9. QED
  BY <1>1, <1>2, <1>3, <1>4, <1>5, <1>6, <1>7, <1>8

\* The constructor of a rate patch throws.
LEMMA RateThrowsInv ==
    ASSUME IInv, RateThrows
    PROVE  IInv'
<1> USE DEF RateThrows, At, Alive
<1>1. /\ ManagerInv' /\ ObjectInv' /\ CodeInv'
      /\ (Clean' <=> Clean) /\ (AllDirty' <=> AllDirty) /\ (AllPatched' <=> AllPatched)
      /\ Listed' = Listed /\ \A p \in Patches : Live(p)' <=> Live(p)
      /\ \A s \in Site : Wanted(s)' = Wanted(s)
      /\ UNCHANGED <<managerVars, host, module, inner>>
  BY Untouched, ManagerStutterInv DEF IInv, managerVars, loopVars
<1> USE DEF IInv, managerVars, binVars, memory, objects, loopVars
<1>2. TypeOK'
  BY <1>1, BoundAssumption, RateFacts, CvarFacts DEF TypeOK, CvarInv, ManagerInv, GiveUp
<1>3. PhaseInv'
  BY <1>1, ReadFacts DEF PhaseInv, OpOf, TypeOK, GiveUp, ObjectFor
<1>4. RestInv'
  BY <1>1, CleanNotPatched, PatchedIsDirty DEF RestInv, Resting, PhaseInv, SnapshotInv, TypeOK, GiveUp
<1>5. SnapshotInv'
  BY <1>1, CleanNotPatched DEF SnapshotInv, Unapplied, PhaseInv, RestInv, Resting, GiveUp, TypeOK, ObjectFor
<1>6. ForceInv'
  BY <1>1 DEF ForceInv, GiveUp, Live, Wanted
<1>7. CvarInv'
  BY <1>1, CvarFacts DEF CvarInv, SnapshotInv, PhaseInv, TypeOK, GiveUp
<1>8. EngineInv'
  BY <1>1 DEF EngineInv, GiveUp
<1>9. QED
  BY <1>1, <1>2, <1>3, <1>4, <1>5, <1>6, <1>7, <1>8

\* Load looks for ICvar.
LEMMA FindCvarInterfaceInv ==
    ASSUME IInv, FindCvarInterface
    PROVE  IInv'
<1> USE DEF FindCvarInterface, At, Alive
<1>1. /\ ManagerInv' /\ ObjectInv' /\ CodeInv'
      /\ (Clean' <=> Clean) /\ (AllDirty' <=> AllDirty) /\ (AllPatched' <=> AllPatched)
      /\ Listed' = Listed /\ \A p \in Patches : Live(p)' <=> Live(p)
      /\ \A s \in Site : Wanted(s)' = Wanted(s)
      /\ UNCHANGED <<managerVars, host, module, inner>>
  BY Untouched, ManagerStutterInv DEF IInv, managerVars, loopVars
<1> USE DEF IInv, managerVars, binVars, memory, objects, loopVars
<1>2. TypeOK'
  BY <1>1, BoundAssumption, RateFacts, CvarFacts DEF TypeOK, CvarInv, ManagerInv, GiveUp
<1>3. PhaseInv'
  BY <1>1, ReadFacts DEF PhaseInv, OpOf, TypeOK, GiveUp, ObjectFor
<1>4. RestInv'
  BY <1>1, CleanNotPatched, PatchedIsDirty DEF RestInv, Resting, PhaseInv, SnapshotInv, TypeOK, GiveUp
<1>5. SnapshotInv'
  BY <1>1, CleanNotPatched DEF SnapshotInv, Unapplied, PhaseInv, RestInv, Resting, GiveUp, TypeOK, ObjectFor
<1>6. ForceInv'
  BY <1>1 DEF ForceInv, GiveUp, Live, Wanted
<1>7. CvarInv'
  BY <1>1, CvarFacts DEF CvarInv, SnapshotInv, PhaseInv, TypeOK, GiveUp
<1>8. EngineInv'
  BY <1>1 DEF EngineInv, GiveUp
<1>9. QED
  BY <1>1, <1>2, <1>3, <1>4, <1>5, <1>6, <1>7, <1>8

\* Load lifts one cap.
LEMMA UncapInv ==
    ASSUME IInv, Uncap
    PROVE  IInv'
<1> USE DEF Uncap, At, Alive
<1>1. /\ ManagerInv' /\ ObjectInv' /\ CodeInv'
      /\ (Clean' <=> Clean) /\ (AllDirty' <=> AllDirty) /\ (AllPatched' <=> AllPatched)
      /\ Listed' = Listed /\ \A p \in Patches : Live(p)' <=> Live(p)
      /\ \A s \in Site : Wanted(s)' = Wanted(s)
      /\ UNCHANGED <<managerVars, host, module, inner>>
  BY Untouched, ManagerStutterInv DEF IInv, managerVars, loopVars
<1> USE DEF IInv, managerVars, binVars, memory, objects, loopVars
<1>2. TypeOK'
  BY <1>1, BoundAssumption, RateFacts, CvarFacts DEF TypeOK, CvarInv, ManagerInv, GiveUp
<1>3. PhaseInv'
  BY <1>1, ReadFacts DEF PhaseInv, OpOf, TypeOK, GiveUp, ObjectFor
<1>4. RestInv'
  BY <1>1, CleanNotPatched, PatchedIsDirty DEF RestInv, Resting, PhaseInv, SnapshotInv, TypeOK, GiveUp
<1>5. SnapshotInv'
  BY <1>1, CleanNotPatched DEF SnapshotInv, Unapplied, PhaseInv, RestInv, Resting, GiveUp, TypeOK, ObjectFor
<1>6. ForceInv'
  BY <1>1 DEF ForceInv, GiveUp, Live, Wanted
<1>7. CvarInv'
  BY <1>1, CvarFacts DEF CvarInv, SnapshotInv, PhaseInv, TypeOK, GiveUp
<1>8. EngineInv'
  BY <1>1 DEF EngineInv, GiveUp
<1>9. QED
  BY <1>1, <1>2, <1>3, <1>4, <1>5, <1>6, <1>7, <1>8

\* Load returns true: everything is in place.
LEMMA LoadReturnsTrueInv ==
    ASSUME IInv, LoadReturnsTrue
    PROVE  IInv'
<1> USE DEF LoadReturnsTrue, At, Alive
<1>1. /\ ManagerInv' /\ ObjectInv' /\ CodeInv'
      /\ (Clean' <=> Clean) /\ (AllDirty' <=> AllDirty) /\ (AllPatched' <=> AllPatched)
      /\ Listed' = Listed /\ \A p \in Patches : Live(p)' <=> Live(p)
      /\ \A s \in Site : Wanted(s)' = Wanted(s)
      /\ UNCHANGED <<managerVars, host, module, inner>>
  BY Untouched, ManagerStutterInv DEF IInv, managerVars, loopVars
<1> USE DEF IInv, managerVars, binVars, memory, objects, loopVars
<1>2. TypeOK'
  BY <1>1, BoundAssumption, RateFacts, CvarFacts DEF TypeOK, CvarInv, ManagerInv, GiveUp
<1>3. PhaseInv'
  BY <1>1, ReadFacts DEF PhaseInv, OpOf, TypeOK, GiveUp, ObjectFor
<1>4. RestInv'
  BY <1>1, CleanNotPatched, PatchedIsDirty DEF RestInv, Resting, PhaseInv, SnapshotInv, TypeOK, GiveUp
<1>5. SnapshotInv'
  BY <1>1, CleanNotPatched DEF SnapshotInv, Unapplied, PhaseInv, RestInv, Resting, GiveUp, TypeOK, ObjectFor
<1>6. ForceInv'
  BY <1>1 DEF ForceInv, GiveUp, Live, Wanted
<1>7. CvarInv'
  BY <1>1, CvarFacts DEF CvarInv, SnapshotInv, PhaseInv, TypeOK, GiveUp
<1>8. EngineInv'
  BY <1>1 DEF EngineInv, GiveUp
<1>9. QED
  BY <1>1, <1>2, <1>3, <1>4, <1>5, <1>6, <1>7, <1>8

\* Unload puts one cap back.
LEMMA RecapInv ==
    ASSUME IInv, Recap
    PROVE  IInv'
<1> USE DEF Recap, At, Alive
<1>1. /\ ManagerInv' /\ ObjectInv' /\ CodeInv'
      /\ (Clean' <=> Clean) /\ (AllDirty' <=> AllDirty) /\ (AllPatched' <=> AllPatched)
      /\ Listed' = Listed /\ \A p \in Patches : Live(p)' <=> Live(p)
      /\ \A s \in Site : Wanted(s)' = Wanted(s)
      /\ UNCHANGED <<managerVars, host, module, inner>>
  BY Untouched, ManagerStutterInv DEF IInv, managerVars, loopVars
<1> USE DEF IInv, managerVars, binVars, memory, objects, loopVars
<1>2. TypeOK'
  BY <1>1, BoundAssumption, RateFacts, CvarFacts DEF TypeOK, CvarInv, ManagerInv, GiveUp
<1>3. PhaseInv'
  BY <1>1, ReadFacts DEF PhaseInv, OpOf, TypeOK, GiveUp, ObjectFor
<1>4. RestInv'
  BY <1>1, CleanNotPatched, PatchedIsDirty DEF RestInv, Resting, PhaseInv, SnapshotInv, TypeOK, GiveUp
<1>5. SnapshotInv'
  BY <1>1, CleanNotPatched DEF SnapshotInv, Unapplied, PhaseInv, RestInv, Resting, GiveUp, TypeOK, ObjectFor
<1>6. ForceInv'
  BY <1>1 DEF ForceInv, GiveUp, Live, Wanted
<1>7. CvarInv'
  BY <1>1, CvarFacts DEF CvarInv, SnapshotInv, PhaseInv, TypeOK, GiveUp
<1>8. EngineInv'
  BY <1>1 DEF EngineInv, GiveUp
<1>9. QED
  BY <1>1, <1>2, <1>3, <1>4, <1>5, <1>6, <1>7, <1>8

\* The server unmaps the module: the destructors begin.
LEMMA HostUnmapInv ==
    ASSUME IInv, HostUnmap
    PROVE  IInv'
<1> USE DEF HostUnmap, At, Alive, Begin
<1>1. /\ ObjectInv' /\ CodeInv'
      /\ (Clean' <=> Clean) /\ (AllDirty' <=> AllDirty) /\ (AllPatched' <=> AllPatched)
      /\ Listed' = Listed /\ \A p \in Patches : Live(p)' <=> Live(p)
      /\ \A s \in Site : Wanted(s)' = Wanted(s)
      /\ UNCHANGED <<binVars, patchList, host, module, inner>>
  BY Untouched
<1>2. ManagerInv'
  BY BeginInv DEF IInv
<1> USE DEF IInv, binVars, memory, objects
<1>3. TypeOK'
  BY <1>1, <1>2, BoundAssumption DEF TypeOK, ManagerInv
<1>4. PhaseInv'
  BY <1>1, ReadFacts DEF PhaseInv, OpOf, TypeOK, ObjectFor
<1>5. RestInv'
  BY <1>1 DEF RestInv, Resting, PhaseInv
<1>6. SnapshotInv'
  BY <1>1, SiteFacts, RateFacts DEF SnapshotInv, Unapplied, PhaseInv, RestInv, Resting, TypeOK, ManagerTypeOK, ObjectFor, Live
<1>7. ForceInv'
  BY <1>1 DEF ForceInv, Live, Wanted
<1>8. CvarInv'
  BY <1>1, CvarFacts DEF CvarInv, PhaseInv, TypeOK
<1>9. EngineInv'
  BY <1>1 DEF EngineInv, Live
<1>10. QED
  BY <1>1, <1>2, <1>3, <1>4, <1>5, <1>6, <1>7, <1>8, <1>9

\* PatchAll begins: every object's snapshot is the library's own code.
LEMMA CallPatchAllInv ==
    ASSUME IInv, CallPatchAll
    PROVE  IInv'
<1> USE DEF CallPatchAll, At, Alive, Begin
<1>1. /\ ObjectInv' /\ CodeInv'
      /\ (Clean' <=> Clean) /\ (AllDirty' <=> AllDirty) /\ (AllPatched' <=> AllPatched)
      /\ Listed' = Listed /\ \A p \in Patches : Live(p)' <=> Live(p)
      /\ \A s \in Site : Wanted(s)' = Wanted(s)
      /\ UNCHANGED <<binVars, patchList, host, module, inner>>
  BY Untouched
<1>2. ManagerInv'
  BY BeginInv DEF IInv
<1> USE DEF IInv, binVars, memory, objects
<1>11. code[RateSites[1]] = pristine[RateSites[1]] /\ RateSites[1] \in Site
  BY RateFacts, SiteFacts DEF SnapshotInv
<1>12. Clean /\ host.engine
  BY <1>11, RateFacts DEF RestInv, Resting, AllDirty, SnapshotInv
<1>13. ~up
  BY <1>12, CleanNotPatched DEF RestInv, Resting, CvarInv, TypeOK
<1>3. TypeOK'
  BY <1>1, <1>2 DEF TypeOK, ManagerInv
<1>4. PhaseInv'
  BY <1>1, <1>13, ReadFacts DEF PhaseInv, OpOf, TypeOK, ObjectFor
<1>5. RestInv'
  BY <1>1 DEF RestInv, Resting, PhaseInv
<1>6. SnapshotInv'
  <2>1. \A p \in Patches : Live(p) => original[p][p[1]] = pristine[p[1]]
    BY <1>12 DEF SnapshotInv, Unapplied
  <2>2. \A s \in Site : ObjectFor(s) \in Listed
    BY SiteFacts, RateFacts DEF SnapshotInv
  <2>3. \A i \in DOMAIN patchList : ~(i < 1)
    BY DEF TypeOK, ManagerTypeOK
  <2>4. QED
    BY <1>1, <2>1, <2>2, <2>3 DEF SnapshotInv, Live, ObjectFor
<1>7. ForceInv'
  BY <1>1 DEF ForceInv, Live, Wanted
<1>8. CvarInv'
  BY <1>1, CvarFacts DEF CvarInv, PhaseInv, TypeOK
<1>9. EngineInv'
  BY <1>1, <1>12 DEF EngineInv, Live
<1>10. QED
  BY <1>1, <1>2, <1>3, <1>4, <1>5, <1>6, <1>7, <1>8, <1>9

\* PatchAll returns: every site is patched.
LEMMA PatchAllReturnsInv ==
    ASSUME IInv, PatchAllReturns
    PROVE  IInv'
<1> USE DEF PatchAllReturns, At, Alive, Finish, AtEnd
<1>1. /\ ObjectInv' /\ CodeInv'
      /\ (Clean' <=> Clean) /\ (AllDirty' <=> AllDirty) /\ (AllPatched' <=> AllPatched)
      /\ Listed' = Listed /\ \A p \in Patches : Live(p)' <=> Live(p)
      /\ \A s \in Site : Wanted(s)' = Wanted(s)
      /\ UNCHANGED <<binVars, patchList, host, module, inner>>
  BY Untouched
<1>2. ManagerInv'
  BY FinishInv DEF IInv
<1> USE DEF IInv, binVars, memory, objects
<1>3. TypeOK'
  BY <1>1, <1>2 DEF TypeOK, ManagerInv
<1>4. PhaseInv'
  BY <1>1, ReadFacts DEF PhaseInv, OpOf, TypeOK, ObjectFor
<1>5. RestInv'
  BY <1>1 DEF RestInv, Resting, PhaseInv
<1>6. SnapshotInv'
  <2> SUFFICES AllPatched
    BY <1>1 DEF SnapshotInv, Unapplied
  <2> SUFFICES ASSUME NEW s \in Site PROVE code[s] = Wanted(s)
    BY DEF AllPatched
  <2>1. PICK i \in DOMAIN patchList : patchList[i] = ObjectFor(s)
    BY DEF SnapshotInv, Listed
  <2>2. i < cursor
    BY DEF TypeOK, ManagerTypeOK
  <2>3. ObjectFor(s)[1] = s
    BY DEF ObjectFor
  <2>4. QED
    BY <2>1, <2>2, <2>3 DEF SnapshotInv
<1>7. ForceInv'
  BY <1>1 DEF ForceInv, Live, Wanted
<1>8. CvarInv'
  BY <1>1, CvarFacts DEF CvarInv, PhaseInv, TypeOK
<1>9. EngineInv'
  BY <1>1 DEF EngineInv, Live
<1>10. QED
  BY <1>1, <1>2, <1>3, <1>4, <1>5, <1>6, <1>7, <1>8, <1>9

\* UnpatchAll begins.
LEMMA CallUnpatchAllInv ==
    ASSUME IInv, CallUnpatchAll
    PROVE  IInv'
<1> USE DEF CallUnpatchAll, At, Alive, Begin
<1>1. /\ ObjectInv' /\ CodeInv'
      /\ (Clean' <=> Clean) /\ (AllDirty' <=> AllDirty) /\ (AllPatched' <=> AllPatched)
      /\ Listed' = Listed /\ \A p \in Patches : Live(p)' <=> Live(p)
      /\ \A s \in Site : Wanted(s)' = Wanted(s)
      /\ UNCHANGED <<binVars, patchList, host, module, inner>>
  BY Untouched
<1>2. ManagerInv'
  BY BeginInv DEF IInv
<1> USE DEF IInv, binVars, memory, objects
<1>3. TypeOK'
  BY <1>1, <1>2 DEF TypeOK, ManagerInv
<1>4. PhaseInv'
  BY <1>1, ReadFacts DEF PhaseInv, OpOf, TypeOK, ObjectFor
<1>5. RestInv'
  BY <1>1 DEF RestInv, Resting, PhaseInv
<1>6. SnapshotInv'
  BY <1>1, SiteFacts, RateFacts DEF SnapshotInv, Unapplied, PhaseInv, RestInv, Resting, TypeOK, ManagerTypeOK, ObjectFor, Live
<1>7. ForceInv'
  BY <1>1 DEF ForceInv, Live, Wanted
<1>8. CvarInv'
  BY <1>1, CvarFacts DEF CvarInv, PhaseInv, TypeOK
<1>9. EngineInv'
  BY <1>1 DEF EngineInv, Live
<1>10. QED
  BY <1>1, <1>2, <1>3, <1>4, <1>5, <1>6, <1>7, <1>8, <1>9

\* UnpatchAll returns and UnregisterAll begins.
LEMMA UnpatchAllReturnsInv ==
    ASSUME IInv, UnpatchAllReturns
    PROVE  IInv'
<1> USE DEF UnpatchAllReturns, At, Alive, AtEnd
<1>1. /\ ObjectInv' /\ CodeInv'
      /\ (Clean' <=> Clean) /\ (AllDirty' <=> AllDirty) /\ (AllPatched' <=> AllPatched)
      /\ Listed' = Listed /\ \A p \in Patches : Live(p)' <=> Live(p)
      /\ \A s \in Site : Wanted(s)' = Wanted(s)
      /\ UNCHANGED <<binVars, patchList, host, module, inner>>
  BY Untouched
<1>2. ManagerInv'
  BY BinStutterInv DEF IInv, ManagerInv, ManagerTypeOK, BinInv, ListedAlive, UnpatchAllRestores, binVars, objects
<1> USE DEF IInv, binVars, memory, objects
<1>3. TypeOK'
  BY <1>1, <1>2 DEF TypeOK, ManagerInv
<1>4. PhaseInv'
  BY <1>1, ReadFacts DEF PhaseInv, OpOf, TypeOK, ObjectFor
<1>5. RestInv'
  BY <1>1 DEF RestInv, Resting, PhaseInv
<1>6. SnapshotInv'
  BY <1>1, SiteFacts, RateFacts DEF SnapshotInv, Unapplied, PhaseInv, RestInv, Resting, TypeOK, ManagerTypeOK, ObjectFor, Live
<1>7. ForceInv'
  <2>1. \A p \in Listed : p \in Patches /\ Live(p)
    BY DEF ManagerInv, ManagerTypeOK, ListedAlive, Listed, Live
  <2>2. \A p \in Listed : SoundSnapshot(p)
    BY <2>1, ObjectFacts DEF ObjectInv, SoundSnapshot
  <2>3. \A p \in Listed : patched[p] => code[p[1]] = pristine[p[1]]
    <3> SUFFICES ASSUME NEW i \in DOMAIN patchList, patched[patchList[i]]
                 PROVE  code[patchList[i][1]] = pristine[patchList[i][1]]
      BY DEF Listed
    <3>1. i < cursor
      BY DEF TypeOK, ManagerTypeOK
    <3>2. HasContents(patchList[i], pristine)
      BY <2>2, <3>1 DEF ManagerInv, UnpatchAllRestores
    <3>3. patchList[i] \in Patches
      BY <2>1 DEF Listed
    <3>4. QED
      BY <3>2, <3>3, ObjectFacts DEF HasContents
  <2>4. host.icvar
    BY DEF CvarInv
  <2>5. \A s \in Site : code[s] = pristine[s]
    BY <2>3, <2>4 DEF ForceInv
  <2>6. Clean
    BY <2>5, CleanEverywhere
  <2>7. code' = code /\ pristine' = pristine /\ phase' = "unregistering" /\ Clean'
    BY <1>1, <2>6
  <2>8. \A t \in Site : code'[t] = pristine'[t]
    BY <2>5, <2>7
  <2>9. QED
    BY <2>7, <2>8 DEF ForceInv
<1>8. CvarInv'
  BY <1>1, CvarFacts DEF CvarInv, PhaseInv, TypeOK
<1>9. EngineInv'
  BY <1>1 DEF EngineInv, Live
<1>10. QED
  BY <1>1, <1>2, <1>3, <1>4, <1>5, <1>6, <1>7, <1>8, <1>9

\* UnregisterAll and Unload return: no object is left and the code is clean.
LEMMA UnloadReturnsInv ==
    ASSUME IInv, UnloadReturns
    PROVE  IInv'
<1> USE DEF UnloadReturns, At, Alive, IInv
<1>1. ManagerInv'
  BY ClearInv
<1>2. inner = <<>> /\ op = "unregisterAll"
  BY DEF PhaseInv, OpOf
<1>3. \A p \in Patches : ~Live(p)
  BY <1>2 DEF Clear, AtEnd, ManagerInv, ListedAlive, ManagerTypeOK, ObjectInv, Listed, Range, Live
<1>4. /\ UNCHANGED <<code, pristine, fault, life, patched, original, replacement>>
      /\ patchList' = <<>> /\ op' = "idle"
  BY DEF Clear, binVars, memory, objects
<1>5. host.icvar => Clean
  BY DEF RestInv, Resting, ForceInv, PhaseInv
<1>6. TypeOK'
  <2>1. hooks' \in 0..MaxLoads
    BY BoundAssumption
  <2>2. up' \in BOOLEAN
    OBVIOUS
  <2>3. QED
    BY <1>1, <2>1, <2>2, Zenon DEF TypeOK, ManagerInv
<1>7. PhaseInv'
  BY <1>2, <1>4 DEF PhaseInv, OpOf
<1>8. ObjectInv'
  BY <1>3, <1>4 DEF ObjectInv, Live
<1>9. CodeInv'
  BY <1>4 DEF CodeInv, Wanted
<1>10. RestInv'
  BY <1>4, <1>5 DEF RestInv, Resting, PhaseInv, ForceInv, Clean, AllDirty
<1>11. SnapshotInv'
  BY <1>3, <1>4 DEF SnapshotInv, Unapplied, Live
<1>12. ForceInv'
  BY <1>3, <1>4, <1>5 DEF ForceInv, Live, Clean
<1>13. CvarInv'
  BY <1>4, <1>5 DEF CvarInv, PhaseInv, AllPatched, Wanted, TypeOK
<1>14. EngineInv'
  BY <1>3, <1>4 DEF EngineInv, Clean, Live
<1>15. QED
  BY <1>1, <1>6, <1>7, <1>8, <1>9, <1>10, <1>11, <1>12, <1>13, <1>14

\* The destructors end: no object is left.
LEMMA TeardownEndsInv ==
    ASSUME IInv, TeardownEnds
    PROVE  IInv'
<1> USE DEF TeardownEnds, At, Alive, IInv
<1>1. ManagerInv'
  BY ClearInv
<1>2. inner = <<>> /\ op = "unregisterAll"
  BY DEF PhaseInv, OpOf
<1>3. \A p \in Patches : ~Live(p)
  BY <1>2 DEF Clear, AtEnd, ManagerInv, ListedAlive, ManagerTypeOK, ObjectInv, Listed, Range, Live
<1>4. /\ UNCHANGED <<code, pristine, fault, life, patched, original, replacement>>
      /\ patchList' = <<>> /\ op' = "idle"
  BY DEF Clear, binVars, memory, objects
<1>5. host.icvar => Clean
  BY DEF RestInv, Resting, ForceInv, PhaseInv
<1>6. TypeOK'
  BY <1>1, BoundAssumption DEF TypeOK, ManagerInv
<1>7. PhaseInv'
  BY <1>2, <1>4 DEF PhaseInv, OpOf
<1>8. ObjectInv'
  BY <1>3, <1>4 DEF ObjectInv, Live
<1>9. CodeInv'
  BY <1>4 DEF CodeInv, Wanted
<1>10. RestInv'
  BY <1>4, <1>5 DEF RestInv, Resting, PhaseInv, ForceInv, Clean, AllDirty
<1>11. SnapshotInv'
  BY <1>3, <1>4 DEF SnapshotInv, Unapplied, Live
<1>12. ForceInv'
  BY <1>3, <1>4, <1>5 DEF ForceInv, Live, Clean
<1>13. CvarInv'
  BY <1>4, <1>5 DEF CvarInv, PhaseInv, AllPatched, Wanted, TypeOK
<1>14. EngineInv'
  BY <1>3, <1>4 DEF EngineInv, Clean, Live
<1>15. QED
  BY <1>1, <1>6, <1>7, <1>8, <1>9, <1>10, <1>11, <1>12, <1>13, <1>14

\* The Boomer patch, complete, enters the plugin's list.
LEMMA RegisterBoomerInv ==
    ASSUME IInv, RegisterBoomer
    PROVE  IInv'
<1> USE DEF RegisterBoomer, At, Alive, IInv
<1>1. op = "idle"
  BY DEF PhaseInv, OpOf
<1>2. UNCHANGED <<code, pristine, fault, life, patched, original, replacement>>
  BY DEF binVars, memory, objects
<1>3. /\ patchList \in Seq(Patches) /\ inner \in Seq(Patches)
      /\ \A i \in DOMAIN inner : inner[i] = ObjectFor(BoomerReads[i]) /\ Live(inner[i])
                                 /\ inner[i] \notin Listed
  BY DEF TypeOK, ManagerTypeOK, PhaseInv
<1>4. Listed' = Listed \cup Range(inner)
  <2>1. Listed' = Range(patchList \o inner) /\ Listed = Range(patchList)
    BY DEF Listed, Range
  <2>2. QED
    BY <1>3, <2>1, ConcatRange
<1>5. ManagerInv'
  <2>1. BinInv'
    BY BinStutterInv DEF ManagerInv
  <2>2. \A i, j \in DOMAIN inner : inner[i] = inner[j] => i = j
    <3>1. \A i \in DOMAIN inner : i \in 1..Len(BoomerReads) /\ inner[i] = <<BoomerReads[i], loads>>
      BY <1>3 DEF TypeOK, ObjectFor
    <3>2. \A i, j \in DOMAIN inner : inner[i] = inner[j] => BoomerReads[i] = BoomerReads[j]
      BY <3>1
    <3>3. QED
      BY <3>1, <3>2, ReadFacts
  <2>3. \A i \in DOMAIN patchList : patchList[i] \in Listed /\ Live(patchList[i])
    BY <1>1 DEF ManagerInv, ListedAlive, Listed, Live
  <2>4. \A i, j \in DOMAIN patchList : patchList[i] = patchList[j] => i = j
    BY DEF ManagerInv, ListedAlive
  <2>5. \A i \in DOMAIN patchList' :
           \/ i \in DOMAIN patchList /\ patchList'[i] = patchList[i]
           \/ /\ i - Len(patchList) \in DOMAIN inner
              /\ patchList'[i] = inner[i - Len(patchList)]
              /\ i \notin DOMAIN patchList
    BY <1>3
  <2>6. ListedAlive'
    <3>1. ASSUME NEW i \in DOMAIN patchList', NEW j \in DOMAIN patchList', patchList'[i] = patchList'[j]
          PROVE  i = j
      BY <1>3, <2>2, <2>3, <2>4, <2>5, <3>1
    <3>2. \A i \in DOMAIN patchList' : life[patchList'[i]] = "live"
      BY <1>3, <2>3, <2>5 DEF Live
    <3>3. QED
      BY <1>1, <1>2, <3>1, <3>2 DEF ListedAlive
  <2>7. QED
    BY <1>1, <1>3, <2>1, <2>6 DEF ManagerInv, ManagerTypeOK, BinInv, UnpatchAllRestores
<1>6. TypeOK'
  BY <1>5 DEF TypeOK, ManagerInv
<1>7. PhaseInv'
  BY <1>1 DEF PhaseInv, OpOf
<1>8. ObjectInv'
  BY <1>2, <1>4 DEF ObjectInv, Live, Wanted, Range
<1>9. CodeInv'
  BY <1>2 DEF CodeInv, Wanted
<1>10. RestInv'
  BY <1>2 DEF RestInv, Resting, Clean, AllDirty, AllPatched, Wanted
<1>11. SnapshotInv'
  <2>1. \A s \in BoomerSite : ObjectFor(s) \in Range(inner)
    <3> SUFFICES ASSUME NEW s \in BoomerSite PROVE ObjectFor(s) \in Range(inner)
      OBVIOUS
    <3>1. PICK i \in 1..Len(BoomerReads) : s = BoomerReads[i]
      BY ReadFacts
    <3>2. i \in DOMAIN inner
      BY <1>3, <3>1
    <3>3. inner[i] = ObjectFor(s)
      BY <1>3, <3>1, <3>2
    <3>4. QED
      BY <3>2, <3>3 DEF Range
  <2>2. QED
    BY <1>2, <1>4, <2>1 DEF SnapshotInv, Unapplied, Clean, Live, ObjectFor
<1>12. ForceInv'
  BY <1>2, <1>4 DEF ForceInv, Live, Wanted
<1>13. CvarInv'
  BY <1>2 DEF CvarInv, AllPatched, Wanted, TypeOK
<1>14. EngineInv'
  BY <1>2 DEF EngineInv, Clean, Live
<1>15. QED
  BY <1>5, <1>6, <1>7, <1>8, <1>9, <1>10, <1>11, <1>12, <1>13, <1>14

\* What the construction of the object for a site does, between loops.
LEMMA NewObject ==
    ASSUME IInv, op = "idle", loads > 0, NEW s \in Site, NEW b \in Byte,
           Construct(ObjectFor(s), [t \in {s} |-> b])
    PROVE  /\ ObjectFor(s) \in Patches /\ ObjectFor(s)[1] = s
           /\ [t \in {s} |-> b] \in Contents(ObjectFor(s))
           /\ ~Live(ObjectFor(s)) /\ ObjectFor(s) \notin Listed /\ ~patched[ObjectFor(s)]
           /\ life' = [life EXCEPT ![ObjectFor(s)] = "live"]
           /\ replacement'[ObjectFor(s)][s] = b
           /\ original'[ObjectFor(s)][s] = code[s]
           /\ patched' = patched
           /\ \A q \in Patches \ {ObjectFor(s)} : /\ life'[q] = life[q]
                                              /\ replacement'[q] = replacement[q]
                                              /\ original'[q] = original[q]
           /\ UNCHANGED <<code, pristine, fault>>
           /\ BinInv'
<1> DEFINE p == ObjectFor(s)
<1>1. p \in Patches /\ p[1] = s
  BY ObjectAssumption DEF IInv, TypeOK, ObjectFor
<1>2. Target[p] = {s} /\ ~PatchTimeCopy[p]
  BY <1>1, ObjectFacts
<1>3. [t \in {s} |-> b] \in Contents(p)
  BY <1>2 DEF Contents
<1>4. BinInv'
  BY <1>1, <1>3, ConstructInv DEF IInv, ManagerInv
<1>5. BinInv
  BY DEF IInv, ManagerInv
<1>6. ~Live(p) /\ ~patched[p]
  BY <1>1, <1>5 DEF Construct, Live, BinInv
<1>7. p \notin Listed
  BY <1>6 DEF IInv, ManagerInv, ListedAlive, Listed, Live
<1>8. /\ life' = [life EXCEPT ![p] = "live"] /\ DOMAIN life = Patches
      /\ replacement' = [replacement EXCEPT ![p] = [t \in {s} |-> b]] /\ DOMAIN replacement = Patches
      /\ original' = [original EXCEPT ![p] = [t \in {s} |-> code[t]]] /\ DOMAIN original = Patches
      /\ patched' = [patched EXCEPT ![p] = FALSE] /\ patched \in [Patches -> BOOLEAN]
      /\ UNCHANGED <<code, pristine, fault>>
  BY <1>1, <1>2, <1>5 DEF Construct, Snapshot, BinInv, BinTypeOK, memory
<1>9. patched' = patched
  BY <1>1, <1>6, <1>8
<1>10. replacement'[p][s] = b /\ original'[p][s] = code[s]
  BY <1>1, <1>8
<1>11. \A q \in Patches \ {p} : /\ life'[q] = life[q]
                                /\ replacement'[q] = replacement[q]
                                /\ original'[q] = original[q]
  BY <1>8
<1>12. QED
  BY <1>1, <1>3, <1>4, <1>6, <1>7, <1>8, <1>9, <1>10, <1>11

\* The object for one frametime read.
LEMMA BuildBoomerReadInv ==
    ASSUME IInv, BuildBoomerRead
    PROVE  IInv'
<1> DEFINE s == BoomerReads[Len(inner) + 1]
           p == ObjectFor(s)
<1>1. s \in BoomerSite /\ s \in Site
  BY ReadFacts, SiteFacts DEF IInv, TypeOK, BuildBoomerRead
<1>2. op = "idle" /\ loads > 0 /\ module \in 1..MaxModules
  BY DEF IInv, PhaseInv, OpOf, CvarInv, TypeOK, BuildBoomerRead, At
<1>3. /\ Construct(p, [t \in {s} |-> Fake(module)])
      /\ inner' = Append(inner, p)
      /\ UNCHANGED <<loopVars, host, phase, module, loads, up, hooks, built, pCvar, capped, step, crash>>
      /\ phase = "boomer" /\ fault = "none" /\ Len(inner) < Len(BoomerReads)
  BY DEF BuildBoomerRead, At, Alive
<1>4. Fake(module) \in Byte
  BY <1>2, ByteFacts
<1> HIDE DEF s
<1>5. /\ p \in Patches /\ p[1] = s
      /\ [t \in {s} |-> Fake(module)] \in Contents(p)
      /\ ~Live(p) /\ p \notin Listed /\ ~patched[p]
      /\ life' = [life EXCEPT ![p] = "live"]
      /\ replacement'[p][s] = Fake(module)
      /\ original'[p][s] = code[s]
      /\ patched' = patched
      /\ \A q \in Patches \ {p} : /\ life'[q] = life[q]
                                  /\ replacement'[q] = replacement[q]
                                  /\ original'[q] = original[q]
      /\ UNCHANGED <<code, pristine, fault>>
  BY <1>1, <1>2, <1>3, <1>4, NewObject
<1>6. ManagerInv'
  BY <1>2, <1>3, <1>5, NewInv DEF New, Idle, IInv
<1> HIDE DEF p
<1> USE DEF IInv
<1>7. inner \in Seq(Patches) /\ inner' \in Seq(Patches) /\ Len(inner') = Len(inner) + 1
  BY <1>3, <1>5 DEF TypeOK
<1>8. /\ \A i \in DOMAIN inner' : \/ i \in DOMAIN inner /\ inner'[i] = inner[i]
                                  \/ i = Len(inner) + 1 /\ inner'[i] = p
      /\ Range(inner') = Range(inner) \cup {p}
  <2>1. /\ DOMAIN inner' = DOMAIN inner \cup {Len(inner) + 1}
        /\ \A i \in DOMAIN inner : inner'[i] = inner[i]
        /\ inner'[Len(inner) + 1] = p
    BY <1>3, <1>5, <1>7
  <2>2. QED
    BY <2>1 DEF Range
<1>9. life'[p] = "live" /\ Listed' = Listed
  BY <1>3, <1>5 DEF ManagerInv, BinInv, BinTypeOK, loopVars, Listed
<1>10. TypeOK'
  <2>1. Len(inner') <= Len(BoomerReads)
    BY <1>3, <1>7, ReadFacts
  <2>2. QED
    BY <1>3, <1>6, <1>7, <2>1, Zenon DEF TypeOK, ManagerInv
<1>11. PhaseInv'
  <2> SUFFICES ASSUME NEW i \in DOMAIN inner'
               PROVE  /\ i <= Len(BoomerReads) /\ inner'[i] = ObjectFor(BoomerReads[i])
                      /\ life'[inner'[i]] = "live" /\ inner'[i] \notin Listed /\ ~patched[inner'[i]]
    BY <1>3, <1>5, <1>9, Zenon DEF PhaseInv, Live, ObjectFor, loopVars, OpOf
  <2>1. CASE i \in DOMAIN inner /\ inner'[i] = inner[i]
    <3>1. /\ i <= Len(BoomerReads) /\ inner[i] = ObjectFor(BoomerReads[i])
          /\ life[inner[i]] = "live" /\ inner[i] \notin Listed /\ ~patched[inner[i]]
      BY <2>1 DEF PhaseInv, Live
    <3>2. inner[i] \in Patches /\ inner[i] # p
      BY <1>5, <1>7, <2>1, <3>1 DEF Live
    <3>3. life'[inner[i]] = "live"
      BY <1>5, <3>1, <3>2
    <3>4. QED
      BY <2>1, <3>1, <3>3
  <2>2. CASE i = Len(inner) + 1 /\ inner'[i] = p
    BY <1>3, <1>5, <1>7, <1>9, <2>2, ReadFacts DEF s, p
  <2>3. QED
    BY <1>8, <2>1, <2>2
<1>12. ObjectInv'
  <2> SUFFICES ASSUME NEW q \in Patches, life'[q] = "live"
               PROVE  /\ q \in Listed \cup Range(inner')
                      /\ replacement'[q][q[1]] = Wanted(q[1])
                      /\ patched[q] => original'[q][q[1]] = pristine[q[1]]
    BY <1>3, <1>5, <1>9 DEF ObjectInv, Live, Wanted
  <2>1. CASE q = p
    BY <1>1, <1>5, <1>8, <2>1 DEF Wanted
  <2>2. CASE q # p
    BY <1>5, <1>8, <2>2 DEF ObjectInv, Live
  <2>3. QED
    BY <2>1, <2>2
<1>13. CodeInv'
  BY <1>3, <1>5 DEF CodeInv, Wanted
<1>14. RestInv'
  BY <1>3, <1>5 DEF RestInv, Resting, Clean, AllDirty, AllPatched, Wanted
<1>15. SnapshotInv'
  <2>1. ASSUME Clean, NEW q \in Patches, life'[q] = "live"
        PROVE  original'[q][q[1]] = pristine[q[1]]
    <3>1. CASE q = p
      BY <1>1, <1>5, <2>1, <3>1 DEF Clean
    <3>2. CASE q # p
      BY <1>3, <1>5, <2>1, <3>2 DEF SnapshotInv, Unapplied, Live
    <3>3. QED
      BY <3>1, <3>2
  <2>2. QED
    BY <1>3, <1>5, <2>1 DEF SnapshotInv, Clean, Live
<1>16. ForceInv'
  <2>1. ASSUME NEW q \in Patches, life'[q] = "live", patched[q]
        PROVE  code[q[1]] = Wanted(q[1])
    BY <1>3, <1>5, <2>1 DEF ForceInv, Live
  <2>2. \A q \in Listed : life[q] = "live" => life'[q] = "live"
    BY <1>5 DEF ManagerInv, ManagerTypeOK, Listed
  <2>3. QED
    BY <1>3, <1>5, <1>9, <2>1, <2>2 DEF ForceInv, Live, Wanted
<1>17. CvarInv'
  BY <1>3, <1>5 DEF CvarInv, AllPatched, Wanted
<1>18. EngineInv'
  BY <1>3, <1>5 DEF EngineInv, Clean, Live
<1>19. QED
  BY <1>6, <1>10, <1>11, <1>12, <1>13, <1>14, <1>15, <1>16, <1>17, <1>18

\* The exception of the Boomer patch destroys what it has built, and no more.
LEMMA BoomerThrowsInv ==
    ASSUME IInv, BoomerThrows
    PROVE  IInv'
<1> USE DEF IInv
<1>1. /\ phase = "boomer" /\ phase' = "idle" /\ inner' = <<>>
      /\ life' = [p \in Patches |-> IF p \in Range(inner) THEN "deleted" ELSE life[p]]
      /\ UNCHANGED <<code, pristine, writable, fault, replacement, original, firstTime, patched>>
      /\ UNCHANGED <<patchList, op, cursor>>
      /\ UNCHANGED <<host, module, loads, up, hooks, built, pCvar, capped, step, crash>>
  BY DEF BoomerThrows, At, GiveUp, memory, loopVars
<1>2. op = "idle"
  BY <1>1 DEF PhaseInv, OpOf
<1>3. \A p \in Range(inner) : life[p] = "live" /\ ~patched[p] /\ p \notin Listed
  BY DEF PhaseInv, Live, Range
<1>4. \A p \in Listed : p \in Patches /\ life'[p] = "live"
  BY <1>1, <1>2, <1>3 DEF ManagerInv, ManagerTypeOK, ListedAlive, Listed
<1>5. \A p \in Patches : life'[p] = "live" => life[p] = "live" /\ p \notin Range(inner)
  BY <1>1
<1>6. Listed' = Listed
  BY <1>1 DEF Listed
<1>7. ManagerInv'
  <2>1. BinTypeOK'
    BY <1>1, <1>3 DEF ManagerInv, BinInv, BinTypeOK, Contents
  <2>2. \A p \in Patches : /\ life'[p] = "unborn" => ~patched[p]
                           /\ life'[p] # "unborn" => life[p] # "unborn"
    BY <1>1, <1>3 DEF ManagerInv, BinInv
  <2>3. BinInv'
    BY <1>1, <2>1, <2>2 DEF ManagerInv, BinInv, Contents
  <2>4. ListedAlive'
    BY <1>1, <1>2, <1>4 DEF ManagerInv, ListedAlive, Listed
  <2>5. QED
    BY <1>1, <1>2, <2>3, <2>4 DEF ManagerInv, ManagerTypeOK, BinInv, UnpatchAllRestores
<1>8. TypeOK'
  BY <1>1, <1>7, ReadFacts DEF TypeOK, ManagerInv
<1>9. PhaseInv'
  BY <1>1 DEF PhaseInv, OpOf
<1>10. ObjectInv'
  BY <1>1, <1>5, <1>6 DEF ObjectInv, Live, Wanted, Range
<1>11. CodeInv'
  BY <1>1 DEF CodeInv, Wanted
<1>12. RestInv'
  BY <1>1 DEF RestInv, Resting, Clean, AllDirty, AllPatched, Wanted
<1>13. SnapshotInv'
  BY <1>1, <1>5 DEF SnapshotInv, Unapplied, Clean, Live
<1>14. ForceInv'
  BY <1>1, <1>4, <1>5, <1>6 DEF ForceInv, Live, Wanted
<1>15. CvarInv'
  BY <1>1 DEF CvarInv, AllPatched, Wanted, TypeOK
<1>16. EngineInv'
  BY <1>1, <1>5 DEF EngineInv, Clean, Live
<1>17. QED
  BY <1>7, <1>8, <1>9, <1>10, <1>11, <1>12, <1>13, <1>14, <1>15, <1>16

\* The object for one rate check: its check byte says that the site is clean.
LEMMA BuildRateInv ==
    ASSUME IInv, BuildRate
    PROVE  IInv'
<1> DEFINE s == RateSites[built + 1]
           p == ObjectFor(s)
<1>1. s \in RateSite /\ s \in Site
  BY RateFacts, SiteFacts DEF IInv, TypeOK, BuildRate
<1>2. op = "idle" /\ loads > 0
  BY DEF IInv, PhaseInv, OpOf, CvarInv, TypeOK, BuildRate, At
<1>3. /\ Construct(p, [t \in {s} |-> Rewritten]) /\ code[s] = Expected
      /\ patchList' = Append(patchList, p) /\ built' = built + 1
      /\ phase = "rates" /\ fault = "none" /\ host.engine /\ built < Len(RateSites)
      /\ UNCHANGED <<op, cursor, host, phase, module, loads, up, hooks, inner, pCvar, capped, step, crash>>
  BY DEF BuildRate, At, Alive
<1>4. Rewritten \in Byte
  BY ByteFacts
<1> HIDE DEF s
<1>5. /\ p \in Patches /\ p[1] = s
      /\ ~Live(p) /\ p \notin Listed /\ ~patched[p]
      /\ life' = [life EXCEPT ![p] = "live"]
      /\ replacement'[p][s] = Rewritten
      /\ original'[p][s] = code[s]
      /\ patched' = patched
      /\ UNCHANGED <<code, pristine, fault>>
      /\ BinInv'
  BY <1>1, <1>2, <1>3, <1>4, NewObject
<1>20. \A q \in Patches \ {p} : /\ life'[q] = life[q]
                              /\ replacement'[q] = replacement[q]
                              /\ original'[q] = original[q]
  BY <1>1, <1>2, <1>3, <1>4, NewObject
<1> HIDE DEF p
<1> USE DEF IInv
<1>6. life'[p] = "live"
  BY <1>5, <1>20 DEF ManagerInv, BinInv, BinTypeOK
<1>7. /\ patchList \in Seq(Patches) /\ patchList' \in Seq(Patches)
      /\ DOMAIN patchList' = DOMAIN patchList \cup {Len(patchList) + 1}
      /\ \A i \in DOMAIN patchList : patchList'[i] = patchList[i] /\ patchList[i] # p
      /\ patchList'[Len(patchList) + 1] = p
  BY <1>3, <1>5, <1>20 DEF TypeOK, ManagerTypeOK, Listed
<1>8. Listed' = Listed \cup {p}
  BY <1>7 DEF Listed
<1>9. ManagerInv'
  <2>1. \A i \in DOMAIN patchList' : life'[patchList'[i]] = "live"
    BY <1>2, <1>5, <1>20, <1>6, <1>7 DEF ManagerInv, ListedAlive
  <2>2. \A i, j \in DOMAIN patchList' : patchList'[i] = patchList'[j] => i = j
    BY <1>7 DEF ManagerInv, ListedAlive
  <2>3. ListedAlive'
    BY <1>2, <1>3, <2>1, <2>2 DEF ListedAlive
  <2>4. QED
    BY <1>2, <1>3, <1>5, <1>20, <1>7, <2>3 DEF ManagerInv, ManagerTypeOK, BinInv, UnpatchAllRestores
<1>10. TypeOK'
  <2>1. built' \in 0..Len(RateSites)
    BY <1>3, RateFacts DEF TypeOK
  <2>2. QED
    BY <1>3, <1>9, <2>1, Zenon DEF TypeOK, ManagerInv
<1>11. PhaseInv'
  BY <1>2, <1>3 DEF PhaseInv, OpOf
<1>12. ObjectInv'
  <2> SUFFICES ASSUME NEW q \in Patches, life'[q] = "live"
               PROVE  /\ q \in Listed'
                      /\ replacement'[q][q[1]] = Wanted(q[1])
                      /\ patched[q] => original'[q][q[1]] = pristine[q[1]]
    BY <1>3, <1>5, <1>20 DEF ObjectInv, Live, Wanted
  <2>1. CASE q = p
    BY <1>1, <1>5, <1>20, <1>8, <2>1, SiteFacts DEF Wanted
  <2>2. CASE q # p
    BY <1>3, <1>5, <1>20, <1>8, <2>2 DEF ObjectInv, Live, PhaseInv, Range
  <2>3. QED
    BY <2>1, <2>2
<1>13. CodeInv'
  BY <1>3, <1>5, <1>20 DEF CodeInv, Wanted
<1>14. RestInv'
  BY <1>3, <1>5, <1>20 DEF RestInv, Resting, Clean, AllDirty, AllPatched, Wanted
<1>15. SnapshotInv'
  <2>1. ASSUME Clean, NEW q \in Patches, life'[q] = "live"
        PROVE  original'[q][q[1]] = pristine[q[1]]
    <3>1. CASE q = p
      BY <1>1, <1>5, <1>20, <2>1, <3>1 DEF Clean
    <3>2. CASE q # p
      BY <1>3, <1>5, <1>20, <2>1, <3>2 DEF SnapshotInv, Unapplied, Live
    <3>3. QED
      BY <3>1, <3>2
  <2>2. code[s] = pristine[s]
    BY <1>1, <1>3, ByteFacts DEF CodeInv
  <2>3. ASSUME NEW j \in 1..built + 1
        PROVE  ObjectFor(RateSites[j]) \in Listed' /\ code[RateSites[j]] = pristine[RateSites[j]]
    <3>1. CASE j = built + 1
      BY <1>8, <2>2, <3>1 DEF s, p
    <3>2. CASE j # built + 1
      BY <1>3, <1>8, <3>2 DEF SnapshotInv, TypeOK
    <3>3. QED
      BY <3>1, <3>2
  <2>4. \A t \in BoomerSite : ObjectFor(t) \in Listed'
    BY <1>3, <1>8 DEF SnapshotInv
  <2>5. QED
    BY <1>3, <1>5, <1>20, <2>1, <2>3, <2>4 DEF SnapshotInv, Unapplied, Clean, Live, ObjectFor
<1>16. ForceInv'
  <2>1. ASSUME NEW q \in Patches, life'[q] = "live", patched[q]
        PROVE  code[q[1]] = Wanted(q[1])
    BY <1>3, <1>5, <1>20, <2>1 DEF ForceInv, Live
  <2>2. \A q \in Listed : life[q] = "live" => life'[q] = "live"
    BY <1>5, <1>20 DEF ManagerInv, ManagerTypeOK, Listed
  <2>3. QED
    BY <1>3, <1>5, <1>20, <1>8, <2>1, <2>2 DEF ForceInv, Live, Wanted
<1>17. CvarInv'
  BY <1>3, <1>5, <1>20 DEF CvarInv, AllPatched, Wanted
<1>18. EngineInv'
  BY <1>3, <1>5, <1>20 DEF EngineInv, Clean, Live
<1>19. QED
  BY <1>9, <1>10, <1>11, <1>12, <1>13, <1>14, <1>15, <1>16, <1>17, <1>18

\* What one call of Patch does to the site of its object.
LEMMA PatchOne ==
    ASSUME BinInv, NEW p \in Patches, Patch(p)
    PROVE  /\ UNCHANGED <<pristine, life, replacement, original>>
           /\ \/ patched[p] /\ UNCHANGED <<code, fault, patched>>
              \/ fault' = "patch" /\ UNCHANGED <<code, patched>>
              \/ /\ patched' = [patched EXCEPT ![p] = TRUE] /\ fault' = fault
                 /\ \A s \in Site : code'[s] = IF s = p[1] THEN replacement[p][s] ELSE code[s]
                 /\ code' \in [Site -> Byte]
<1>1. Target[p] = {p[1]} /\ ~PatchTimeCopy[p] /\ p[1] \in Site
  BY ObjectFacts
<1>2. CASE patched[p]
  BY <1>2 DEF Patch, binVars, memory, objects
<1>3. CASE ~patched[p] /\ Target[p] \subseteq writable'
  <2>1. code' = Overwrite(p, replacement[p])
    BY <1>3 DEF Patch
  <2>2. replacement[p] \in Contents(p)
    BY DEF BinInv, BinTypeOK, Patch
  <2>3. code' \in [Site -> Byte]
    BY <2>1, <2>2, OverwriteType DEF BinInv
  <2>4. QED
    BY <1>1, <1>3, <2>1, <2>3 DEF Patch, Overwrite
<1>4. CASE ~patched[p] /\ ~(Target[p] \subseteq writable')
  BY <1>1, <1>4 DEF Patch
<1>5. QED
  BY <1>2, <1>3, <1>4

\* One turn of PatchAll: the site of the object now holds what Load wants there.
LEMMA PatchTurnInv ==
    ASSUME IInv, RunLoop, PatchEach
    PROVE  IInv'
<1> DEFINE p == patchList[cursor]
<1> USE DEF IInv
<1>1. /\ op = "patchAll" /\ fault = "none" /\ crash = "none" /\ cursor \in DOMAIN patchList
      /\ Patch(p) /\ cursor' = cursor + 1
      /\ UNCHANGED <<patchList, op, pluginVars>>
  BY DEF RunLoop, Alive, PatchEach, AtElement, TypeOK, ManagerTypeOK
<1>2. p \in Patches /\ p \in Listed /\ Live(p) /\ p[1] \in Site
  BY <1>1, ObjectFacts DEF TypeOK, ManagerTypeOK, ManagerInv, ListedAlive, Listed, Live
<1>3. phase = "patching"
  BY <1>1 DEF PhaseInv, OpOf, TypeOK
<1>4. UNCHANGED <<host, phase, module, loads, up, hooks, inner, built, pCvar, capped, step, crash>>
  BY <1>1 DEF pluginVars
<1>5. /\ UNCHANGED <<pristine, life, replacement, original>>
      /\ \/ patched[p] /\ UNCHANGED <<code, fault, patched>>
         \/ fault' = "patch" /\ UNCHANGED <<code, patched>>
         \/ /\ patched' = [patched EXCEPT ![p] = TRUE] /\ fault' = fault
            /\ \A s \in Site : code'[s] = IF s = p[1] THEN replacement[p][s] ELSE code[s]
  BY <1>1, <1>2, PatchOne DEF ManagerInv
<1>6. replacement[p][p[1]] = Wanted(p[1]) /\ original[p][p[1]] = pristine[p[1]]
  BY <1>2, <1>3 DEF ObjectInv, SnapshotInv, Unapplied
<1>7. Listed' = Listed /\ (\A q : Live(q)' <=> Live(q)) /\ (\A s : Wanted(s)' = Wanted(s))
  BY <1>1, <1>4, <1>5 DEF Listed, Live, Wanted
<1> HIDE DEF p
<1>8. \A s \in Site : code'[s] = code[s] \/ code'[s] = Wanted(s)
  BY <1>5, <1>6
<1>9. /\ \A q \in Patches : patched'[q] => patched[q] \/ q = p
      /\ \A q \in Patches : patched[q] => patched'[q]
  BY <1>2, <1>5 DEF ManagerInv, BinInv, BinTypeOK
<1>10. fault' = "none" => patched'[p] /\ code'[p[1]] = Wanted(p[1])
  BY <1>2, <1>3, <1>5, <1>6 DEF ForceInv, ManagerInv, BinInv, BinTypeOK
<1>11. ManagerInv'
  BY PatchEachInv
<1>12. TypeOK'
  BY <1>4, <1>11, Zenon DEF TypeOK, ManagerInv
<1>13. PhaseInv'
  BY <1>1, <1>3, <1>4 DEF PhaseInv, OpOf
<1>14. ObjectInv'
  BY <1>4, <1>5, <1>6, <1>7, <1>9 DEF ObjectInv
<1>15. CodeInv'
  <2>1. module \in 1..MaxModules
    BY <1>3 DEF PhaseInv, TypeOK
  <2>2. \A s \in Site : \/ s \in BoomerSite /\ \E m \in 1..MaxModules : Wanted(s) = Fake(m)
                        \/ s \in RateSite /\ Wanted(s) = Rewritten
    BY <2>1, SiteFacts DEF Wanted
  <2>3. QED
    BY <1>4, <1>5, <1>7, <1>8, <2>2 DEF CodeInv
<1>16. RestInv'
  BY <1>3, <1>4 DEF RestInv, Resting
<1>17. SnapshotInv'
  <2>1. ASSUME NEW i \in DOMAIN patchList, i < cursor + 1, fault' = "none"
        PROVE  code'[patchList[i][1]] = Wanted(patchList[i][1])
    <3>1. patchList[i][1] \in Site
      BY ObjectFacts DEF TypeOK, ManagerTypeOK
    <3>2. CASE i = cursor
      BY <1>10, <2>1, <3>2 DEF p
    <3>3. CASE i < cursor
      BY <1>1, <1>3, <1>8, <3>1, <3>3 DEF SnapshotInv
    <3>4. QED
      BY <1>1, <2>1, <3>2, <3>3 DEF TypeOK, ManagerTypeOK
  <2>2. QED
    BY <1>1, <1>3, <1>4, <1>5, <1>7, <2>1 DEF SnapshotInv, ObjectFor
<1>18. ForceInv'
  <2>1. ASSUME NEW q \in Patches, Live(q), patched'[q] PROVE code'[q[1]] = Wanted(q[1])
    <3>1. CASE patched[q]
      BY <1>3, <1>8, <2>1, <3>1, ObjectFacts DEF ForceInv
    <3>2. CASE ~patched[q]
      BY <1>1, <1>5, <1>6, <1>2, <1>9, <2>1, <3>2
    <3>3. QED
      BY <3>1, <3>2
  <2>2. ASSUME host.icvar, NEW s \in Site, code'[s] # pristine[s]
        PROVE  \E q \in Listed : Live(q) /\ patched'[q] /\ q[1] = s
    <3>1. CASE code'[s] = code[s]
      BY <1>9, <2>2, <3>1 DEF ForceInv, ManagerInv, ManagerTypeOK, Listed
    <3>2. CASE code'[s] # code[s]
      BY <1>2, <1>5, <3>2 DEF ManagerInv, BinInv, BinTypeOK
    <3>3. QED
      BY <3>1, <3>2
  <2>3. QED
    BY <1>3, <1>4, <1>5, <1>7, <2>1, <2>2 DEF ForceInv
<1>19. CvarInv'
  <2>1. AllPatched => AllPatched'
    BY <1>7, <1>8 DEF AllPatched
  <2>2. QED
    BY <1>3, <1>4, <2>1 DEF CvarInv, PhaseInv
<1>20. EngineInv'
  BY <1>3, <1>4 DEF EngineInv
<1>21. QED
  BY <1>11, <1>12, <1>13, <1>14, <1>15, <1>16, <1>17, <1>18, <1>19, <1>20

\* One turn of UnpatchAll: the site of an applied object is clean again.
LEMMA UnpatchTurnInv ==
    ASSUME IInv, RunLoop, UnpatchEach
    PROVE  IInv'
<1> DEFINE p == patchList[cursor]
<1> USE DEF IInv
<1>1. /\ op = "unpatchAll" /\ cursor \in DOMAIN patchList
      /\ Unpatch(p) /\ cursor' = cursor + 1
      /\ UNCHANGED <<patchList, op, pluginVars>>
  BY DEF RunLoop, UnpatchEach, AtElement, TypeOK, ManagerTypeOK
<1>2. p \in Patches /\ p \in Listed /\ Live(p) /\ p[1] \in Site
  BY <1>1, ObjectFacts DEF TypeOK, ManagerTypeOK, ManagerInv, ListedAlive, Listed, Live
<1>3. phase = "unpatching"
  BY <1>1 DEF PhaseInv, OpOf, TypeOK
<1>4. UNCHANGED <<host, phase, module, loads, up, hooks, inner, built, pCvar, capped, step, crash>>
  BY <1>1 DEF pluginVars
<1>5. /\ UNCHANGED <<pristine, life, replacement, original, patched>>
      /\ \/ UNCHANGED code
         \/ /\ patched[p]
            /\ \A s \in Site : code'[s] = IF s = p[1] THEN original[p][s] ELSE code[s]
  BY <1>1, <1>2, ObjectFacts DEF Unpatch, Overwrite, binVars, memory, objects
<1>6. \A s \in Site : code'[s] = code[s] \/ code'[s] = pristine[s]
  BY <1>2, <1>5 DEF ObjectInv
<1>7. Listed' = Listed /\ (\A q : Live(q)' <=> Live(q)) /\ (\A s : Wanted(s)' = Wanted(s))
  BY <1>1, <1>4, <1>5 DEF Listed, Live, Wanted
<1> HIDE DEF p
<1>8. ManagerInv'
  BY UnpatchEachInv
<1>9. TypeOK'
  BY <1>4, <1>8, Zenon DEF TypeOK, ManagerInv
<1>10. PhaseInv'
  BY <1>1, <1>3, <1>4 DEF PhaseInv, OpOf
<1>11. ObjectInv'
  BY <1>4, <1>5, <1>7 DEF ObjectInv
<1>12. CodeInv'
  BY <1>4, <1>5, <1>6, <1>7 DEF CodeInv
<1>13. RestInv'
  BY <1>3, <1>4 DEF RestInv, Resting
<1>14. SnapshotInv'
  BY <1>3, <1>4 DEF SnapshotInv, Unapplied
<1>15. ForceInv'
  BY <1>3, <1>4, <1>5, <1>6, <1>7 DEF ForceInv
<1>16. CvarInv'
  BY <1>3, <1>4 DEF CvarInv
<1>17. EngineInv'
  <2>1. ~host.engine => code' = code
    BY <1>2, <1>5 DEF EngineInv
  <2>2. QED
    BY <1>4, <1>5, <1>7, <2>1 DEF EngineInv, Clean
<1>18. QED
  BY <1>8, <1>9, <1>10, <1>11, <1>12, <1>13, <1>14, <1>15, <1>16, <1>17

\* One turn of UnregisterAll, which the code does not notice.
LEMMA DeleteTurnInv ==
    ASSUME IInv, RunLoop, DeleteEach
    PROVE  IInv'
<1> USE DEF IInv
<1>1. /\ op = "unregisterAll" /\ Destroy(patchList[cursor]) /\ cursor' = cursor + 1
      /\ UNCHANGED <<patchList, op, pluginVars>>
  BY DEF RunLoop, DeleteEach, AtElement
<1>2. phase \in {"unregistering", "teardown"}
  BY <1>1 DEF PhaseInv, OpOf, TypeOK
<1>3. UNCHANGED <<host, phase, module, loads, up, hooks, inner, built, pCvar, capped, step, crash>>
  BY <1>1 DEF pluginVars
<1>4. UNCHANGED <<code, pristine, replacement, original, patched>>
  BY <1>1 DEF Destroy, memory
<1>5. \A q \in Patches : Live(q)' => Live(q)
  BY <1>1 DEF Destroy, Live, ManagerInv, BinInv, BinTypeOK
<1>6. Listed' = Listed /\ (\A s : Wanted(s)' = Wanted(s))
  BY <1>1, <1>3 DEF Listed, Wanted
<1>7. host.icvar => Clean
  BY <1>2 DEF RestInv, Resting, ForceInv, PhaseInv
<1>8. ManagerInv'
  BY DeleteEachInv
<1>9. TypeOK'
  BY <1>3, <1>8, Zenon DEF TypeOK, ManagerInv
<1>10. PhaseInv'
  BY <1>1, <1>2, <1>3 DEF PhaseInv, OpOf
<1>11. ObjectInv'
  BY <1>3, <1>4, <1>5, <1>6 DEF ObjectInv
<1>12. CodeInv'
  BY <1>3, <1>4, <1>6 DEF CodeInv
<1>13. RestInv'
  BY <1>3, <1>4 DEF RestInv, Clean, AllDirty, AllPatched, Wanted
<1>14. SnapshotInv'
  BY <1>2, <1>3 DEF SnapshotInv, Unapplied
<1>15. ForceInv'
  BY <1>2, <1>3, <1>4, <1>5, <1>6, <1>7 DEF ForceInv, Clean
<1>16. CvarInv'
  BY <1>3, <1>4 DEF CvarInv, AllPatched, Wanted
<1>17. EngineInv'
  BY <1>3, <1>4, <1>5 DEF EngineInv, Clean
<1>18. QED
  BY <1>8, <1>9, <1>10, <1>11, <1>12, <1>13, <1>14, <1>15, <1>16, <1>17

-----------------------------------------------------------------------------
\* Before the server has mapped the module.
LEMMA InitIInv == Init => IInv
<1> SUFFICES ASSUME Init PROVE IInv
  OBVIOUS
<1>1. ManagerInv
  BY ManagerInitInv DEF Init
<1>2. /\ patchList = <<>> /\ op = "idle" /\ cursor = 1 /\ fault = "none" /\ code = pristine
      /\ life = [p \in Patches |-> "unborn"] /\ patched = [p \in Patches |-> FALSE]
  BY DEF Init, ManagerInit, BinInit
<1>3. TypeOK
  <2>1. 1 \in 1..Len(Cvars) + 1 /\ 0 \in 0..MaxLoads /\ 0 \in 0..MaxModules
        /\ 0 \in 0..Len(RateSites) /\ Len(<<>>) <= Len(BoomerReads) /\ <<>> \in Seq(Patches)
    BY CvarFacts, BoundAssumption, RateFacts, ReadFacts
  <2>2. host \in [gamedll : BOOLEAN, engine : BOOLEAN, icvar : BOOLEAN, missing : SUBSET Range(Cvars)]
    BY DEF Init
  <2>3. QED
    BY <1>1, <2>1, <2>2, Zenon DEF Init, TypeOK, ManagerInv
<1>4. PhaseInv
  BY <1>2 DEF Init, PhaseInv, OpOf
<1>5. ObjectInv
  BY <1>2 DEF ObjectInv, Live
<1>6. CodeInv
  BY <1>2 DEF Init, CodeInv
<1>7. RestInv
  BY <1>2 DEF Init, RestInv, Clean
<1>8. SnapshotInv
  BY <1>2 DEF Init, SnapshotInv, Unapplied, Live
<1>9. ForceInv
  BY <1>2 DEF Init, ForceInv, Live
<1>10. CvarInv
  BY <1>2 DEF Init, CvarInv
<1>11. EngineInv
  BY <1>2 DEF Init, EngineInv, Clean, Live
<1>12. QED
  BY <1>1, <1>3, <1>4, <1>5, <1>6, <1>7, <1>8, <1>9, <1>10, <1>11 DEF IInv

\* Stuttering.
LEMMA StutterInv ==
    ASSUME IInv, UNCHANGED vars
    PROVE  IInv'
<1> USE DEF IInv, vars, managerVars, binVars, memory, objects, loopVars, pluginVars
<1>1. /\ ManagerInv' /\ ObjectInv' /\ CodeInv'
      /\ (Clean' <=> Clean) /\ (AllDirty' <=> AllDirty) /\ (AllPatched' <=> AllPatched)
      /\ Listed' = Listed
  BY Untouched, ManagerStutterInv
<1>2. TypeOK'
  BY <1>1, Zenon DEF TypeOK, ManagerInv
<1>3. PhaseInv'
  BY <1>1 DEF PhaseInv, OpOf, Live, ObjectFor
<1>4. RestInv'
  BY <1>1 DEF RestInv
<1>5. SnapshotInv'
  BY <1>1 DEF SnapshotInv, Live, ObjectFor, Wanted
<1>6. ForceInv'
  BY <1>1 DEF ForceInv, Live, Wanted
<1>7. CvarInv'
  BY <1>1 DEF CvarInv
<1>8. EngineInv'
  BY <1>1 DEF EngineInv, Live
<1>9. QED
  BY <1>1, <1>2, <1>3, <1>4, <1>5, <1>6, <1>7, <1>8

\* Every step of the server and of the plugin.
LEMMA NextInv ==
    ASSUME IInv, [Next]_vars
    PROVE  IInv'
<1>1. CASE HostStep
  BY <1>1, HostMapInv, HostLoadInv, HostUnloadInv, HostUnmapInv DEF HostStep
<1>2. CASE LoadStep
  BY <1>2, FindInterfacesInv, BuildBoomerReadInv, BoomerThrowsInv, RegisterBoomerInv, BuildRateInv,
     RateThrowsInv, CallPatchAllInv, PatchAllReturnsInv, FindCvarInterfaceInv, UncapInv,
     LoadReturnsTrueInv DEF LoadStep
<1>3. CASE UnloadStep
  BY <1>3, RecapInv, CallUnpatchAllInv, UnpatchAllReturnsInv, UnloadReturnsInv DEF UnloadStep
<1>4. CASE RunLoop
  BY <1>4, PatchTurnInv, UnpatchTurnInv, DeleteTurnInv DEF RunLoop
<1>5. CASE TeardownEnds
  BY <1>5, TeardownEndsInv
<1>6. CASE UNCHANGED vars
  BY <1>6, StutterInv
<1>7. QED
  BY <1>1, <1>2, <1>3, <1>4, <1>5, <1>6 DEF Next, PluginStep

\* The invariant holds in every reachable state.
THEOREM PluginInvariant == Spec => []IInv
<1>1. QED
  BY InitIInv, NextInv, PTL DEF Spec

\* The plugin's variables keep their types.
THEOREM PluginTypeCorrect == Spec => []TypeOK
<1>1. IInv => TypeOK
  BY DEF IInv
<1>2. QED
  BY PluginInvariant, <1>1, PTL

\* A retried Load never puts an object in force that has saved patched code.
THEOREM RetriesAreSound == Spec => []AppliedAreSound
<1>1. IInv => AppliedAreSound
  BY ObjectFacts DEF IInv, ObjectInv, AppliedAreSound, SoundSnapshot, Live
<1>2. QED
  BY PluginInvariant, <1>1, PTL

\* No failed constructor loses an object, none is held twice.
THEOREM NothingLost == Spec => []LiveAreOwned
<1>1. IInv => LiveAreOwned
  <2> SUFFICES ASSUME IInv PROVE LiveAreOwned
    OBVIOUS
  <2> DEFINE all == patchList \o inner
  <2>1. \A p \in Patches : life[p] = "live" => p \in Listed \cup Range(inner)
    BY DEF IInv, ObjectInv, Live
  <2>2. /\ patchList \in Seq(Patches) /\ inner \in Seq(Patches)
        /\ Len(inner) <= Len(BoomerReads)
        /\ \A i, j \in DOMAIN patchList : patchList[i] = patchList[j] => i = j
    BY DEF IInv, TypeOK, ManagerTypeOK, ManagerInv, ListedAlive
  <2>3. \A i \in DOMAIN inner : inner[i] \notin Listed
    BY DEF IInv, PhaseInv
  <2>4. \A i, j \in DOMAIN inner : inner[i] = inner[j] => i = j
    BY <2>2, ReadFacts DEF IInv, PhaseInv, ObjectFor
  <2>5. ASSUME NEW i \in DOMAIN all, NEW j \in DOMAIN all, all[i] = all[j]
        PROVE  i = j
    BY <2>2, <2>3, <2>4, <2>5 DEF Listed
  <2>6. IsInjective(all)
    BY <2>5 DEF IsInjective
  <2>7. QED
    BY <2>1, <2>6 DEF LiveAreOwned
<1>2. QED
  BY PluginInvariant, <1>1, PTL

\* Between the server's calls the game is patched everywhere or nowhere.
THEOREM PatchedAllOrNothing == Spec => []AllOrNothing
<1>1. IInv => AllOrNothing
  BY DEF IInv, RestInv, Resting, AllOrNothing, BetweenCalls, Clean, AllDirty
<1>2. QED
  BY PluginInvariant, <1>1, PTL

\* A cvar without a maximum means that every clamp in the code is gone.
THEOREM CapsCoverClamps == Spec => []UncappedOnlyIfPatched
<1>1. IInv => UncappedOnlyIfPatched
  BY DEF IInv, CvarInv, UncappedOnlyIfPatched
<1>2. QED
  BY PluginInvariant, <1>1, PTL

\* If the server has ICvar, no code reads a variable of a module that is gone.
THEOREM ReadsAreAlive == Spec => []NoDanglingRead
<1>1. IInv => NoDanglingRead
  <2> SUFFICES ASSUME IInv, host.icvar, NEW s \in BoomerSite, NEW m \in 1..MaxModules, code[s] = Fake(m)
               PROVE  m = module /\ phase # "unmapped"
    BY DEF NoDanglingRead
  <2>1. s \in Site
    BY SiteFacts
  <2>2. code[s] # pristine[s]
    BY <2>1, PristineFacts DEF IInv
  <2>3. code[s] = Fake(module)
    BY <2>1, <2>2 DEF IInv, CodeInv, Wanted
  <2>4. m = module
    <3>1. m \in Nat /\ module \in Nat /\ Fake(m) = Fake(module)
      BY <2>3, BoundAssumption DEF IInv, TypeOK
    <3>2. QED
      BY <3>1, ByteFacts
  <2>5. phase # "unmapped"
    BY <2>2 DEF IInv, PhaseInv, RestInv, Resting, Clean
  <2>6. QED
    BY <2>4, <2>5
<1>2. QED
  BY PluginInvariant, <1>1, PTL

\* The NULL engine pointer stops Load before it writes any code.
THEOREM EngineNeeded == Spec => []NoEngineNoPatch
<1>1. IInv => NoEngineNoPatch
  BY DEF IInv, EngineInv, NoEngineNoPatch, Clean
<1>2. QED
  BY PluginInvariant, <1>1, PTL

\* A plugin that is up has its hook, its cvars and no NULL pointer to meet.
THEOREM UpMeansComplete == Spec => []UpIsComplete
<1>1. IInv => UpIsComplete
  BY DEF IInv, CvarInv, UpIsComplete, BetweenCalls, PhaseInv
<1>2. QED
  BY PluginInvariant, <1>1, PTL

\* Unload leaves no hook, no patch, no changed code and no lifted cap.
THEOREM UnloadIsComplete == Spec => UnloadUndoesAll
<1>1. IInv /\ [Next]_vars =>
        [UnloadReturns => hooks' = 0 /\ capped' = Range(Cvars) /\ code' = pristine
                          /\ patchList' = <<>>]_vars
  <2> SUFFICES ASSUME IInv, UnloadReturns
               PROVE  hooks' = 0 /\ capped' = Range(Cvars) /\ code' = pristine /\ patchList' = <<>>
    OBVIOUS
  <2>1. capped = Range(Cvars) /\ Clean
    BY DEF IInv, CvarInv, ForceInv, UnloadReturns, At
  <2>2. QED
    BY <2>1 DEF UnloadReturns, Clear, Clean, binVars, memory
<1>2. QED
  BY PluginInvariant, <1>1, PTL DEF Spec, UnloadUndoesAll

\* What patchmanager.h:40 promises, that the patches are cleaned up when the module
\* goes, holds on every server that has ICvar: the counterexample to CleanAfterUnmap needs
\* a server that has not.
THEOREM UnmapCleansWithCvar == Spec => [](host.icvar => CleanAfterUnmap)
<1>1. IInv => (host.icvar => CleanAfterUnmap)
  BY DEF IInv, PhaseInv, RestInv, Resting, Clean, CleanAfterUnmap
<1>2. QED
  BY PluginInvariant, <1>1, PTL

\* And README.MD:9's vomit patch comes with the tick rate whenever Load has returned
\* true, whatever calls of Load have failed before or since.
THEOREM UpHasVomitPatch == Spec => [](up => TickRateComesWithVomitPatch)
<1>1. IInv => (up => TickRateComesWithVomitPatch)
  BY SiteFacts DEF IInv, CvarInv, RestInv, Resting, AllPatched, Wanted, TickRateComesWithVomitPatch
<1>2. QED
  BY PluginInvariant, <1>1, PTL

\* The plugin, which also builds and destroys objects in bulk, uses the manager and
\* the objects in a way that keeps what they promise on their own.
THEOREM PluginKeepsManager ==
    Spec => [](ListedAlive /\ UnpatchAllRestores /\ UnpatchNeverFaults /\ NoUninitialisedCode)
<1>1. IInv => ListedAlive /\ UnpatchAllRestores /\ UnpatchNeverFaults /\ NoUninitialisedCode
  BY JunkAssumption DEF IInv, ManagerInv, BinInv, UnpatchNeverFaults, NoUninitialisedCode
<1>2. QED
  BY PluginInvariant, <1>1, PTL

-----------------------------------------------------------------------------
\* The refinement of PluginContract.

\* What the invariant says of the contract's variables.
LEMMA EffectFacts ==
    ASSUME IInv
    PROVE  /\ Clean => ChangedNow = {}
           /\ AllDirty => ChangedNow = Site
           /\ AllPatched => ChangedNow = Site
           /\ ~AllPatched => UncappedNow = {}
           /\ ~host.icvar => UncappedNow = {}
           /\ capped = Range(Cvars) => UncappedNow = {}
           /\ capped = {} => UncappedNow = Range(Cvars)
<1>1. AllPatched => AllDirty
  BY PatchedIsDirty DEF IInv, TypeOK
<1>2. (Clean => ChangedNow = {}) /\ (AllDirty => ChangedNow = Site)
  BY DEF Clean, AllDirty, ChangedNow
<1>3. ~AllPatched \/ ~host.icvar => capped = Range(Cvars)
  BY DEF IInv, CvarInv
<1>4. QED
  BY <1>1, <1>2, <1>3 DEF UncappedNow

\* The effects of a step that writes no code and touches neither cvars nor hook.
LEMMA EffectsKept ==
    /\ UNCHANGED <<code, pristine>> => ChangedNow' = ChangedNow
    /\ UNCHANGED capped => UncappedNow' = UncappedNow
    /\ UNCHANGED hooks => HookedNow' = HookedNow
    /\ UNCHANGED phase => MappedNow' = MappedNow
    /\ UNCHANGED <<phase, fault, crash>> => CallNow' = CallNow
BY DEF ChangedNow, UncappedNow, HookedNow, MappedNow, CallNow, Alive

\* Which call a phase belongs to.
LEMMA PhaseCall ==
    Alive => /\ phase \in {"interfaces", "boomer", "rates", "patching", "cvar", "uncap"} =>
                   CallNow = "load" /\ MappedNow
             /\ phase \in {"recap", "unpatching", "unregistering"} => CallNow = "unload" /\ MappedNow
             /\ phase = "idle" => CallNow = "none" /\ MappedNow
             /\ phase \in {"unmapped", "teardown"} => CallNow = "none" /\ ~MappedNow
BY DEF CallNow, MappedNow

\* And in the next state.
LEMMA PhaseCallNext ==
    Alive' => /\ phase' \in {"interfaces", "boomer", "rates", "patching", "cvar", "uncap"} =>
                    CallNow' = "load" /\ MappedNow'
              /\ phase' \in {"recap", "unpatching", "unregistering"} =>
                    CallNow' = "unload" /\ MappedNow'
              /\ phase' = "idle" => CallNow' = "none" /\ MappedNow'
              /\ phase' \in {"unmapped", "teardown"} => CallNow' = "none" /\ ~MappedNow'
BY DEF CallNow, MappedNow

\* What a Load that stops before PatchAll leaves behind is what the contract lets it.
LEMMA MayFail ==
    ASSUME IInv, phase \in {"interfaces", "boomer", "rates"}
    PROVE  \/ up /\ ChangedNow = Site /\ UncappedNow = Range(Cvars) /\ HookedNow
           \/ ~up /\ UncappedNow = {} /\ (ChangedNow = {} \/ (~host.icvar /\ ChangedNow = Site))
<1>1. Clean => ~AllPatched
  BY CleanNotPatched DEF IInv, TypeOK
<1>2. CASE up
  <2>1. host.icvar /\ hooks > 0 /\ capped = {}
    BY <1>2 DEF IInv, CvarInv
  <2>2. AllPatched
    BY <1>2, <2>1 DEF IInv, RestInv, Resting
  <2>3. QED
    BY <1>2, <2>1, <2>2, EffectFacts DEF HookedNow
<1>3. CASE ~up /\ host.icvar
  <2>1. Clean
    BY <1>3 DEF IInv, RestInv, Resting
  <2>2. QED
    BY <1>1, <1>3, <2>1, EffectFacts
<1>4. CASE ~up /\ ~host.icvar
  <2>1. Clean \/ AllDirty
    BY DEF IInv, RestInv, Resting
  <2>2. QED
    BY <1>4, <2>1, EffectFacts
<1>5. QED
  BY <1>2, <1>3, <1>4

\* The server's own calls.
LEMMA HostContract ==
    ASSUME IInv, HostStep
    PROVE  Contract!ContractNext
<1> USE DEF Contract!server, Contract!effects, At, managerVars, binVars, memory, objects
<1>1. CASE HostMap
  <2>1. CallNow = "none" /\ ~MappedNow /\ CallNow' = "none" /\ MappedNow'
    BY <1>1, PhaseCall, PhaseCallNext DEF HostMap, Alive
  <2>2. UNCHANGED <<host, up, ChangedNow, UncappedNow, HookedNow>>
    BY <1>1, EffectsKept DEF HostMap
  <2>3. QED
    BY <2>1, <2>2 DEF Contract!Map, Contract!ContractNext
<1>2. CASE HostLoad
  <2>1. CallNow = "none" /\ MappedNow /\ CallNow' = "load" /\ MappedNow'
    BY <1>2, PhaseCall, PhaseCallNext DEF HostLoad, Alive
  <2>2. UNCHANGED <<host, up, ChangedNow, UncappedNow, HookedNow>>
    BY <1>2, EffectsKept DEF HostLoad
  <2>3. Contract!Begin("load")
    BY <2>1, <2>2 DEF Contract!Begin
  <2>4. QED
    BY <2>3 DEF Contract!ContractNext
<1>3. CASE HostUnload
  <2>1. CallNow = "none" /\ MappedNow /\ CallNow' = "unload" /\ MappedNow'
    BY <1>3, PhaseCall, PhaseCallNext DEF HostUnload, Alive
  <2>2. UNCHANGED <<host, up, ChangedNow, UncappedNow, HookedNow>>
    BY <1>3, EffectsKept DEF HostUnload
  <2>3. Contract!Begin("unload")
    BY <2>1, <2>2 DEF Contract!Begin
  <2>4. QED
    BY <2>3 DEF Contract!ContractNext
<1>4. CASE HostUnmap
  <2>1. CallNow = "none" /\ MappedNow /\ CallNow' = "none" /\ ~MappedNow'
    BY <1>4, PhaseCall, PhaseCallNext DEF HostUnmap, Begin, Alive
  <2>2. UNCHANGED <<host, up, ChangedNow, UncappedNow>> /\ ~HookedNow' /\ ~up
    BY <1>4, EffectsKept DEF HostUnmap, Begin, HookedNow
  <2>3. UncappedNow = {} /\ (host.icvar => ChangedNow = {})
    <3>1. CASE host.icvar
      <4>1. Clean
        BY <1>4, <3>1 DEF HostUnmap, IInv, RestInv, Resting
      <4>2. ~AllPatched
        BY <4>1, CleanNotPatched DEF IInv, TypeOK
      <4>3. QED
        BY <4>1, <4>2, EffectFacts
    <3>2. CASE ~host.icvar
      BY <3>2, EffectFacts
    <3>3. QED
      BY <3>1, <3>2
  <2>4. QED
    BY <2>1, <2>2, <2>3 DEF Contract!Unmap, Contract!ContractNext
<1>5. QED
  BY <1>1, <1>2, <1>3, <1>4 DEF HostStep

\* A Load that returns false, and the hook it adds.
LEMMA FailContract ==
    ASSUME IInv, FindInterfaces \/ BoomerThrows \/ RateThrows
    PROVE  Contract!ContractNext
<1> USE DEF Contract!server, Contract!effects, At, managerVars, binVars, memory, objects
<1>1. CASE FindInterfaces /\ host.gamedll
  <2>1. CallNow = "load" /\ MappedNow /\ CallNow' = "load" /\ MappedNow'
    BY <1>1, PhaseCall, PhaseCallNext DEF FindInterfaces, Alive
  <2>2. UNCHANGED <<host, up, ChangedNow, UncappedNow>>
    BY <1>1, EffectsKept DEF FindInterfaces
  <2>3. HookedNow'
    BY <1>1 DEF FindInterfaces, HookedNow, IInv, TypeOK
  <2>4. QED
    BY <2>1, <2>2, <2>3 DEF Contract!AddHook, Contract!ContractNext
<1>2. CASE (FindInterfaces /\ ~host.gamedll) \/ BoomerThrows \/ RateThrows
  <2>1. CallNow = "load" /\ MappedNow /\ CallNow' = "none" /\ MappedNow'
    BY <1>2, PhaseCall, PhaseCallNext DEF FindInterfaces, BoomerThrows, RateThrows, GiveUp, Alive
  <2>2. UNCHANGED <<host, up, ChangedNow, UncappedNow, HookedNow>>
    BY <1>2, EffectsKept DEF FindInterfaces, BoomerThrows, RateThrows
  <2>3. phase \in {"interfaces", "boomer", "rates"}
    BY <1>2 DEF FindInterfaces, BoomerThrows, RateThrows
  <2>4. Contract!LoadFails
    BY <2>1, <2>2, <2>3, MayFail DEF Contract!LoadFails, Contract!InPlace
  <2>5. QED
    BY <2>4 DEF Contract!ContractNext
<1>3. QED
  BY <1>1, <1>2 DEF FindInterfaces

\* What happens inside a call and the server cannot see.
LEMMA InnerContract ==
    ASSUME IInv, \/ BuildBoomerRead \/ RegisterBoomer \/ BuildRate \/ CallPatchAll
                 \/ PatchAllReturns \/ CallUnpatchAll \/ UnpatchAllReturns \/ TeardownEnds
    PROVE  UNCHANGED Contract!contractVars
<1> USE DEF At, managerVars, binVars, memory, objects
<1>1. UNCHANGED <<code, pristine, fault, crash, capped, hooks, host, up>>
  BY DEF BuildBoomerRead, RegisterBoomer, BuildRate, CallPatchAll, PatchAllReturns, CallUnpatchAll,
         UnpatchAllReturns, TeardownEnds, Construct, Begin, Finish, Clear
<1>2. Alive /\ Alive'
  BY <1>1 DEF Alive, BuildBoomerRead, RegisterBoomer, BuildRate, CallPatchAll, PatchAllReturns,
              CallUnpatchAll, UnpatchAllReturns, TeardownEnds
<1>3. CallNow' = CallNow /\ MappedNow' = MappedNow
  <2>1. CASE BuildBoomerRead \/ RegisterBoomer \/ BuildRate \/ CallPatchAll \/ PatchAllReturns
    <3>1. /\ phase \in {"boomer", "rates", "patching"}
          /\ phase' \in {"boomer", "rates", "patching", "cvar"}
      BY <2>1 DEF BuildBoomerRead, RegisterBoomer, BuildRate, CallPatchAll, PatchAllReturns
    <3>2. CallNow' = CallNow
      BY <1>2, <3>1, PhaseCall, PhaseCallNext
    <3>3. MappedNow' = MappedNow
      BY <3>1 DEF MappedNow
    <3>4. QED
      BY <3>2, <3>3
  <2>2. CASE CallUnpatchAll \/ UnpatchAllReturns
    <3>1. /\ phase \in {"recap", "unpatching"}
          /\ phase' \in {"unpatching", "unregistering"}
      BY <2>2 DEF CallUnpatchAll, UnpatchAllReturns
    <3>2. CallNow' = CallNow
      BY <1>2, <3>1, PhaseCall, PhaseCallNext
    <3>3. MappedNow' = MappedNow
      BY <3>1 DEF MappedNow
    <3>4. QED
      BY <3>2, <3>3
  <2>3. CASE TeardownEnds
    <3>1. phase = "teardown" /\ phase' = "unmapped"
      BY <2>3 DEF TeardownEnds
    <3>2. CallNow' = CallNow
      BY <1>2, <3>1, PhaseCall, PhaseCallNext
    <3>3. MappedNow' = MappedNow
      BY <3>1 DEF MappedNow
    <3>4. QED
      BY <3>2, <3>3
  <2>4. QED
    BY <2>1, <2>2, <2>3
<1>4. QED
  BY <1>1, <1>3, EffectsKept DEF Contract!contractVars, Contract!server, Contract!effects

\* What Load and Unload do to the cvars.
LEMMA CvarContract ==
    ASSUME IInv, FindCvarInterface \/ Uncap \/ Recap
    PROVE  Contract!ContractNext \/ UNCHANGED Contract!contractVars
<1> USE DEF At, managerVars, binVars, memory, objects, Contract!server, Contract!effects
<1>1. /\ UNCHANGED <<code, pristine, fault, hooks, host, up>>
      /\ UNCHANGED <<ChangedNow, HookedNow>>
      /\ Alive
  <2>1. UNCHANGED <<code, pristine, fault, hooks, host, up>> /\ Alive
    BY DEF FindCvarInterface, Uncap, Recap
  <2>2. QED
    BY <2>1, EffectsKept
<1>2. CASE FindCvarInterface
  <2>1. phase = "cvar" /\ ~up /\ AllPatched /\ UNCHANGED <<capped, crash>> /\ Alive'
    BY <1>1, <1>2 DEF FindCvarInterface, IInv, PhaseInv, SnapshotInv, Alive
  <2>2. CallNow = "load" /\ MappedNow /\ UncappedNow' = UncappedNow /\ ChangedNow = Site
    BY <1>1, <2>1, PhaseCall, EffectsKept, EffectFacts
  <2>3. CASE host.icvar
    <3>1. phase' = "uncap"
      BY <1>2, <2>3 DEF FindCvarInterface
    <3>2. CallNow' = CallNow
      BY <2>1, <2>2, <3>1, PhaseCallNext
    <3>3. MappedNow' = MappedNow
      BY <2>1, <3>1 DEF MappedNow
    <3>4. QED
      BY <1>1, <2>2, <3>2, <3>3 DEF Contract!contractVars
  <2>4. CASE ~host.icvar
    <3>1. phase' = "idle"
      BY <1>2, <2>4 DEF FindCvarInterface, GiveUp
    <3>2. CallNow' = "none"
      BY <2>1, <3>1, PhaseCallNext
    <3>3. MappedNow' = MappedNow
      BY <2>1, <3>1 DEF MappedNow
    <3>4. UncappedNow = {}
      BY <2>4, EffectFacts
    <3>5. Contract!LoadFails
      BY <1>1, <2>1, <2>2, <2>4, <3>2, <3>3, <3>4 DEF Contract!LoadFails
    <3>6. QED
      BY <3>5 DEF Contract!ContractNext
  <2>5. QED
    BY <2>3, <2>4
<1>3. CASE Uncap
  <2>1. /\ phase = "uncap" /\ phase' = phase /\ ~up /\ AllPatched /\ host.icvar
        /\ Cvars[step] \in Range(Cvars)
    BY <1>3, CvarFacts DEF Uncap, IInv, TypeOK, PhaseInv, SnapshotInv, CvarInv
  <2>2. CallNow = "load" /\ ChangedNow = Site /\ MappedNow' = MappedNow
    BY <1>1, <2>1, PhaseCall, EffectsKept, EffectFacts
  <2>3. CASE Cvars[step] \in host.missing
    <3>1. crash' = "load" /\ capped' = capped
      BY <1>3, <2>3 DEF Uncap
    <3>2. CallNow' = "dead" /\ UncappedNow' = UncappedNow
      BY <3>1, EffectsKept DEF CallNow, Alive
    <3>3. Contract!Die
      BY <1>1, <2>1, <2>2, <3>2 DEF Contract!Die
    <3>4. QED
      BY <3>3 DEF Contract!ContractNext
  <2>4. CASE Cvars[step] \notin host.missing
    <3>1. capped' = capped \ {Cvars[step]} /\ crash' = crash
      BY <1>3, <2>4 DEF Uncap
    <3>2. CallNow' = CallNow
      BY <1>1, <2>1, <3>1, EffectsKept
    <3>3. UncappedNow' = UncappedNow \cup {Cvars[step]}
      BY <2>1, <3>1 DEF UncappedNow
    <3>4. CASE Cvars[step] \in UncappedNow
      <4>1. UncappedNow' = UncappedNow
        BY <3>3, <3>4
      <4>2. QED
        BY <1>1, <2>2, <3>2, <4>1 DEF Contract!contractVars
    <3>5. CASE Cvars[step] \notin UncappedNow
      <4>1. Contract!Lift(Cvars[step])
        BY <1>1, <2>1, <2>2, <3>2, <3>3, <3>5 DEF Contract!Lift
      <4>2. QED
        BY <2>1, <4>1 DEF Contract!ContractNext
    <3>6. QED
      BY <3>4, <3>5
  <2>5. QED
    BY <2>3, <2>4
<1>4. CASE Recap
  <2>1. phase = "recap" /\ phase' = phase /\ Cvars[step] \in Range(Cvars)
    BY <1>4, CvarFacts DEF Recap, IInv, TypeOK
  <2>2. CallNow = "unload" /\ MappedNow' = MappedNow
    BY <1>1, <2>1, PhaseCall, EffectsKept
  <2>3. CASE ~pCvar \/ Cvars[step] \in host.missing
    <3>1. crash' = "unload" /\ capped' = capped
      BY <1>4, <2>3 DEF Recap
    <3>2. CallNow' = "dead" /\ UncappedNow' = UncappedNow
      BY <3>1, EffectsKept DEF CallNow, Alive
    <3>3. ~up
      BY <2>3 DEF IInv, CvarInv
    <3>4. Contract!Die
      BY <1>1, <2>2, <3>2, <3>3 DEF Contract!Die
    <3>5. QED
      BY <3>4 DEF Contract!ContractNext
  <2>4. CASE pCvar /\ Cvars[step] \notin host.missing
    <3>1. capped' = capped \cup {Cvars[step]} /\ crash' = crash
      BY <1>4, <2>4 DEF Recap
    <3>2. CallNow' = CallNow
      BY <1>1, <2>1, <3>1, EffectsKept
    <3>3. UncappedNow' = UncappedNow \ {Cvars[step]}
      BY <3>1 DEF UncappedNow
    <3>4. CASE Cvars[step] \notin UncappedNow
      <4>1. UncappedNow' = UncappedNow
        BY <3>3, <3>4
      <4>2. QED
        BY <1>1, <2>2, <3>2, <4>1 DEF Contract!contractVars
    <3>5. CASE Cvars[step] \in UncappedNow
      <4>1. UncappedNow # {}
        BY <3>5
      <4>2. ChangedNow = Site
        BY <4>1, EffectFacts
      <4>3. Contract!Recap(Cvars[step])
        BY <1>1, <2>2, <3>2, <3>3, <3>5, <4>2 DEF Contract!Recap
      <4>4. QED
        BY <2>1, <4>3 DEF Contract!ContractNext
    <3>6. QED
      BY <3>4, <3>5
  <2>5. QED
    BY <2>3, <2>4
<1>5. QED
  BY <1>2, <1>3, <1>4

\* The calls that do what they are for.
LEMMA ReturnContract ==
    ASSUME IInv, LoadReturnsTrue \/ UnloadReturns
    PROVE  Contract!ContractNext
<1> USE DEF At, managerVars, binVars, memory, objects, Contract!server, Contract!effects
<1>1. CASE LoadReturnsTrue
  <2>1. /\ phase = "uncap" /\ ~up /\ up' /\ AllPatched /\ host.icvar /\ hooks > 0 /\ phase' = "idle"
        /\ UNCHANGED <<code, pristine, fault, crash, capped, hooks, host>> /\ Alive /\ Alive'
    BY <1>1 DEF LoadReturnsTrue, IInv, PhaseInv, SnapshotInv, CvarInv, Alive
  <2>2. capped = {}
    <3>1. \A k \in DOMAIN Cvars : k < step /\ Cvars[k] \notin capped
      BY <1>1, CvarFacts DEF LoadReturnsTrue, IInv, TypeOK, CvarInv
    <3>2. QED
      BY <3>1, CvarFacts DEF IInv, TypeOK
  <2>3. /\ CallNow = "load" /\ CallNow' = "none"
        /\ ChangedNow = Site /\ UncappedNow = Range(Cvars) /\ HookedNow
        /\ UNCHANGED <<ChangedNow, UncappedNow, HookedNow>>
    BY <2>1, <2>2, PhaseCall, PhaseCallNext, EffectFacts, EffectsKept DEF HookedNow
  <2>4. MappedNow' = MappedNow /\ up' = TRUE
    BY <1>1, <2>1 DEF MappedNow, LoadReturnsTrue
  <2>5. Contract!LoadSucceeds
    BY <2>1, <2>3, <2>4 DEF Contract!LoadSucceeds, Contract!InPlace
  <2>6. QED
    BY <2>5 DEF Contract!ContractNext
<1>2. CASE UnloadReturns
  <2>1. /\ phase = "unregistering" /\ phase' = "idle" /\ hooks' = 0 /\ up' = FALSE
        /\ Clean /\ capped = Range(Cvars)
        /\ UNCHANGED <<code, pristine, fault, crash, capped, host>> /\ Alive /\ Alive'
    BY <1>2 DEF UnloadReturns, Clear, IInv, ForceInv, CvarInv, Alive
  <2>2. /\ CallNow = "unload" /\ CallNow' = "none"
        /\ ChangedNow = {} /\ UncappedNow = {}
        /\ UNCHANGED <<ChangedNow, UncappedNow>>
    BY <2>1, PhaseCall, PhaseCallNext, EffectFacts, EffectsKept
  <2>3. MappedNow' = MappedNow /\ HookedNow' = FALSE
    BY <2>1 DEF MappedNow, HookedNow
  <2>4. Contract!UnloadReturns
    BY <2>1, <2>2, <2>3 DEF Contract!UnloadReturns
  <2>5. QED
    BY <2>4 DEF Contract!ContractNext
<1>3. QED
  BY <1>1, <1>2

\* One turn of a loop of the manager: at most one site changes.
LEMMA LoopContract ==
    ASSUME IInv, RunLoop
    PROVE  Contract!ContractNext \/ UNCHANGED Contract!contractVars
<1> DEFINE p == patchList[cursor]
<1> USE DEF Contract!server, Contract!effects
<1>1. /\ UNCHANGED <<host, phase, module, up, hooks, capped, crash>>
      /\ Alive /\ cursor \in DOMAIN patchList
      /\ UNCHANGED <<MappedNow, UncappedNow, HookedNow>>
  <2>1. /\ UNCHANGED <<host, phase, module, up, hooks, capped, crash>>
        /\ Alive /\ cursor \in DOMAIN patchList
    BY DEF RunLoop, pluginVars, PatchEach, UnpatchEach, DeleteEach, AtElement, IInv, TypeOK,
           ManagerTypeOK
  <2>2. QED
    BY <2>1, EffectsKept
<1>2. p \in Patches /\ p \in Listed /\ p[1] \in Site /\ Target[p] = {p[1]}
  BY <1>1, ObjectFacts DEF IInv, TypeOK, ManagerTypeOK, Listed
<1>3. CASE PatchEach
  <2>1. phase = "patching" /\ ~up /\ hooks > 0 /\ Patch(p) /\ Live(p)
    BY <1>1, <1>2, <1>3 DEF PatchEach, AtElement, IInv, PhaseInv, OpOf, TypeOK, CvarInv, ManagerInv,
                            ListedAlive, Live
  <2>2. CallNow = "load"
    BY <1>1, <2>1, PhaseCall
  <2>3. UNCHANGED pristine /\ replacement[p][p[1]] = Wanted(p[1])
    BY <1>2, <2>1, PatchOne DEF IInv, ManagerInv, ObjectInv
  <2> HIDE DEF p
  <2>4. CASE fault' = "patch" /\ UNCHANGED code
    <3>1. CallNow' = "dead" /\ ChangedNow' = ChangedNow
      BY <2>3, <2>4, EffectsKept DEF CallNow, Alive
    <3>2. Contract!Die
      BY <1>1, <2>1, <2>2, <3>1 DEF Contract!Die
    <3>3. QED
      BY <3>2 DEF Contract!ContractNext
  <2>5. CASE fault' = fault /\ UNCHANGED code
    <3>1. CallNow' = CallNow /\ ChangedNow' = ChangedNow
      BY <1>1, <2>3, <2>5, EffectsKept
    <3>2. QED
      BY <1>1, <3>1 DEF Contract!contractVars
  <2>6. CASE /\ fault' = fault
             /\ \A s \in Site : code'[s] = IF s = p[1] THEN replacement[p][s] ELSE code[s]
    <3>1. CallNow' = CallNow
      BY <1>1, <2>6, EffectsKept
    <3>2. Wanted(p[1]) # pristine[p[1]]
      BY <1>2, PristineFacts DEF IInv, TypeOK, Wanted
    <3>3. ChangedNow' = ChangedNow \cup {p[1]}
      BY <1>2, <2>3, <2>6, <3>2 DEF ChangedNow
    <3>4. CASE p[1] \in ChangedNow
      <4>1. ChangedNow' = ChangedNow
        BY <3>3, <3>4
      <4>2. QED
        BY <1>1, <3>1, <4>1 DEF Contract!contractVars
    <3>5. CASE p[1] \notin ChangedNow
      <4>1. ~AllPatched
        BY <1>2, <3>2, <3>5 DEF AllPatched, ChangedNow
      <4>2. UncappedNow = {}
        BY <4>1, EffectFacts
      <4>3. HookedNow
        BY <2>1 DEF HookedNow
      <4>4. Contract!Apply(p[1])
        BY <1>1, <2>1, <2>2, <3>1, <3>3, <3>5, <4>2, <4>3 DEF Contract!Apply
      <4>5. QED
        BY <1>2, <4>4 DEF Contract!ContractNext
    <3>6. QED
      BY <3>4, <3>5
  <2>7. QED
    BY <1>2, <2>1, <2>4, <2>5, <2>6, PatchOne DEF IInv, ManagerInv
<1>4. CASE UnpatchEach
  <2>1. phase = "unpatching" /\ Unpatch(p) /\ Live(p) /\ capped = Range(Cvars)
    BY <1>1, <1>2, <1>4 DEF UnpatchEach, AtElement, IInv, PhaseInv, OpOf, TypeOK, CvarInv, ManagerInv,
                            ListedAlive, Live
  <2>2. CallNow = "unload" /\ UncappedNow = {}
    BY <1>1, <2>1, PhaseCall, EffectFacts
  <2>3. UNCHANGED <<pristine, fault>>
    BY <1>2, <2>1 DEF Unpatch, binVars, memory, IInv, ManagerInv, BinInv
  <2>4. CallNow' = CallNow
    BY <1>1, <2>3, EffectsKept
  <2>5. CASE UNCHANGED code
    <3>1. ChangedNow' = ChangedNow
      BY <2>3, <2>5, EffectsKept
    <3>2. QED
      BY <1>1, <2>4, <3>1 DEF Contract!contractVars
  <2>6. CASE code' # code
    <3>1. patched[p] /\ \A s \in Site : code'[s] = IF s = p[1] THEN original[p][s] ELSE code[s]
      BY <1>2, <2>1, <2>6 DEF Unpatch, Overwrite, binVars, memory
    <3>2. original[p][p[1]] = pristine[p[1]]
      BY <1>2, <2>1, <3>1 DEF IInv, ObjectInv
    <3> HIDE DEF p
    <3>3. ChangedNow' = ChangedNow \ {p[1]}
      BY <1>2, <2>3, <3>1, <3>2 DEF ChangedNow
    <3>4. CASE p[1] \notin ChangedNow
      <4>1. ChangedNow' = ChangedNow
        BY <3>3, <3>4
      <4>2. QED
        BY <1>1, <2>4, <4>1 DEF Contract!contractVars
    <3>5. CASE p[1] \in ChangedNow
      <4>1. Contract!Undo(p[1])
        BY <1>1, <2>2, <2>4, <3>3, <3>5 DEF Contract!Undo
      <4>2. QED
        BY <1>2, <4>1 DEF Contract!ContractNext
    <3>6. QED
      BY <3>4, <3>5
  <2>7. QED
    BY <2>5, <2>6
<1>5. CASE DeleteEach
  <2>1. UNCHANGED <<code, pristine, fault>>
    BY <1>5 DEF DeleteEach, Destroy, memory
  <2>2. QED
    BY <1>1, <2>1, EffectsKept DEF Contract!contractVars
<1>6. QED
  BY <1>3, <1>4, <1>5 DEF RunLoop

\* The plugin keeps the contract: with every server, any sites and cvars, and any
\* history of maps, Loads, Unloads and unmaps.
THEOREM PluginKeepsContract == Spec => KeepsContract
<1>1. Init => Contract!Init
  <2> SUFFICES ASSUME Init PROVE Contract!Init
    OBVIOUS
  <2>1. CallNow = "none" /\ ~MappedNow /\ ~HookedNow /\ UncappedNow = {} /\ ~up /\ host.icvar \in BOOLEAN
    BY DEF Init, ManagerInit, BinInit, CallNow, Alive, MappedNow, HookedNow, UncappedNow
  <2>2. ChangedNow = {}
    BY DEF Init, ManagerInit, BinInit, ChangedNow
  <2>3. QED
    BY <2>1, <2>2 DEF Contract!Init
<1>2. IInv /\ [Next]_vars => [Contract!ContractNext]_(Contract!contractVars)
  <2> SUFFICES ASSUME IInv, [Next]_vars
               PROVE  Contract!ContractNext \/ UNCHANGED Contract!contractVars
    OBVIOUS
  <2>1. CASE UNCHANGED vars
    BY <2>1, EffectsKept DEF vars, managerVars, binVars, memory, pluginVars, Contract!contractVars,
                             Contract!server, Contract!effects
  <2>2. CASE Next
    BY Zenon, <2>2, HostContract, FailContract, InnerContract, CvarContract, ReturnContract,
       LoopContract DEF Next, PluginStep, LoadStep, UnloadStep
  <2>3. QED
    BY <2>1, <2>2
<1>3. QED
  BY <1>1, <1>2, PluginInvariant, PTL DEF Spec, KeepsContract, Contract!ContractSpec

\* The contract is worth having: on its own, without anything of the plugin, it settles
\* what the server finds between its calls.
LEMMA ContractSettles == Contract!ContractSpec => []Contract!Settled
<1> USE DEF Contract!server, Contract!effects, Contract!InPlace
<1>1. Contract!Init => Contract!Settled
  BY DEF Contract!Init, Contract!Settled
<1>2. Contract!Settled /\ [Contract!ContractNext]_(Contract!contractVars) => Contract!Settled'
  <2> SUFFICES ASSUME Contract!Settled, [Contract!ContractNext]_(Contract!contractVars)
               PROVE  Contract!Settled'
    OBVIOUS
  <2>1. CASE UNCHANGED Contract!contractVars
    BY <2>1 DEF Contract!Settled, Contract!contractVars
  <2>2. CASE Contract!Map \/ Contract!Unmap \/ \E c \in {"load", "unload"} : Contract!Begin(c)
    BY <2>2 DEF Contract!Settled, Contract!Map, Contract!Unmap, Contract!Begin
  <2>3. CASE Contract!AddHook \/ (\E s \in Site : Contract!Apply(s))
             \/ \E c \in Range(Cvars) : Contract!Lift(c)
    BY <2>3 DEF Contract!Settled, Contract!AddHook, Contract!Apply, Contract!Lift
  <2>4. CASE Contract!LoadSucceeds \/ Contract!LoadFails \/ Contract!UnloadReturns \/ Contract!Die
    BY <2>4 DEF Contract!Settled, Contract!LoadSucceeds, Contract!LoadFails,
                Contract!UnloadReturns, Contract!Die
  <2>5. CASE (\E c \in Range(Cvars) : Contract!Recap(c)) \/ \E s \in Site : Contract!Undo(s)
    BY <2>5 DEF Contract!Settled, Contract!Recap, Contract!Undo
  <2>6. QED
    BY <2>1, <2>2, <2>3, <2>4, <2>5 DEF Contract!ContractNext
<1>3. QED
  BY <1>1, <1>2, PTL DEF Contract!ContractSpec

\* So what the contract settles holds of the plugin.
THEOREM PluginSettles == Spec => []Contract!Settled
<1>1. QED
  BY PluginKeepsContract, ContractSettles, PTL DEF KeepsContract

-----------------------------------------------------------------------------
\* How far a call of the server still has to go: the stage it is in, and the turns
\* that the loop of this stage can still take.
CallStage ==
    IF phase \in {"idle", "unmapped"} THEN 0
    ELSE IF phase \in {"unregistering", "teardown"} THEN 1 ELSE IF phase = "unpatching" THEN 2
    ELSE IF phase = "recap" THEN 3 ELSE IF phase = "uncap" THEN 4 ELSE IF phase = "cvar" THEN 5
    ELSE IF phase = "patching" THEN 6 ELSE IF phase = "rates" THEN 7
    ELSE IF phase = "boomer" THEN 8 ELSE 9
CallTurns ==
    IF phase = "boomer" THEN Len(BoomerReads) - Len(inner)
    ELSE IF phase = "rates" THEN Len(RateSites) - built
    ELSE IF phase \in {"uncap", "recap"} THEN Len(Cvars) + 1 - step
    ELSE IF phase \in {"patching", "unpatching", "unregistering", "teardown"}
         THEN IF cursor <= Len(patchList) THEN Len(patchList) + 1 - cursor ELSE 0
    ELSE 0
CallLowers == CallStage' < CallStage \/ (CallStage' = CallStage /\ CallTurns' < CallTurns)

\* A step that ends its stage.
LEMMA CallStageEnds ==
    ASSUME \/ FindInterfaces \/ BoomerThrows \/ RegisterBoomer \/ RateThrows \/ CallPatchAll
           \/ PatchAllReturns \/ FindCvarInterface \/ LoadReturnsTrue \/ CallUnpatchAll
           \/ UnpatchAllReturns \/ UnloadReturns \/ TeardownEnds
    PROVE  CallLowers
<1>1. CASE FindInterfaces
  <2>1. CallStage = 9 /\ CallStage' \in {0, 8}
    BY <1>1 DEF FindInterfaces, At, GiveUp, CallStage
  <2>2. QED
    BY <2>1 DEF CallLowers
<1>2. CASE BoomerThrows \/ RegisterBoomer
  <2>1. CallStage = 8 /\ CallStage' \in {0, 7}
    BY <1>2 DEF BoomerThrows, RegisterBoomer, At, GiveUp, CallStage
  <2>2. QED
    BY <2>1 DEF CallLowers
<1>3. CASE RateThrows \/ CallPatchAll
  <2>1. CallStage = 7 /\ CallStage' \in {0, 6}
    BY <1>3 DEF RateThrows, CallPatchAll, At, GiveUp, CallStage
  <2>2. QED
    BY <2>1 DEF CallLowers
<1>4. CASE PatchAllReturns
  <2>1. CallStage = 6 /\ CallStage' = 5
    BY <1>4 DEF PatchAllReturns, At, CallStage
  <2>2. QED
    BY <2>1 DEF CallLowers
<1>5. CASE FindCvarInterface
  <2>1. CallStage = 5 /\ CallStage' \in {0, 4}
    BY <1>5 DEF FindCvarInterface, At, GiveUp, CallStage
  <2>2. QED
    BY <2>1 DEF CallLowers
<1>6. CASE LoadReturnsTrue
  <2>1. CallStage = 4 /\ CallStage' = 0
    BY <1>6 DEF LoadReturnsTrue, At, CallStage
  <2>2. QED
    BY <2>1 DEF CallLowers
<1>7. CASE CallUnpatchAll
  <2>1. CallStage = 3 /\ CallStage' = 2
    BY <1>7 DEF CallUnpatchAll, At, CallStage
  <2>2. QED
    BY <2>1 DEF CallLowers
<1>8. CASE UnpatchAllReturns
  <2>1. CallStage = 2 /\ CallStage' = 1
    BY <1>8 DEF UnpatchAllReturns, At, CallStage
  <2>2. QED
    BY <2>1 DEF CallLowers
<1>9. CASE UnloadReturns \/ TeardownEnds
  <2>1. CallStage = 1 /\ CallStage' = 0
    BY <1>9 DEF UnloadReturns, TeardownEnds, At, CallStage
  <2>2. QED
    BY <2>1 DEF CallLowers
<1>10. QED
  BY Zenon, <1>1, <1>2, <1>3, <1>4, <1>5, <1>6, <1>7, <1>8, <1>9

\* A turn of one of the loops.
LEMMA CallTurnTaken ==
    ASSUME IInv, BuildBoomerRead \/ BuildRate \/ Uncap \/ Recap \/ RunLoop
    PROVE  CallLowers \/ ~Alive'
<1> USE DEF IInv
<1>1. CASE BuildBoomerRead
  <2>1. /\ phase = "boomer" /\ phase' = "boomer"
        /\ Len(inner') = Len(inner) + 1 /\ Len(inner) \in Nat
    BY <1>1 DEF BuildBoomerRead, At, TypeOK
  <2>2. CallTurns = Len(BoomerReads) - Len(inner) /\ CallTurns' = Len(BoomerReads) - Len(inner')
    BY Zenon, <2>1 DEF CallTurns
  <2>3. CallStage = 8 /\ CallStage' = 8
    BY <2>1 DEF CallStage
  <2>4. QED
    BY <2>1, <2>2, <2>3, ReadFacts DEF CallLowers
<1>2. CASE BuildRate
  <2>1. phase = "rates" /\ phase' = "rates" /\ built' = built + 1 /\ built \in Nat
    BY <1>2 DEF BuildRate, At, TypeOK
  <2>2. CallTurns = Len(RateSites) - built /\ CallTurns' = Len(RateSites) - built'
    BY <2>1 DEF CallTurns
  <2>3. CallStage = 7 /\ CallStage' = 7
    BY <2>1 DEF CallStage
  <2>4. QED
    BY <2>1, <2>2, <2>3, RateFacts DEF CallLowers
<1>3. CASE Uncap \/ Recap
  <2>1. CASE crash' # "none"
    BY <2>1 DEF Alive
  <2>2. CASE crash' = "none"
    <3>1. step' = step + 1 /\ step \in Nat /\ phase' = phase /\ phase \in {"uncap", "recap"}
      BY <1>3, <2>2 DEF Uncap, Recap, At, TypeOK
    <3>2. CallTurns = Len(Cvars) + 1 - step /\ CallTurns' = Len(Cvars) + 1 - step'
      BY <3>1 DEF CallTurns
    <3>3. CallStage \in {3, 4} /\ CallStage' = CallStage
      BY <3>1 DEF CallStage
    <3>4. QED
      BY <3>1, <3>2, <3>3, CvarFacts DEF CallLowers
  <2>3. QED
    BY <2>1, <2>2
<1>4. CASE RunLoop
  <2>1. /\ cursor' = cursor + 1 /\ cursor \in Nat /\ cursor <= Len(patchList)
        /\ patchList' = patchList /\ phase' = phase /\ Len(patchList) \in Nat
    BY <1>4 DEF RunLoop, PatchEach, UnpatchEach, DeleteEach, AtElement, pluginVars, TypeOK,
                ManagerTypeOK
  <2>2. op # "idle"
    BY <1>4 DEF RunLoop, PatchEach, UnpatchEach, DeleteEach, AtElement
  <2>3. phase \in {"patching", "unpatching", "unregistering", "teardown"}
    BY <2>2 DEF PhaseInv, OpOf
  <2>4. CallTurns = Len(patchList) + 1 - cursor
    BY <2>1, <2>3 DEF CallTurns
  <2>5. CallTurns' = IF cursor' <= Len(patchList) THEN Len(patchList) + 1 - cursor' ELSE 0
    BY <2>1, <2>3 DEF CallTurns
  <2>6. CallStage \in {1, 2, 6} /\ CallStage' = CallStage
    BY <2>1, <2>3 DEF CallStage
  <2>7. QED
    BY <2>1, <2>4, <2>5, <2>6 DEF CallLowers
<1>5. QED
  BY Zenon, <1>1, <1>2, <1>3, <1>4

\* Each step of a call of Load, of Unload or of the destructors brings the call nearer
\* to its end, or the process is gone: no list grows while a loop runs over it.  This
\* is why CallsReturn holds, for any sites, cvars and histories of calls.
THEOREM PluginCallsRunOut ==
    Spec => /\ [](CallTurns \in Nat /\ CallStage \in 0..9)
            /\ [][phase \notin {"idle", "unmapped"} => CallLowers \/ ~Alive']_vars
<1>1. IInv => CallTurns \in Nat /\ CallStage \in 0..9
  <2> SUFFICES ASSUME IInv PROVE CallTurns \in Nat /\ CallStage \in 0..9
    OBVIOUS
  <2>1. /\ Len(BoomerReads) - Len(inner) \in Nat /\ Len(RateSites) - built \in Nat
        /\ Len(Cvars) + 1 - step \in Nat
        /\ cursor <= Len(patchList) => Len(patchList) + 1 - cursor \in Nat
    BY ReadFacts, RateFacts, CvarFacts DEF IInv, TypeOK, ManagerTypeOK
  <2>2. CallTurns \in Nat
    BY <2>1 DEF CallTurns
  <2>3. CallStage \in 0..9
    BY DEF CallStage
  <2>4. QED
    BY <2>2, <2>3
<1>2. IInv /\ [Next]_vars => [phase \notin {"idle", "unmapped"} => CallLowers \/ ~Alive']_vars
  <2> SUFFICES ASSUME IInv, Next, phase \notin {"idle", "unmapped"} PROVE CallLowers \/ ~Alive'
    OBVIOUS
  <2>1. ~HostStep
    BY DEF HostStep, HostMap, HostLoad, HostUnload, HostUnmap, At
  <2>2. QED
    BY Zenon, <2>1, CallStageEnds, CallTurnTaken DEF Next, PluginStep, LoadStep, UnloadStep
<1>3. QED
  BY PluginInvariant, <1>1, <1>2, PTL DEF Spec

-----------------------------------------------------------------------------
\* What the server gets from it.

\* Between its calls the server changes nothing of the plugin's.
THEOREM ServerRunsPlugin == RatesSpec => Spec
<1>1. RatesInit => Init
  BY DEF RatesInit
<1>2. [RatesNext]_ratesVars => [Next]_vars
  BY DEF RatesNext, PluginOnly, ServerStep, ReadTick, SetAbove, SetWithin, ratesVars
<1>3. QED
  BY <1>1, <1>2, PTL DEF RatesSpec, Spec

\* Without the hook nothing is registered: the list is filled after the hook is added, and
\* emptied before it is removed or by the destructor right behind SourceHook's.
HookInv == hooks = 0 /\ phase # "teardown" => patchList = <<>>

LEMMA HookNextInv ==
    ASSUME IInv, HookInv, [Next]_vars
    PROVE  HookInv'
<1> USE DEF HookInv
<1>1. CASE HostStep \/ UNCHANGED vars
  BY <1>1 DEF HostStep, HostMap, HostLoad, HostUnload, HostUnmap, Begin, At, vars, managerVars,
              loopVars, pluginVars
<1>2. CASE FindInterfaces
  <2>1. hooks \in Nat /\ patchList' = patchList
    BY <1>2, BoundAssumption DEF IInv, TypeOK, FindInterfaces, managerVars, loopVars
  <2>2. QED
    BY <1>2, <2>1 DEF FindInterfaces, At
<1>3. CASE RegisterBoomer \/ BuildRate
  <2>1. hooks > 0 /\ hooks' = hooks
    BY <1>3 DEF IInv, CvarInv, RegisterBoomer, BuildRate, At
  <2>2. QED
    BY <2>1
<1>4. CASE BuildBoomerRead \/ BoomerThrows \/ RateThrows \/ CallPatchAll \/ PatchAllReturns
           \/ FindCvarInterface \/ Uncap \/ LoadReturnsTrue
  BY <1>4 DEF BuildBoomerRead, BoomerThrows, RateThrows, CallPatchAll, PatchAllReturns,
              FindCvarInterface, Uncap, LoadReturnsTrue, At, Begin, Finish, managerVars, loopVars
<1>5. CASE Recap \/ CallUnpatchAll \/ UnpatchAllReturns \/ RunLoop
  BY <1>5 DEF Recap, CallUnpatchAll, UnpatchAllReturns, RunLoop, PatchEach, UnpatchEach,
              DeleteEach, At, Begin, managerVars, loopVars, pluginVars
<1>6. CASE UnloadReturns \/ TeardownEnds
  BY <1>6 DEF UnloadReturns, TeardownEnds, Clear
<1>7. QED
  BY Zenon, <1>1, <1>2, <1>3, <1>4, <1>5, <1>6 DEF Next, PluginStep, LoadStep, UnloadStep

\* A raised cvar has had no maximum, so the server has ICvar.
RatesInv == /\ IInv /\ HookInv
            /\ asked \subseteq Tickrates
            /\ tick \in Nat
            /\ raised \subseteq Range(Cvars)
            /\ raised # {} => host.icvar

\* The server stays the same.
LEMMA SameHost == Next => host' = host
<1>1. HostStep => host' = host
  BY DEF HostStep, HostMap, HostLoad, HostUnload, HostUnmap
<1>2. LoadStep => host' = host
  BY DEF LoadStep, FindInterfaces, BuildBoomerRead, BoomerThrows, RegisterBoomer, BuildRate,
         RateThrows, CallPatchAll, PatchAllReturns, FindCvarInterface, Uncap, LoadReturnsTrue
<1>3. UnloadStep \/ TeardownEnds \/ RunLoop => host' = host
  BY DEF UnloadStep, Recap, CallUnpatchAll, UnpatchAllReturns, UnloadReturns, TeardownEnds,
         RunLoop, pluginVars
<1>4. QED
  BY <1>1, <1>2, <1>3 DEF Next, PluginStep

\* Every step keeps the invariant.
LEMMA RatesNextInv ==
    ASSUME RatesInv, [RatesNext]_ratesVars
    PROVE  RatesInv'
<1>1. IInv' /\ HookInv'
  <2>1. [Next]_vars
    BY DEF RatesNext, PluginOnly, ServerStep, ReadTick, SetAbove, SetWithin, ratesVars
  <2>2. QED
    BY <2>1, NextInv, HookNextInv DEF RatesInv
<1>2. CASE PluginOnly \/ UNCHANGED ratesVars
  <2>1. host' = host
    BY <1>2, SameHost DEF PluginOnly, ratesVars, vars, pluginVars
  <2>2. QED
    BY <1>1, <1>2, <2>1 DEF RatesInv, PluginOnly, ratesVars
<1>3. CASE ReadTick
  <2>1. asked \subseteq Int /\ host' = host
    BY <1>3, TickrateAssumption DEF RatesInv, ReadTick, vars, pluginVars
  <2>2. GetTickInterval = DefaultRate \/ (GetTickInterval \in asked /\ GetTickInterval > 10)
    BY DEF GetTickInterval
  <2>3. tick' = DefaultRate \/ tick' = GetTickInterval
    BY <1>3 DEF ReadTick
  <2>4. tick' \in Nat
    <3>1. CASE tick' = DefaultRate
      BY <3>1 DEF DefaultRate
    <3>2. CASE tick' \in asked /\ tick' > 10
      BY <2>1, <3>2
    <3>3. QED
      BY <2>2, <2>3, <3>1, <3>2
  <2>5. asked' = asked /\ raised' = raised
    BY <1>3 DEF ReadTick
  <2>6. QED
    BY <1>1, <2>1, <2>4, <2>5 DEF RatesInv
<1>4. ASSUME NEW c \in Range(Cvars), SetAbove(c) \/ SetWithin(c) PROVE RatesInv'
  <2>1. host' = host /\ asked' = asked /\ tick' = tick
    BY <1>4 DEF SetAbove, SetWithin, vars, pluginVars
  <2>2. raised' \subseteq raised \/ (c \notin capped /\ raised' = raised \cup {c})
    BY <1>4 DEF SetAbove, SetWithin
  <2>3. c \notin capped => host.icvar
    BY DEF RatesInv, IInv, CvarInv
  <2>4. QED
    BY <1>1, <2>1, <2>2, <2>3 DEF RatesInv
<1>5. QED
  BY <1>2, <1>3, <1>4 DEF RatesNext, ServerStep

\* The invariant holds in every reachable state.
THEOREM RatesInvariant == RatesSpec => []RatesInv
<1>1. RatesInit => RatesInv
  BY InitIInv DEF RatesInit, RatesInv, HookInv, Init, ManagerInit, DefaultRate
<1>2. QED
  BY <1>1, RatesNextInv, PTL DEF RatesSpec

\* The server's variables keep their types.
THEOREM RatesTypeCorrect == RatesSpec => []RatesTypeOK
<1>1. RatesInv => RatesTypeOK
  BY DEF RatesInv, IInv, RatesTypeOK
<1>2. QED
  BY RatesInvariant, <1>1, PTL

\* A server that runs at its own rate against its command line is free of the plugin.
THEOREM OwnRateMeansOwnGame == RatesSpec => OwnRateOwnGame
<1> DEFINE Free == /\ ~up /\ patchList = <<>> /\ capped = Range(Cvars)
                   /\ host.icvar => code = pristine
<1>1. RatesInv /\ [RatesNext]_ratesVars => [ReadTick /\ tick' # GetTickInterval => Free]_ratesVars
  <2> SUFFICES ASSUME RatesInv, ReadTick, tick' # GetTickInterval PROVE Free
    OBVIOUS
  <2>1. BetweenCalls /\ hooks = 0
    <3>1. BetweenCalls /\ tick' = IF hooks > 0 THEN GetTickInterval ELSE DefaultRate
      BY DEF ReadTick
    <3>2. hooks \in Nat
      BY BoundAssumption DEF RatesInv, IInv, TypeOK
    <3>3. QED
      BY <3>1, <3>2
  <2>2. ~up /\ patchList = <<>>
    BY <2>1 DEF RatesInv, IInv, CvarInv, HookInv, BetweenCalls
  <2>3. host.icvar => code = pristine
    BY <2>1, <2>2 DEF RatesInv, IInv, RestInv, Resting, BetweenCalls, Clean
  <2>4. capped = Range(Cvars)
    <3>1. SUFFICES ASSUME capped # Range(Cvars) PROVE FALSE
      OBVIOUS
    <3>2. host.icvar /\ AllPatched
      BY <3>1 DEF RatesInv, IInv, CvarInv
    <3>3. Clean /\ CodeInv /\ module \in Nat
      BY <2>3, <3>2, BoundAssumption DEF RatesInv, IInv, TypeOK, Clean
    <3>4. QED
      BY <3>2, <3>3, CleanNotPatched
  <2>5. QED
    BY <2>2, <2>3, <2>4
<1>2. QED
  BY RatesInvariant, <1>1, PTL DEF RatesSpec, OwnRateOwnGame

\* Raised values that outlive the plugin meet the game's own clamps.
THEOREM ExcessAlwaysClamped == RatesSpec => []ExcessIsClamped
<1>1. RatesInv => ExcessIsClamped
  <2> SUFFICES ASSUME RatesInv, BetweenCalls, ~up, raised # {} PROVE code = pristine
    BY DEF ExcessIsClamped
  <2>1. QED
    BY DEF RatesInv, IInv, RestInv, Resting, BetweenCalls, Clean
<1>2. QED
  BY RatesInvariant, <1>1, PTL
=============================================================================
