-------------------------- MODULE InterfaceSearch ---------------------------
(* SearchForInterfaceName of tickrate_enabler.cpp: asks a factory for        *)
(* versions 001, 002, ... of an interface, counting in the last three        *)
(* characters of its name ("ServerGameDLL000", "VEngineServer000").          *)
EXTENDS Integers

CONSTANTS Tries,      \* 100, the bound of the outer loop
          Offerings   \* sets of versions a factory may offer

ASSUME TriesAssumption == Tries \in 1..999
ASSUME OfferingsAssumption == Offerings \subseteq SUBSET (0..999)

VARIABLES offered,   \* versions the factory knows (it is only ever asked)
          digit,     \* name[namelen-3], name[namelen-2], name[namelen-1]
          i,         \* the digit being incremented, 0 past the third
          cnt,       \* cnt
          pc,        \* "loop", "carry", "ask" or "done"
          found      \* the version returned, -1 for NULL

vars == <<offered, digit, i, cnt, pc, found>>

Version == 100 * digit[1] + 10 * digit[2] + digit[3]

Init ==
    /\ offered \in Offerings
    /\ digit = [k \in 1..3 |-> 0]
    /\ i = 3 /\ cnt = 0
    /\ pc = "loop"
    /\ found = -1

\* while (cnt <= 100)
LoopOnceMore ==
    /\ pc = "loop"
    /\ IF cnt <= Tries THEN pc' = "carry" /\ i' = 3
                       ELSE pc' = "done" /\ i' = i
    /\ UNCHANGED <<offered, digit, cnt, found>>

\* while (cnt < 100), else return NULL
Loop ==
    /\ pc = "loop"
    /\ IF cnt < Tries THEN pc' = "carry" /\ i' = 3
                      ELSE pc' = "done" /\ i' = i
    /\ UNCHANGED <<offered, digit, cnt, found>>

\* One turn of the inner loop: a '9' becomes '0' and the loop goes on, unless
\* that was the third digit and the name has wrapped around to 000.
Carry ==
    /\ pc = "carry"
    /\ digit[i] = 9
    /\ digit' = [digit EXCEPT ![i] = 0]
    /\ i' = i - 1
    /\ pc' = IF i = 1 THEN "ask" ELSE "carry"
    /\ UNCHANGED <<offered, cnt, found>>

\* An increment past '9'.
BumpPastNine ==
    /\ pc = "carry"
    /\ digit' = [digit EXCEPT ![i] = @ + 1]
    /\ pc' = "ask"
    /\ UNCHANGED <<offered, i, cnt, found>>

\* The other turn: any other digit is incremented and the loop is left.
Bump ==
    /\ pc = "carry"
    /\ digit[i] # 9
    /\ digit' = [digit EXCEPT ![i] = @ + 1]
    /\ pc' = "ask"
    /\ UNCHANGED <<offered, i, cnt, found>>

\* A failed try that is not counted.
AskUncounted ==
    /\ pc = "ask"
    /\ IF Version \in offered THEN found' = Version /\ pc' = "done"
                              ELSE found' = found /\ pc' = "loop"
    /\ UNCHANGED <<offered, digit, i, cnt>>

\* factory(name, NULL)
Ask ==
    /\ pc = "ask"
    /\ \/ /\ Version \in offered
          /\ found' = Version
          /\ pc' = "done" /\ cnt' = cnt
       \/ /\ Version \notin offered
          /\ cnt' = cnt + 1
          /\ pc' = "loop" /\ found' = found
    /\ UNCHANGED <<offered, digit, i>>

Next == Loop \/ Carry \/ Bump \/ Ask
Spec == Init /\ [][Next]_vars
FairSpec == Spec /\ WF_vars(Next)

-----------------------------------------------------------------------------
TypeOK ==
    /\ offered \in SUBSET (0..999)
    /\ digit \in [1..3 -> 0..9]
    /\ i \in 0..3 /\ cnt \in 0..Tries
    /\ pc \in {"loop", "carry", "ask", "done"}
    /\ found \in -1..999

\* The search returns the oldest version the factory offers among 1..100, with the
\* name spelling it, and NULL when there is none; versions 0 and 101 on are not seen.
FindsOldest ==
    pc = "done" =>
       \/ /\ found \in offered \cap 1..Tries
          /\ \A v \in offered \cap 1..Tries : found <= v
          /\ Version = found
       \/ found = -1 /\ offered \cap 1..Tries = {}

\* The search comes to an end.
Terminates == <>(pc = "done")
=============================================================================
