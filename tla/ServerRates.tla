---------------------------- MODULE ServerRates -----------------------------
(* What the server gets from the plugin: its tick rate, from the hooked      *)
(* GetTickInterval (tickrate_enabler.cpp), and the values of the rate cvars, *)
(* whose maxima Load and Unload change (convar_sm_l4d.h).  Between its calls *)
(* of the plugin the server reads the one and sets the other; nothing the    *)
(* plugin does takes a value back.                                           *)
EXTENDS TickrateEnabler

CONSTANT Tickrates   \* what ParmValue may answer for -tickrate: 0 for no number

ASSUME TickrateAssumption == Tickrates \subseteq Int

VARIABLES asked,   \* the -tickrate of the command line, {} for none
          tick,    \* the tick rate the server runs at
          raised   \* the rate cvars whose value is above 30000

ratesVars == <<vars, asked, tick, raised>>

\* 1.0 / 30.0, the game's own interval and that of GetTickInterval.
DefaultRate == 30

RatesInit ==
    /\ Init
    /\ asked \in {{}} \cup {{r} : r \in Tickrates}
    /\ tick = DefaultRate
    /\ raised = {}

\* GetTickInterval, as ticks per second.
GetTickInterval == IF \E r \in asked : r > 10 THEN CHOOSE r \in asked : r > 10 ELSE DefaultRate

\* The server asks for the interval: the hook supersedes the game's answer.
ReadTick ==
    /\ BetweenCalls
    /\ tick' = IF hooks > 0 THEN GetTickInterval ELSE DefaultRate
    /\ UNCHANGED <<vars, asked, raised>>

\* A cvar is set to a value above 30000: it is clamped if it has a maximum.
SetAbove(c) ==
    /\ BetweenCalls
    /\ raised' = IF c \in capped THEN raised \ {c} ELSE raised \cup {c}
    /\ UNCHANGED <<vars, asked, tick>>

SetWithin(c) ==
    /\ BetweenCalls
    /\ raised' = raised \ {c}
    /\ UNCHANGED <<vars, asked, tick>>

PluginOnly == Next /\ UNCHANGED <<asked, tick, raised>>
ServerStep == ReadTick \/ \E c \in Range(Cvars) \ host.missing : SetAbove(c) \/ SetWithin(c)
RatesNext == PluginOnly \/ ServerStep

\* The calls are plain sequential code on the server's main thread: a call that
\* has begun keeps running.  The server need not make another, nor do anything else.
RatesSpec == RatesInit /\ [][RatesNext]_ratesVars /\ WF_ratesVars(PluginStep /\ PluginOnly)

-----------------------------------------------------------------------------
RatesTypeOK ==
    /\ TypeOK
    /\ asked \subseteq Tickrates
    /\ tick \in Nat
    /\ raised \subseteq Range(Cvars)

\* The tick rate tells the server whether the plugin is there.  If the command line asks
\* for a rate and the server, reading it between two calls, gets the game's own, then
\* nothing of the plugin is in place, not even what a failed Load has registered; the
\* hook, added first and removed last, is there as long as anything else is.
OwnRateOwnGame ==
    [][ReadTick /\ tick' # GetTickInterval =>
          /\ ~up /\ patchList = <<>> /\ capped = Range(Cvars)
          /\ host.icvar => code = pristine]_ratesVars

\* A cvar that was raised keeps its value over an Unload, which only puts the
\* maximum back.  The clamps have to be in the code again by then, and a Load that
\* fails later must leave them there.
ExcessIsClamped ==
    BetweenCalls /\ ~up /\ raised # {} => \A s \in RateSite : code[s] = pristine[s]
=============================================================================
