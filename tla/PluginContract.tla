--------------------------- MODULE PluginContract ---------------------------
(* What the server can rely on when it drives the plugin through             *)
(* IServerPluginCallbacks: which of the server's own things, the game's code,*)
(* the cvars' maxima and the tick rate, a call may touch, in which order, and*)
(* what a call leaves behind when it returns.  How the plugin goes about it, *)
(* with objects, lists, snapshots and loops, is TickrateEnabler's business.  *)
CONSTANTS Site,   \* the stretches of code the plugin patches
          Cvar    \* the rate cvars

VARIABLES icvar,      \* whether the server offers ICvar
          mapped,     \* the module is mapped, its destructors have not run
          call,       \* the server's call: "none", "load", "unload", or the process is "dead"
          up,         \* the last Load that returned true has not been followed by an Unload
          changed,    \* the sites whose code is not the library's own
          uncapped,   \* the cvars that have no maximum
          hooked      \* the tick rate is the plugin's

server == <<icvar, mapped, call, up>>
effects == <<changed, uncapped, hooked>>
contractVars == <<server, effects>>

InPlace == changed = Site /\ uncapped = Cvar /\ hooked

Init ==
    /\ icvar \in BOOLEAN
    /\ ~mapped /\ call = "none" /\ ~up
    /\ changed = {} /\ uncapped = {} /\ ~hooked

Map ==
    /\ call = "none" /\ ~mapped
    /\ mapped' = TRUE
    /\ UNCHANGED <<icvar, call, up, effects>>

\* The module takes its hook along.  Code it has changed stays behind only where a
\* Load could not find ICvar.
Unmap ==
    /\ call = "none" /\ mapped /\ ~up
    /\ uncapped = {} /\ (icvar => changed = {})
    /\ mapped' = FALSE /\ hooked' = FALSE
    /\ UNCHANGED <<icvar, call, up, changed, uncapped>>

Begin(c) ==
    /\ call = "none" /\ mapped
    /\ call' = c
    /\ UNCHANGED <<icvar, mapped, up, effects>>

-----------------------------------------------------------------------------
\* Load.  One that is called when the plugin is up touches nothing but the hook.

AddHook ==
    /\ call = "load"
    /\ hooked' = TRUE
    /\ UNCHANGED <<server, changed, uncapped>>

Apply(s) ==
    /\ call = "load" /\ ~up /\ hooked
    /\ s \notin changed /\ uncapped = {}
    /\ changed' = changed \cup {s}
    /\ UNCHANGED <<server, uncapped, hooked>>

\* Only when no clamp is left in the code.
Lift(c) ==
    /\ call = "load" /\ ~up /\ icvar
    /\ c \notin uncapped /\ changed = Site
    /\ uncapped' = uncapped \cup {c}
    /\ UNCHANGED <<server, changed, hooked>>

LoadSucceeds ==
    /\ call = "load" /\ ~up /\ icvar
    /\ InPlace
    /\ call' = "none" /\ up' = TRUE
    /\ UNCHANGED <<icvar, mapped, effects>>

\* A Load that fails leaves what is up in place; otherwise it leaves the caps, and
\* the code untouched or, where ICvar is missing, changed at every site.
LoadFails ==
    /\ call = "load"
    /\ \/ up /\ InPlace
       \/ ~up /\ uncapped = {} /\ (changed = {} \/ (~icvar /\ changed = Site))
    /\ call' = "none"
    /\ UNCHANGED <<icvar, mapped, up, effects>>

-----------------------------------------------------------------------------
\* Unload: first the caps, then the code, then the hook.

Recap(c) ==
    /\ call = "unload"
    /\ c \in uncapped /\ changed = Site
    /\ uncapped' = uncapped \ {c}
    /\ UNCHANGED <<server, changed, hooked>>

Undo(s) ==
    /\ call = "unload"
    /\ s \in changed /\ uncapped = {}
    /\ changed' = changed \ {s}
    /\ UNCHANGED <<server, uncapped, hooked>>

UnloadReturns ==
    /\ call = "unload"
    /\ changed = {} /\ uncapped = {}
    /\ call' = "none" /\ up' = FALSE /\ hooked' = FALSE
    /\ UNCHANGED <<icvar, mapped, changed, uncapped>>

\* A page that stays read-only, a cvar or an interface that is missing.  Not once the
\* plugin is up.
Die ==
    /\ call # "none" /\ ~up
    /\ call' = "dead"
    /\ UNCHANGED <<icvar, mapped, up, effects>>

ContractNext ==
    \/ Map \/ Unmap \/ (\E c \in {"load", "unload"} : Begin(c))
    \/ AddHook \/ (\E s \in Site : Apply(s)) \/ (\E c \in Cvar : Lift(c))
    \/ LoadSucceeds \/ LoadFails
    \/ (\E c \in Cvar : Recap(c)) \/ (\E s \in Site : Undo(s)) \/ UnloadReturns
    \/ Die

ContractSpec == Init /\ [][ContractNext]_contractVars

-----------------------------------------------------------------------------
\* What follows from the contract alone.  Between calls all is in place or the caps
\* are; a call of Load disturbs nothing that is in place; there is never a cvar without
\* a maximum while a clamp is in the code; a module that is gone has left no hook.
Settled ==
    /\ uncapped # {} => changed = Site /\ icvar
    /\ up /\ call \in {"none", "load"} => InPlace
    /\ ~up /\ call = "none" =>
          uncapped = {} /\ (changed = {} \/ (~icvar /\ changed = Site))
    /\ ~mapped => call = "none" /\ ~up /\ ~hooked
=============================================================================
