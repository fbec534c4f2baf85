------------------------------ MODULE ShardPins ------------------------------
(***************************************************************************)
(* The pin of the Zoekt shards of one checkout: the links in the hot       *)
(* directory that make the web server load them. A search pins, an idle    *)
(* timer unloads, an index build refreshes, a purge deletes. All of them   *)
(* run one at a time in a queue per checkout, but timers fire and the      *)
(* shards of builds appear at any time: phases share the operation lock,   *)
(* so builds may overlap.                                                  *)
(*                                                                         *)
(* The shards of a checkout are one version number, 0 when there are none; *)
(* the links carry the version that the web server loaded through them.    *)
(* A build that fails writes no shards; links and files can always be made *)
(* and removed.                                                            *)
(***************************************************************************)
EXTENDS Naturals, Sequences

CONSTANTS
  MaxCalls,  \* bound: searches and purges
  MaxBuild   \* bound: versions of the shards

ASSUME PinAssumption == MaxCalls \in Nat /\ MaxBuild \in Nat

VARIABLES
  cold,      \* the shards on disk
  hot,       \* the shards the web server serves
  pin,       \* the pins entry: generation and the timer it armed, 0 is none
  armed,     \* the timers that will fire, each with the pin that armed it
  line,      \* repoQueues: the operation that runs, then those that wait
  linked,    \* the operation that runs has made its links
  built,     \* builds that wrote their shards and have yet to refresh
  timers,    \* timers made so far, bounds nothing: a name for each
  calls,     \* searches and purges so far
  restarted  \* history: a purge ran while an unload waited

pinVars == <<cold, hot, pin, armed, line, linked, built, timers, calls,
             restarted>>

NoPin == [generation |-> 0, timer |-> 0]

Operation(kind, p) == [kind |-> kind, by |-> p]

PinInit ==
  /\ cold = 0 /\ hot = 0
  /\ pin = NoPin /\ armed = {}
  /\ line = << >> /\ linked = FALSE
  /\ built = 0
  /\ timers = 0 /\ calls = 0
  /\ restarted = FALSE

Waits(kind) == \E i \in DOMAIN line : line[i].kind = kind

Runs(kind) == line # << >> /\ Head(line).kind = kind

-----------------------------------------------------------------------------
(* Callers *)

Search ==
  /\ calls < MaxCalls
  /\ calls' = calls + 1
  /\ line' = Append(line, Operation("pin", NoPin))
  /\ UNCHANGED <<cold, hot, pin, armed, linked, built, timers, restarted>>

\* Builds and purges hold the operation lock of the repository in turn.
Build ==
  /\ cold < MaxBuild
  /\ ~Waits("purge")
  /\ cold' = cold + 1
  /\ built' = built + 1
  /\ UNCHANGED <<hot, pin, armed, line, linked, timers, calls, restarted>>

RefreshPinnedRepo ==
  /\ built > 0
  /\ built' = built - 1
  /\ line' = Append(line, Operation("refresh", NoPin))
  /\ UNCHANGED <<cold, hot, pin, armed, linked, timers, calls, restarted>>

Purge ==
  /\ calls < MaxCalls
  /\ built = 0 /\ ~Waits("refresh") /\ ~Waits("purge")
  /\ calls' = calls + 1
  /\ line' = Append(line, Operation("purge", NoPin))
  /\ UNCHANGED <<cold, hot, pin, armed, linked, built, timers, restarted>>

\* An idle timer fires and its callback joins the line, with the pin that
\* armed it.
Fire ==
  /\ \E p \in armed :
       /\ armed' = armed \ {p}
       /\ line' = Append(line, Operation("unload", p))
  /\ UNCHANGED <<cold, hot, pin, linked, built, timers, calls, restarted>>

-----------------------------------------------------------------------------
(* The operation at the head of the line *)

\* Mutant: a refresh keeps the links it finds.
Link_Keep ==
  /\ ~linked
  /\ \/ Runs("pin")
     \/ Runs("refresh") /\ pin # NoPin
  /\ hot' = IF hot = 0 THEN cold ELSE hot
  /\ linked' = TRUE
  /\ UNCHANGED <<cold, pin, armed, line, built, timers, calls, restarted>>

\* A pin keeps the links it finds; a refresh makes all of them anew.
Link ==
  /\ ~linked
  /\ \/ Runs("pin") /\ hot' = IF hot = 0 THEN cold ELSE hot
     \/ Runs("refresh") /\ pin # NoPin /\ hot' = cold
  /\ linked' = TRUE
  /\ UNCHANGED <<cold, pin, armed, line, built, timers, calls, restarted>>

\* Mutant: a later pin does not arm the timer again.
Arm_Once ==
  /\ linked
  /\ timers' = timers + 1
  /\ pin' = [generation |-> pin.generation + 1, timer |-> timers + 1]
  /\ armed' = IF pin = NoPin THEN armed \cup {pin'} ELSE armed
  /\ linked' = FALSE
  /\ line' = Tail(line)
  /\ UNCHANGED <<cold, hot, built, calls, restarted>>

\* armIdleTimer: the timer of the pin before is cleared, a new one is armed.
Arm ==
  /\ linked
  /\ timers' = timers + 1
  /\ pin' = [generation |-> pin.generation + 1, timer |-> timers + 1]
  /\ armed' = (armed \ {pin}) \cup {pin'}
  /\ linked' = FALSE
  /\ line' = Tail(line)
  /\ UNCHANGED <<cold, hot, built, calls, restarted>>

SkipRefresh ==
  /\ Runs("refresh") /\ pin = NoPin
  /\ line' = Tail(line)
  /\ UNCHANGED <<cold, hot, pin, armed, linked, built, timers, calls, restarted>>

\* Mutant: the callback does not look at the generation.
Unloads_Any(p) == pin # NoPin

\* Only the callback of the present generation unloads.
Unloads(p) == pin # NoPin /\ pin.generation = p.generation

Unload ==
  /\ Runs("unload")
  /\ LET goes == Unloads(Head(line).by)
     IN /\ pin' = IF goes THEN NoPin ELSE pin
        /\ hot' = IF goes THEN 0 ELSE hot
  /\ line' = Tail(line)
  /\ UNCHANGED <<cold, armed, linked, built, timers, calls, restarted>>

\* purgeZoektShardsForRepo
PurgeShards ==
  /\ Runs("purge")
  /\ pin' = NoPin /\ armed' = armed \ {pin}
  /\ hot' = 0 /\ cold' = 0
  /\ line' = Tail(line)
  /\ restarted' = (restarted \/ Waits("unload"))
  /\ UNCHANGED <<linked, built, timers, calls>>

-----------------------------------------------------------------------------

PinWork ==
  \/ RefreshPinnedRepo \/ Fire
  \/ Link \/ Arm \/ SkipRefresh \/ Unload \/ PurgeShards

PinNext == Search \/ Build \/ Purge \/ PinWork

PinSpec == PinInit /\ [][PinNext]_pinVars

\* Timers fire and the queue of the event loop is worked off.
PinFairness == WF_pinVars(PinWork)

-----------------------------------------------------------------------------
(* Properties *)

PinTypeOK ==
  /\ cold \in Nat /\ hot \in Nat
  /\ pin \in [generation : Nat, timer : Nat]
  /\ armed \subseteq [generation : Nat, timer : Nat]
  /\ line \in Seq([kind : {"pin", "refresh", "unload", "purge"},
                   by : [generation : Nat, timer : Nat]])
  /\ linked \in BOOLEAN
  /\ built \in Nat
  /\ timers \in Nat /\ calls \in Nat
  /\ restarted \in BOOLEAN

\* At rest a pinned checkout is served from its newest shards, and one that
\* is not pinned is not loaded: whatever builds, searches and timers did to
\* each other.
ServedIsFresh ==
  line = << >> /\ built = 0 => hot = IF pin = NoPin THEN 0 ELSE cold

\* The unload of an idle timer never removes the pin of a later search or
\* refresh. (A purge counts generations from one again: excluded.)
StaleUnloadSparesPin ==
  [][ Runs("unload") /\ pin # NoPin /\ pin' = NoPin /\ ~restarted
      => pin.timer = Head(line).by.timer ]_pinVars

\* What is pinned is unloaded some time after the last search of it.
IdleIsUnloaded == []<>(hot = 0)
=============================================================================
