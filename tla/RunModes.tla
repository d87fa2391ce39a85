------------------------------- MODULE RunModes -------------------------------
(***************************************************************************)
(* The run mode of the NiceHash daemon: the copy in memory every tick      *)
(* reads, the copy in the saved settings, the two HTTP handlers that write *)
(* both, the boot that reconciles them, and the ticks the loop and the     *)
(* dashboard start.  Handlers interleave wherever they await the database. *)
(***************************************************************************)
EXTENDS Integers, FiniteSets

CONSTANTS
    BootModes,      \* the boot modes the operator uses
    Requests        \* bound: HTTP requests in flight

ASSUME RunModesAssumption ==
    BootModes # {} /\ BootModes \subseteq {"DRY_RUN", "RESUME", "LIVE"}

VARIABLES
    stored,     \* nicehash_settings: [runMode, bootMode]
    mode,       \* NiceHashStateStore.runMode
    requests,   \* the handlers of POST run-mode and POST config in flight
    ticking,    \* the guard of doTick
    inside,     \* who is inside controller.tick(), and the mode it read
    \* Bookkeeping of the model.
    wanted,     \* what the operator last asked for, or else what the boot chose
    chose,      \* the operator asked for a mode since the boot
    crossed     \* that choice met another request in flight, or could not be saved

modesVars == <<stored, mode, requests, ticking, inside, wanted, chose, crossed>>

ticks == <<ticking, inside>>
asking == <<wanted, chose, crossed>>

Modes == {"DRY_RUN", "LIVE", "PAUSED"}
Settings == [runMode : Modes, bootMode : BootModes]
TickCallers == {"loop", "button"}

NoRequest == [at |-> "idle"]

\* A request reads the settings, writes them back changed, and ends; POST config then applies
\* the run mode it wrote.
ModeRequest == [at : {"getMode"}, asked : Modes] \cup [at : {"putMode"}, write : Settings]
ConfigRequest ==
    [at : {"getConfig"}, boot : BootModes] \cup [at : {"putConfig", "apply"}, write : Settings]

ModesTypeOK ==
    /\ stored \in Settings /\ mode \in Modes
    /\ requests \in [Requests -> {NoRequest} \cup ModeRequest \cup ConfigRequest]
    /\ ticking \in BOOLEAN /\ inside \in SUBSET [caller : TickCallers, mode : Modes]
    /\ wanted \in Modes /\ chose \in BOOLEAN /\ crossed \in BOOLEAN

\* A choice of the operator is still on its way into the settings.
Choosing == \E q \in Requests : requests[q].at \in {"getMode", "putMode"}

\* Mutant: RESUME trusts nothing but LIVE and PAUSED.
resolveBootRunMode_Live(s) ==
    IF s.bootMode = "RESUME" THEN (IF s.runMode = "DRY_RUN" THEN "DRY_RUN" ELSE "LIVE")
    ELSE s.bootMode

\* RESUME resumes, but never into a pause.
resolveBootRunMode(s) ==
    IF s.bootMode # "RESUME" THEN s.bootMode
    ELSE IF s.runMode = "PAUSED" THEN "DRY_RUN" ELSE s.runMode

Boot(s) ==
    /\ mode' = resolveBootRunMode(s) /\ wanted' = resolveBootRunMode(s)
    /\ chose' = FALSE /\ crossed' = FALSE
    /\ requests' = [q \in Requests |-> NoRequest]
    /\ ticking' = FALSE /\ inside' = {}

ModesInit ==
    /\ stored \in Settings
    /\ mode = resolveBootRunMode(stored) /\ wanted = mode
    /\ chose = FALSE /\ crossed = FALSE
    /\ requests = [q \in Requests |-> NoRequest]
    /\ ticking = FALSE /\ inside = {}

\* The process ends at any point and boots from what was saved.
Reboot == Boot(stored) /\ UNCHANGED stored

-----------------------------------------------------------------------------
(* POST run-mode: memory first, then the settings are read and written.  Nothing keeps one *)
(* request from another: each await lets every other in between.                           *)

AskMode(q, m) ==
    /\ requests[q] = NoRequest
    /\ mode' = m /\ wanted' = m /\ chose' = TRUE
    /\ crossed' = (\E p \in Requests \ {q} : requests[p] # NoRequest)
    /\ requests' = [requests EXCEPT ![q] = [at |-> "getMode", asked |-> m]]
    /\ UNCHANGED <<stored, ticks>>

ReadForMode(q) ==
    /\ requests[q].at = "getMode"
    /\ requests' = [requests EXCEPT ![q] =
           [at |-> "putMode", write |-> [stored EXCEPT !.runMode = requests[q].asked]]]
    /\ UNCHANGED <<stored, mode, ticks, asking>>

\* Mutant: the settings are written back with the run mode they had.
StoreMode_KeepsOld(q) ==
    /\ requests[q].at = "putMode"
    /\ stored' = [requests[q].write EXCEPT !.runMode = stored.runMode]
    /\ requests' = [requests EXCEPT ![q] = NoRequest]
    /\ UNCHANGED <<mode, ticks, asking>>

StoreMode(q) ==
    /\ requests[q].at = "putMode"
    /\ stored' = requests[q].write
    /\ requests' = [requests EXCEPT ![q] = NoRequest]
    /\ UNCHANGED <<mode, ticks, asking>>

-----------------------------------------------------------------------------
(* POST config, as the dashboard's form sends it: without a run mode. *)

AskConfig(q, boot) ==
    /\ requests[q] = NoRequest
    /\ requests' = [requests EXCEPT ![q] = [at |-> "getConfig", boot |-> boot]]
    /\ crossed' = (crossed \/ Choosing)
    /\ UNCHANGED <<stored, mode, ticks, wanted, chose>>

\* mergeSettings: the form's fields over the saved ones.
ReadForConfig(q) ==
    /\ requests[q].at = "getConfig"
    /\ requests' = [requests EXCEPT ![q] =
           [at |-> "putConfig", write |-> [stored EXCEPT !.bootMode = requests[q].boot]]]
    /\ UNCHANGED <<stored, mode, ticks, asking>>

StoreConfig(q) ==
    /\ requests[q].at = "putConfig"
    /\ stored' = requests[q].write
    /\ requests' = [requests EXCEPT ![q] = [at |-> "apply", write |-> requests[q].write]]
    /\ UNCHANGED <<mode, ticks, asking>>

\* The run mode of the merged settings is applied at once.
ApplyConfig(q) ==
    /\ requests[q].at = "apply"
    /\ mode' = requests[q].write.runMode
    /\ requests' = [requests EXCEPT ![q] = NoRequest]
    /\ UNCHANGED <<stored, ticks, asking>>

\* The database throws under a read or a write: the request ends there.
RequestFails(q) ==
    /\ requests[q].at \in {"getMode", "putMode", "getConfig", "putConfig"}
    /\ requests' = [requests EXCEPT ![q] = NoRequest]
    /\ crossed' = (crossed \/ requests[q].at \in {"getMode", "putMode"})
    /\ UNCHANGED <<stored, mode, ticks, wanted, chose>>

-----------------------------------------------------------------------------
(* doTick, for the loop and for "Run decision now". *)

\* Mutant: the guard is not looked at.
BeginTick_Unguarded(c) ==
    /\ \A r \in inside : r.caller # c
    /\ ticking' = TRUE
    /\ inside' = inside \cup {[caller |-> c, mode |-> mode]}
    /\ UNCHANGED <<stored, mode, requests, asking>>

BeginTick(c) ==
    /\ ~ticking
    /\ ticking' = TRUE
    /\ inside' = inside \cup {[caller |-> c, mode |-> mode]}
    /\ UNCHANGED <<stored, mode, requests, asking>>

\* The guard is released whether the tick returns or throws.
TickReturns(r) ==
    /\ inside' = inside \ {r} /\ ticking' = FALSE
    /\ UNCHANGED <<stored, mode, requests, asking>>

TickThrows(r) ==
    /\ inside' = inside \ {r} /\ ticking' = FALSE
    /\ UNCHANGED <<stored, mode, requests, asking>>

-----------------------------------------------------------------------------

HandlerStep(q) ==
    ReadForMode(q) \/ StoreMode(q) \/ ReadForConfig(q) \/ StoreConfig(q) \/ ApplyConfig(q)

FinishTick == \E r \in inside : TickReturns(r) \/ TickThrows(r)

ModesNext ==
    \/ \E q \in Requests :
          \/ \E m \in Modes : AskMode(q, m)
          \/ \E b \in BootModes : AskConfig(q, b)
          \/ HandlerStep(q) \/ RequestFails(q)
    \/ \E c \in TickCallers : BeginTick(c)
    \/ FinishTick
    \/ Reboot

ModesSpec == ModesInit /\ [][ModesNext]_modesVars

\* Handlers and ticks finish (every request has a time limit), and the loop ticks.
FairModesSpec ==
    /\ ModesSpec
    /\ \A q \in Requests : WF_modesVars(HandlerStep(q))
    /\ WF_modesVars(FinishTick) /\ WF_modesVars(BeginTick("loop"))

-----------------------------------------------------------------------------
(* Properties. *)

\* Two decision ticks never run at once (main-nicehash.ts: the loop and the button
\* "can never run concurrently").
TicksNeverOverlap == Cardinality(inside) <= 1

\* The daemon trades only when the operator, or the boot the operator configured, last chose
\* LIVE (nicehash-server.ts: "run mode is applied immediately").  Two states are excepted: the
\* choice crossed another request or could not be saved; and nothing was chosen since a boot
\* that did not take up the stored LIVE, as DRY_RUN does not, for saving any setting then does.
NeverLiveUnasked ==
    mode = "LIVE" => wanted = "LIVE" \/ crossed \/ (~chose /\ stored.runMode = "LIVE")

\* nicehash-server.ts: "Persist so the run mode survives a restart (best-effort)".  A choice
\* that was answered, and that no other request crossed, is what the settings say and what the
\* memory holds, whatever is saved after it and however such saves overlap.
ChoiceIsStored ==
    chose /\ ~crossed /\ ~Choosing => stored.runMode = wanted /\ mode = wanted

\* A daemon paused by the operator, by a request that was answered and crossed no other, does
\* not come back trading unless it is set to boot LIVE (settings.ts: "a paused order should
\* not silently resume trading").
PauseSurvivesRestart ==
    [][Reboot /\ chose /\ ~crossed /\ ~Choosing /\ wanted = "PAUSED"
           /\ stored.bootMode # "LIVE"
        => mode' # "LIVE"]_modesVars

\* An operator who pauses for good stops the trading, if no other request was in flight then:
\* after the tick in flight no tick is ever LIVE again, whatever settings are saved later.
PauseTakesEffect ==
    <>[](chose /\ ~crossed /\ wanted = "PAUSED") => <>[](\A r \in inside : r.mode # "LIVE")

=============================================================================
