------------------------------- MODULE TickLoop -------------------------------
(***************************************************************************)
(* The tick driver of the Braiins daemon (controller/loop.ts), the         *)
(* shutdown that stops it (main.ts) and the Telegram receiver that the     *)
(* shutdown waits for first (services/telegram-receiver.ts).  A promise    *)
(* settles in one step and those who await it go on in another, so what    *)
(* the interval, a signal and the dashboard do comes in between.           *)
(***************************************************************************)
EXTENDS Naturals

CONSTANTS
    Fence,       \* seconds forceExitAfter() leaves to a shutdown
    Nap,         \* seconds the receiver sleeps while it has no credentials
    Backoff,     \* seconds it sleeps after its first failed poll
    MaxBackoff,  \* and at most
    Configured   \* whether it has credentials

VARIABLES
    \* TickLoop.
    timer,       \* the interval is set
    stopping,    \* stop() has been called
    inFlight,    \* the promise of the tick: "null", "pending", "settled"
    running,     \* ticks the loop has started and that have not ended
    \* TelegramReceiver.
    receiver,    \* "top" of its loop, in a "poll", in a "sleep", "ended"
    rest,        \* seconds left of the sleep
    backoff,     \* seconds of the next one
    \* main.ts.
    phase,       \* "boot", "up", then what the shutdown awaits: "receiver", "loop",
                 \* "http", "database"; "exited"
    fence,       \* seconds until the process is ended by force
    asked,       \* ticks the dashboard asked for and that have not ended
    httpFailed,  \* the HTTP server could not be stopped
    code         \* the exit code: 0, or 124 when forced

loop == <<timer, stopping, inFlight, running>>
telegram == <<receiver, rest, backoff>>
ending == <<phase, fence, code>>
http == <<asked, httpFailed>>
loopVars == <<loop, telegram, ending, http>>

LoopInit ==
    /\ timer = FALSE /\ stopping = FALSE /\ inFlight = "null" /\ running = 0
    /\ receiver = "top" /\ rest = 0 /\ backoff = Backoff
    /\ phase = "boot" /\ fence = 0 /\ code = 0
    /\ asked = 0 /\ httpFailed = FALSE

Alive == phase # "exited"

-----------------------------------------------------------------------------
(* TickLoop. *)

\* runOnce() up to its await.
RunOnce ==
    IF stopping \/ inFlight # "null" THEN UNCHANGED <<inFlight, running>>
    ELSE inFlight' = "pending" /\ running' = running + 1

\* start(): the first tick begins at once.
Start ==
    /\ phase = "boot" /\ ~timer
    /\ phase' = "up" /\ timer' = TRUE
    /\ RunOnce
    /\ UNCHANGED <<stopping, telegram, fence, code, http>>

Interval ==
    /\ Alive /\ timer
    /\ RunOnce
    /\ UNCHANGED <<timer, stopping, telegram, ending, http>>

\* The controller's tick returns or throws; onError() takes what it throws.
TickEnds ==
    /\ Alive /\ inFlight = "pending"
    /\ inFlight' = "settled" /\ running' = running - 1
    /\ UNCHANGED <<timer, stopping, telegram, ending, http>>

\* The finally of runOnce().
Release ==
    /\ Alive /\ inFlight = "settled"
    /\ inFlight' = "null"
    /\ UNCHANGED <<timer, stopping, running, telegram, ending, http>>

-----------------------------------------------------------------------------
(* TelegramReceiver.loop(). *)

StopRequested == phase \notin {"boot", "up"}
Sleep(seconds) == receiver' = "sleep" /\ rest' = seconds

Receive ==
    /\ Alive /\ receiver = "top"
    /\ \/ StopRequested /\ receiver' = "ended" /\ UNCHANGED rest
       \/ ~StopRequested /\ ~Configured /\ Sleep(Nap)
       \/ ~StopRequested /\ Configured /\ receiver' = "poll" /\ UNCHANGED rest
    /\ UNCHANGED <<backoff, loop, ending, http>>

PollAnswered ==
    /\ Alive /\ receiver = "poll" /\ ~StopRequested
    /\ receiver' = "top" /\ backoff' = Backoff
    /\ UNCHANGED <<rest, loop, ending, http>>

\* An aborted poll is a failed one too.
PollFails ==
    /\ Alive /\ receiver = "poll"
    /\ Sleep(backoff)
    /\ backoff' = (IF backoff * 2 < MaxBackoff THEN backoff * 2 ELSE MaxBackoff)
    /\ UNCHANGED <<loop, ending, http>>

Rested == receiver = "sleep" /\ rest = 0

Wake ==
    /\ Alive /\ Rested
    /\ receiver' = "top"
    /\ UNCHANGED <<rest, backoff, loop, ending, http>>

-----------------------------------------------------------------------------
(* The shutdown. *)

\* The first signal; the handler passes over a second one.  It waits for the receiver,
\* and the loop runs on.
Signal ==
    /\ phase = "up"
    /\ phase' = "receiver" /\ fence' = Fence
    /\ UNCHANGED <<code, loop, telegram, http>>

\* The receiver has ended: TickLoop.stop(), which waits for the tick in flight.
StopLoop ==
    /\ phase = "receiver" /\ receiver = "ended"
    /\ phase' = "loop" /\ stopping' = TRUE /\ timer' = FALSE
    /\ UNCHANGED <<inFlight, running, telegram, fence, code, http>>

LoopStopped ==
    /\ phase = "loop" /\ inFlight # "pending"
    /\ phase' = "http"
    /\ UNCHANGED <<fence, code, loop, telegram, http>>

\* The HTTP server ends when its requests have, or fails to and is left alone.
HttpStopped ==
    /\ phase = "http"
    /\ \/ asked = 0 /\ UNCHANGED httpFailed
       \/ httpFailed' = TRUE
    /\ phase' = "database"
    /\ UNCHANGED <<fence, code, loop, telegram, asked>>

\* The process ends, and with it everything that runs.
Exits(with) ==
    /\ phase' = "exited" /\ code' = with
    /\ timer' = FALSE /\ inFlight' = "null" /\ running' = 0
    /\ receiver' = "ended" /\ asked' = 0
    /\ UNCHANGED <<stopping, rest, backoff, fence, httpFailed>>

\* The database is closed: exit(0).
Exit == phase = "database" /\ Exits(0)

\* forceExitAfter().
ForcedExit == Alive /\ StopRequested /\ fence = 0 /\ Exits(124)

\* "Tick now" on the dashboard.
Ask ==
    /\ phase \in {"boot", "up", "receiver", "loop"}
    /\ asked' = asked + 1
    /\ UNCHANGED <<httpFailed, loop, telegram, ending>>

AskedEnds ==
    /\ Alive /\ asked > 0
    /\ asked' = asked - 1
    /\ UNCHANGED <<httpFailed, loop, telegram, ending>>

Less(n) == IF n > 0 THEN n - 1 ELSE 0

\* A second passes.
Second ==
    /\ Alive
    /\ rest' = Less(rest) /\ fence' = Less(fence)
    /\ UNCHANGED <<receiver, backoff, loop, phase, code, http>>

-----------------------------------------------------------------------------

LoopNext ==
    \/ Start \/ Interval \/ TickEnds \/ Release
    \/ Receive \/ PollAnswered \/ PollFails \/ Wake
    \/ Signal \/ StopLoop \/ LoopStopped \/ HttpStopped \/ Exit \/ ForcedExit
    \/ Ask \/ AskedEnds \/ Second

LoopSpec == LoopInit /\ [][LoopNext]_loopVars

\* Nothing hangs: Telegram answers, ticks and requests end within the second they began
\* in, the server stops when told, and no one asks for ticks.  Only sleeps take time.
Prompt ==
    /\ Second => /\ inFlight = "null" /\ receiver # "top" /\ ~Rested
                 /\ StopRequested => phase = "receiver" /\ receiver = "sleep"
    /\ PollFails => StopRequested
    /\ ~Ask /\ ~httpFailed'
    /\ ForcedExit => ~Rested

PromptSpec == LoopInit /\ [][LoopNext /\ Prompt]_loopVars

-----------------------------------------------------------------------------
(* Properties. *)

\* loop.ts: "Avoids overlapping ticks".
NoOverlap == running <= 1

\* loop.ts: "stop() flushes any in-flight tick before resolving": once it has, none of the
\* loop's ticks runs and none begins, so that the database is not closed under one; and none
\* of the dashboard's when the HTTP server did stop.
FlushedBeforeClose ==
    /\ phase \in {"http", "database", "exited"} => running = 0
    /\ phase = "database" => asked = 0 \/ httpFailed

\* loop.ts: "so shutdowns are clean": one in which nothing hangs is not ended by force.
CleanExit == code # 124
=============================================================================
