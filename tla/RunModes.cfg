CONSTANTS
    BootModes = {"DRY_RUN", "RESUME", "LIVE"}
    Requests = {q1, q2}
SPECIFICATION FairModesSpec
INVARIANT TicksNeverOverlap
INVARIANT NeverLiveUnasked
INVARIANT ChoiceIsStored
PROPERTY PauseSurvivesRestart
PROPERTY PauseTakesEffect
