\* Every context, one live tick, or up to two replayed ones.
CONSTANTS
    Contexts <- MCContexts
    Watched <- MCWatched
    MaxTicks = 1
    MaxReplays = 2
    MaxFaults = 1
SPECIFICATION Spec
CHECK_DEADLOCK FALSE
INVARIANTS
    TypeOK
    PlansAreSound
    SignatureAgrees
    VetoNeverDecides
    TickCovered
PROPERTIES
    ReplayAddsUnsigned
    ManipulationNeverWaits
