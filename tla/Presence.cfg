SPECIFICATION FairSpec
CONSTANTS
    MaxConns = 2
    MaxRestarts = 1
    PromptConnect = TRUE
INVARIANTS
    LiveConnectionRegistered
PROPERTIES
    ConnectedShownOnline
    VanishedShownOffline
CHECK_DEADLOCK FALSE
