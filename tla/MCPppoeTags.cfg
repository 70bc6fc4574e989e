CONSTANTS
    Frames <- MCFrames
    SessCap <- MCSessCap
    AgentCap <- MCAgentCap
    SizeMod <- MCSizeMod
    Uninit <- MCUninit
    Listener <- MCListener

SPECIFICATION Spec

\* PppoeListenEvent decodes one frame and returns.
CHECK_DEADLOCK FALSE

INVARIANT TypeOK
INVARIANT TagWalkWithinLength
INVARIANT ServiceNameAgrees
INVARIANT AgentIdsTerminated
