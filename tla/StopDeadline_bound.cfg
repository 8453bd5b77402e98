\* One stop_container call; stop_timeout : command_timeout kept at the
\* default 10s : 30s, scaled to ticks of the 100ms poll sleep.
CONSTANTS
    StopTimeout = 3
    CmdTimeout = 9
    PollInterval = 1
    Epsilon = 1
SPECIFICATION Spec
INVARIANT StopWithinCodeBound
\* A single call ends in "ok" or "err"; after it returns nothing is left to do.
CHECK_DEADLOCK FALSE
