CONSTANTS
    Jobs = {j1}
    MaxCancels = 2
    MaxRestarts = 1

SPECIFICATION JobSpec

PROPERTY TerminalIsFinal

CHECK_DEADLOCK FALSE
