\* The swap of a Windows server update, alone: `bin` is expected to stay live.
SPECIFICATION UpdateSpec

CONSTANTS
    MaxVersion = 2
    Platforms = {TRUE, FALSE}
    UpdateMishaps = 0

PROPERTIES
    BinStaysLive

CHECK_DEADLOCK FALSE
