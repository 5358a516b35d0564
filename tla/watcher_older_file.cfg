SPECIFICATION FairWatchSpec
CONSTANTS
    Contents = {1, 2}
    First = 1
    MaxSaves = 2
PROPERTY
    TimeChangeReloads
