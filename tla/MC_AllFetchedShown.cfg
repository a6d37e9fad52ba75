CONSTANTS
    MaxMsgs = 3
    MaxWindows = 2
    MaxChoosers = 2


SPECIFICATION Spec

PROPERTY AllFetchedShown
