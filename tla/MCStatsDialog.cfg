CONSTANTS
    MaxBytes = 3
    MaxDialogs = 3
SPECIFICATION Spec
INVARIANT ShownNeverAhead
INVARIANT StatsReadLiveUi
