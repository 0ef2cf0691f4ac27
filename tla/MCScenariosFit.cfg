SPECIFICATION Spec
CONSTANTS
    Cases <- MCCases
    AppSignals <- MCAppSignals
    OnDisk <- MCOnDisk
    Day = 6
    Slot = 6
    Incident = 2
    Margin = 1
    MaxNow = 8
INVARIANT FitIsRight


