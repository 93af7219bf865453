\* Three appends of any width, type and value, then read back.
CONSTANTS
    ParamTypes <- MCParamTypes
    Values <- MCValues
    MaxAppends = 3
SPECIFICATION Spec
INVARIANTS TypeOK RoundTrip ResultCodeRoundTrip
\* The caller stops after its appends.
CHECK_DEADLOCK FALSE
