\* The user frees the query while AT+CPIN? is queued on a chat that stays open.
CONSTANTS
    NumTimes <- MCNumTimes
    CmeCodes <- MCCmeCodes
SPECIFICATION Spec
INVARIANT NoFreedAccess
\* A query that has reported, or was freed, leaves nothing to do.
CHECK_DEADLOCK FALSE
