CONSTANTS MaxAddrs = 4 IntMod = 4 MaxSize = 5
SPECIFICATION ProgramSpec
INVARIANTS OutcomeIsClean StopsForFailure
CHECK_DEADLOCK FALSE
