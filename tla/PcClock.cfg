CONSTANTS
    TicksPerDay = 6
    Base = 2
    MaxTotal = 13
    SetTimes = {3}
SPECIFICATION ClockSpec
INVARIANT BdaFollowsPit
INVARIANT DaysReportedOnce
