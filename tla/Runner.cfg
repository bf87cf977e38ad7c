SPECIFICATION FairRunnerSpec
CONSTANTS
    Events = {"page", "cli", "shutdown", "kill", "fails", "full"}
    MaxDays = 2
    MaxJobs = 4
INVARIANTS CutOffIsOwed NoRestartStorm OneRunAtATime
PROPERTIES OwedIsAttempted StopReturns
