CONSTANTS
  c1 = c1
  c2 = c2
  fine = fine
  faulty = faulty
  stray = stray
  guarded = guarded
  None = None
  Calls = {c1, c2}
  Trees <- MCTrees
  Pristine = fine
  Checks <- MCChecks
  Broken <- MCBroken
  Outside <- MCOutside
  Policy <- MCPolicy
  MaxRepairs = 1
  MaxFaults <- MCMaxFaults
  MaxEdits <- MCMaxEdits
SPECIFICATION FairSpec
INVARIANTS PassIsVerified ReportedIsRecorded
PROPERTIES TerminalIsFinal CallsEnd
CHECK_DEADLOCK FALSE
