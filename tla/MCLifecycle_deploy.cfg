\* A new build is started beside the old one: signals, kills and restarts.
SPECIFICATION FairSpec
CONSTANTS
  old = old  new = new  NoProc = NoProc  c = c  r1 = r1
  sweep = sweep
  Procs = {old, new}
  Files <- TheFiles
  Clients = {c}
  Keys <- TheKeys
  MaxHits = 1
  Window = 1
  MaxTime = 1
  Requests = {r1}
  Breaks = {r1}
  From <- TheFrom
  Jobs = {sweep}
  Disabled <- TheDisabled
  Grace = 1
  MaxStarts = 2
INVARIANTS TypeOK AppliedInOrder SchemaIsComplete WindowHolds RedirectedIsStored TwiceOnlyIfCut
PROPERTIES RefusedOnlyAtLimit JobsKeepRunning SignalEnds StartEnds
CHECK_DEADLOCK FALSE
