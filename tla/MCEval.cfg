SPECIFICATION PartsSpec
CONSTANTS
  Sessions <- TheSessionsOnce
  Files <- TheFilesOnce
  MaxCallDepth = 8
  FlakeFiles <- TheFlakeFilesOnce
  LockFiles <- TheLockFilesOnce
  HexRevs = {"rev1"}
  None = none
  Unread = unread
  Bad = bad
  Missing = missing
  Cyclic = cyclic
  FileNames = {"a", "b", "d", ".", ".."}
  Trees <- TheTreesOnce
  Paths <- ThePathsOnce
  MaxSymlinks = 3
  SourceFiles = {"f", "g"}
  FirstFiles = {"f"}
  Blobs = {"x", "y"}
  Requests <- TheRequestsOnce
  Served <- WhatIsServed
  MaxCommits = 2
  MaxChanges = 3
  NotThere = notthere
  Failed = failed
  Programs <- TheProgramsOnce
  Globals = {"__sub", "__lessThan"}
  Fuel = 18
INVARIANTS MachineInv  TreePathInv  
CHECK_DEADLOCK FALSE
