\* The matching alone: an app that was imported, and what details do to its link.
CONSTANTS
  Parts = {"matching"}
  Queries = {"q1", "q2"}
  Searches = {"s1", "s2"}
  Workers = {"w1", "w2"}
  Slots = 1
  Callers = {"b1", "b2", "i1", "i2"}
  Background = {"b1", "b2"}
  Requests = {"r1", "r2", "r3"}
  Max429Retries = 1
  MaxTokens = 4
  MaxLosses = 2
  Games = {1, 2, 3}
  PageSize = 1
  MaxPages = 3
  MaxSecond = 3
  MaxChanges = 3
  BackfillBatch = 2
  Numeric = {2}
  MaxRuns = 2
  FewGames = {1, 2}
  Views = {"v"}
  DetailsBatch = 1
  Scores = {1}
  MaxRankings = 1
  Apps = {11}
  Shown = 8
  MaxTable = 1
  MaxMatches = 2
  ShelfGames = {1}
  Readers = {"r", "s"}
  TTL = 2
  Slow = 1
  MaxClock = 4
  Interval = 2
  Jitter = 1
  FirstRun = 1
  MaxJobClock = 6
  MaxJobStarts = 3
  Keys = {"k"}
  Endpoints = {"e"}
  MaxFailures = 2
  PushRows = 1
  MailRows = 2
  MaxNotes = 2
  MaxStops = 1
  Profiles = {"a", "b"}
  Tabs = {"d", "e"}
  MaxMinutes = 2
  MaxRow = 3
  MaxTimers = 3
  Latest = 3
  Failing = {3}
  Keep = 2
  MaxServes = 4
SPECIFICATION BackgroundSpec
CHECK_DEADLOCK FALSE
INVARIANT SyncLogsImported
