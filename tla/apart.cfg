SPECIFICATION ApartSpec
\* A placement ends, and no request has to come.
CHECK_DEADLOCK FALSE
CONSTANTS
  la = la  lb = lb
  Clusters = {1, 2, 3}
  Labels = {la, lb}
  Labelled <- MCLabelled
  Intents <- MCIntents
  NoName = NoName
  NoLabel = NoLabel
  Jobs = {r1, r2}
  NRes = 2
  NoEntry = NoEntry
  MaxDeletes = 2
  MaxInstanceFaults = 2
  Objects = {o, p}
  Plain = {p}
  NoCR = NoCR
  MaxChanges = 2
  MaxStatus = 2
  MaxMonitorFaults = 1
  Slots = {m1, m2}
  Services = {s1, s2}
  s1 = s1
  Apps = {a1, a2}
  NoApp = NoApp
  NoService = NoService
  MaxStarts = 2
  MaxGuiFaults = 1
INVARIANTS ApartTypeOK PlacedAsAsked NeverNowhere NothingForgotten ReadyMeansDone HooksOnce SettledIsCurrent
PROPERTIES OnlyAsked AnswersKept
