CONSTANTS
  demoXml = demoXml
  demo = demo
  v1 = v1
  v2 = v2
  s1 = s1
  s2 = s2
  w1 = w1
  w2 = w2
  p1 = p1
  p2 = p2
  r1 = r1
  toUse = toUse
  toRead = toRead
  today = today
  tomorrow = tomorrow
  Files = {demoXml}
  Bases = {demo}
  BaseOf <- MCBaseOf
  Cuts <- MCCuts
  Dotless = {}
  Api = {}
  MetaFiles <- MCContract
  Stamps = {s1}
  Versions = {v1}
  Absent = Absent
  Directory = Directory
  Oversize = Oversize
  Broken = Broken
  NonObject = NonObject
  None = None
  MaxEvents = 2
  MaxEdits = 0
  AtomicReplace = FALSE
  BrokerIgnore = TRUE
  Readers = {}
  Workers = {w1, w2}
  Parties = {p1, p2}
  MaxRequests = 2
  Lines <- MCLines
  Idsc = {toUse, toRead}
  Values = {today, tomorrow}
  Dates = {today, tomorrow}
  Durations = {}
  LinesOf <- MCLinesOf
  DiskFails = FALSE
  Missing = Missing
  Torn = Torn
SPECIFICATION ConnectorSpec
PROPERTY ConfirmedAgreementIsHeld
CHECK_DEADLOCK FALSE
