CONSTANTS
  demoApi = demoApi
  demoXml = demoXml
  demoDescTtl = demoDescTtl
  demoPlain = demoPlain
  demo = demo
  demoDesc = demoDesc
  v1 = v1
  v2 = v2
  s1 = s1
  s2 = s2
  r1 = r1
  Files = {demoXml, demoApi}
  Bases = {demo}
  BaseOf <- MCBaseOf
  Cuts <- MCCuts
  Dotless = {}
  Api = {demoApi}
  MetaFiles <- MCNegotiation
  Stamps = {s1}
  Versions = {v1}
  Absent = Absent
  Directory = Directory
  Oversize = Oversize
  Broken = Broken
  NonObject = NonObject
  None = None
  MaxEdits = 1
  MaxEvents = 1
  AtomicReplace = TRUE
  BrokerIgnore = TRUE
  Readers = {r1}
  MaxRequests = 1
SPECIFICATION FairSelfSpec
PROPERTIES RequestsAreAnswered CatchesUp
CHECK_DEADLOCK FALSE
