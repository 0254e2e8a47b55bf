CONSTANTS
  demoXml = demoXml
  demoDescTtl = demoDescTtl
  demoPlain = demoPlain
  demoApi = demoApi
  demo = demo
  demoDesc = demoDesc
  v1 = v1
  v2 = v2
  s1 = s1
  s2 = s2
  Files = {demoXml}
  Bases = {demo}
  BaseOf <- MCBaseOf
  Cuts <- MCCuts
  Dotless = {}
  Api = {}
  MetaFiles <- MCContract
  Stamps = {s1, s2}
  Versions = {v1}
  Absent = Absent
  Directory = Directory
  Oversize = Oversize
  Broken = Broken
  NonObject = NonObject
  None = None
  MaxEdits = 1
  MaxEvents = 2
  AtomicReplace = FALSE
  BrokerIgnore = TRUE
SPECIFICATION Spec
INVARIANT ContractTracksFile
CHECK_DEADLOCK FALSE
