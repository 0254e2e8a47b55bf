CONSTANTS
  demoXml = demoXml
  demoDescTtl = demoDescTtl
  demoPlain = demoPlain
  demoApi = demoApi
  demo = demo
  demoDesc = demoDesc
  v1 = v1
  v2 = v2
  s1 = s1
  s2 = s2
  Files = {demoXml, demoJson}
  Bases = {demo}
  BaseOf <- MCBaseOf
  Cuts <- MCCuts
  Dotless = {}
  Api = {}
  MetaFiles <- MCContract
  Stamps = {s1}
  Versions = {v1}
  Absent = Absent
  Directory = Directory
  Oversize = Oversize
  Broken = Broken
  NonObject = NonObject
  None = None
  MaxEdits = 2
  MaxEvents = 2
  AtomicReplace = FALSE
  BrokerIgnore = TRUE
SPECIFICATION Spec
INVARIANT OfferTargetsItsArtifact
CHECK_DEADLOCK FALSE
