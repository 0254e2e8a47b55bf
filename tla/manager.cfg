CONSTANTS
  demoXml = demoXml
  demoDescTtl = demoDescTtl
  demoPlain = demoPlain
  demoApi = demoApi
  demo = demo
  demoDesc = demoDesc
  v1 = v1
  v2 = v2
  s1 = s1
  s2 = s2
  Files = {demoXml}
  Bases = {demo}
  BaseOf <- MCBaseOf
  Cuts <- MCCuts
  Dotless = {}
  Api = {}
  MetaFiles <- MCAll
  Stamps = {s1, s2}
  Versions = {v1, v2}
  Absent = Absent
  Directory = Directory
  Oversize = Oversize
  Broken = Broken
  NonObject = NonObject
  None = None
  MaxEdits = 3
  MaxEvents = 3
  AtomicReplace = FALSE
  BrokerIgnore = FALSE
SPECIFICATION Spec
INVARIANTS TypeOK LastWordIsTrue IndexTracksDirectory IndexIsUpToDate DescriptionTracksFile BrokerInStep
CONSTRAINT OneMetaFile
SYMMETRY Symmetry
CHECK_DEADLOCK FALSE
