CONSTANTS
  demoApi = demoApi
  demoXml = demoXml
  demoDescTtl = demoDescTtl
  demoPlain = demoPlain
  demo = demo
  demoDesc = demoDesc
  v1 = v1
  v2 = v2
  s1 = s1
  s2 = s2
  r1 = r1
  Files = {demoPlain, demoXml, demoDescTtl}
  Bases = {demo, demoDesc}
  BaseOf <- MCBaseOf
  Cuts <- MCCuts
  Dotless = {demoPlain}
  Api = {}
  MetaFiles <- MCBoth
  Stamps = {s1}
  Versions = {v1}
  Absent = Absent
  Directory = Directory
  Oversize = Oversize
  Broken = Broken
  NonObject = Broken
  None = None
  MaxEdits = 1
  MaxEvents = 1
  AtomicReplace = FALSE
  BrokerIgnore = TRUE
  Readers = {r1}
  MaxRequests = 1
SPECIFICATION SelfSpec
INVARIANTS SelfTypeOK ListedWasThere KeptIsListed AttachmentsAreOwn
CONSTRAINT FewFiles
PROPERTY OneChangePerListing
CHECK_DEADLOCK FALSE
