SPECIFICATION Spec
CONSTANTS
  None = None
  Feed = {"old", "rss", "feed"}
  Item <- MCItem
  Cap = 2
  MaxEvents = 3
  Process = {"worker", "api"}
  Api = "api"
  Concurrency = 2
  Site <- MCSite
  Document <- MCDocument
  Catalog = {"old"}
  Promoted = {"rss"}
  MinItems = 2
  SampleLimit = 100
  MaxFailures = 2
INVARIANTS
  ValidatorsCertify
  TwinsNotBothAdmitted
PROPERTIES
  RemovedStayOut
  ReadersKeepTheirs
  NewestKept
CHECK_DEADLOCK FALSE
