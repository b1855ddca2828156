SPECIFICATION Spec
CONSTANTS
  SizeMax = 63
  FloatSize = 2
  OutputCount = 2
  IntMax = 2
  Overflow = Overflow
  Missing = Missing
  Absent = Absent
  NotFinite = NotFinite
  BadFill = BadFill
  Makers = {m1, m2}
  Readers = {r1}
  Thresholds = {0, 1, 2}
  Limits = {0, 1}
  Models <- MCModels
  CommandLines <- MCCommandLines
  RawFiles <- MCRawFiles
  Layouts <- MCLayouts
  Contents <- MCContents
  Requests <- MCRequests
  HandWritten <- MCHandWritten
  FileNames <- MCFileNames
  DemoFrames = 2
  ManifestContents <- MCManifestContents
  NotGiven = NotGiven
INVARIANTS
  AcceptedInputsFitTheModel
  StatusTellsOutputs
  DetectionsAreTheBestRows
  ManifestsSayWhatWasAsked
  ListingIsOrdered
  DemosKeepTheirPromise
  CompletedFramesAreKept
  RuntimeIsThePromisedOne
PROPERTIES
  DemosImplementPublication
CHECK_DEADLOCK FALSE
