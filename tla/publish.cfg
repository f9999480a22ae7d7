SPECIFICATION Spec
CONSTANTS
  NSteps = 2
  MaxEntries = 3
  MaxTags = 3
  Spellings = {"plain", "inline"}
  MaxScore = 1
  ScanEnabled = TRUE
  ScanThreshold = 1
INVARIANTS
  TypeOK
  PublishedImage
  UploadsScanned
PROPERTY
  ManifestKept
