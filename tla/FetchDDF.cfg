SPECIFICATION Spec
CONSTANTS
  Zips <- MCZips
  Entries <- MCEntries
  Uploads <- MCUploads
  PinUrl = "pinned"
  PinZip = "pin"
  PinRelease = "February 2026"
  Flags <- MCFlags
  MaxRuns = 3
  MaxDays = 1
INVARIANTS TypeOK MirrorsZip
PROPERTY AskedZipOnly
CHECK_DEADLOCK FALSE
