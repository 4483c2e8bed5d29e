SPECIFICATION Spec
CONSTANTS
  Zips <- MCZips
  Entries <- MCEntries
  Uploads <- MCUploads
  PinUrl = "pinned"
  PinZip = "pin"
  PinRelease = "February 2026"
  MaxRuns = 2
  MaxDays = 1
  Described <- MCDescribed
INVARIANTS TypeOK AlwaysReproducible NewDropIsSeen PinnedIsPinned
CHECK_DEADLOCK FALSE
