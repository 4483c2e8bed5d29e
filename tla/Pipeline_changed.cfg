SPECIFICATION Spec
CONSTANTS
  Zips <- MCZips
  Entries <- MCEntries
  Uploads <- MCUploads
  PinUrl = "pinned"
  PinZip = "pin"
  PinRelease = "February 2026"
  MaxRuns = 2
  MaxDays = 1
  Described <- MCDescribed
INVARIANT ChangedContentIsTaken
CHECK_DEADLOCK FALSE
