SPECIFICATION Spec
CONSTANTS
  Reserved <- MCReserved
  IntBits = 8
  MaxLen <- MCMaxLen
INVARIANTS BeneathIsSegmentPrefix ChildIsNextSegment NormIsCanonical NamesAreTheirWords NamesAreStable EscapedTextReadsBack TypedValuesRoundTrip
CHECK_DEADLOCK FALSE
