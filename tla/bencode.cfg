SPECIFICATION Spec
CONSTANTS
  Char <- MCChar
  MaxBint = 999
  MaxDepth = 2
  Value <- MCValue
  Names <- Keys
INVARIANTS RoundTrip TruncatedRefused RangesExact LookupExact
CHECK_DEADLOCK FALSE
