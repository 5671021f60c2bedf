CONSTANTS
  Prime = 31
  Radix = 6
  Width = 2
  Letters = 5
  MaxBatch = 2
SPECIFICATION HashSpec
INVARIANTS
  BatchIsExact
  CoordinatesAreExact
