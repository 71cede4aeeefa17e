CONSTANT
  Documents = {d1, d2, d3, d4}
SPECIFICATION Spec
INVARIANT
  NoConflictWithoutEdit
PROPERTY
  RestartLoadsActive
  ManualEditKept
