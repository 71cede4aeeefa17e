CONSTANT
  Documents = {d1, d2, d3}
SPECIFICATION Spec
PROPERTY
  FailedReplaceKeepsActive
