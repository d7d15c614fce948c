\* As many data sets as contexts.
SPECIFICATION Spec
CONSTANTS
  Id = {d1, d2, d3}
  NoId = NoId
  NumCtx = 3
INVARIANT
  TypeOK
  LookupsAgree
