SPECIFICATION Spec
CONSTANTS
  s1 = s1
  s2 = s2
  s3 = s3
  s4 = s4
  n1 = n1
  n2 = n2
  v1 = v1
  v2 = v2
  Ids = {s1, s2}
  Names = {n1}
  Versions = {v1, v2}
  NoSchema = NoSchema
  NoId = NoId
  MaxSchemas = 3
INVARIANT
  FoundByName
