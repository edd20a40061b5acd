CONSTANTS
  r1 = r1
  r2 = r2
  r3 = r3
  src = src
  dst = dst
  Rule = {r1, r2, r3}
  NULL = NULL
  ANY = ANY
  Match <- DtMatch
  Priority <- DtPriority
  candidate_fields <- DtFields
  max_leaf_size = 5
  Flow <- DtFlows
  MaxInsert = 4
SPECIFICATION Spec
INVARIANT RemovedIsGone
