SPECIFICATION Spec
CONSTANTS
  Uploads = {c1, c2}
  NoUpload = NoUpload
  Users = {u1}
  Digests = {d1}
  NoKey = NoKey
  Ids = {i1, i2}
  NoId = NoId
  SectionOrder <- TwoSections
  RawAnswers <- PlainAnswers
INVARIANT AbortedUploadLeavesNothing
CHECK_DEADLOCK FALSE
