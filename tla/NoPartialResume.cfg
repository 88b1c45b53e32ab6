SPECIFICATION Spec
CONSTANTS
  Uploads = {c1}
  NoUpload = NoUpload
  Users = {u1}
  Digests = {d1}
  NoKey = NoKey
  Ids = {i1}
  NoId = NoId
  SectionOrder <- ThreeSections
  RawAnswers <- PlainAnswers
INVARIANT NoPartialResume
CHECK_DEADLOCK FALSE
