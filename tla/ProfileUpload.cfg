SPECIFICATION FairSpec
CONSTANTS
  Uploads = {c1, c2}
  NoUpload = NoUpload
  Users = {u1}
  Digests = {d1}
  NoKey = NoKey
  Ids = {i1, i2, i3}
  NoId = NoId
  SectionOrder <- TwoSections
  RawAnswers <- SomeAnswers
INVARIANTS TypeOK StoredPdfs OneProfilePerPdf OnlyFullExtractions LeftoversAreKnown
PROPERTIES ImplementsProfileStore UploadEnds
CHECK_DEADLOCK FALSE
