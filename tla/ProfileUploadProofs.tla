------------------------ MODULE ProfileUploadProofs ------------------------
(***************************************************************************)
(* Proofs about ProfileUpload for any number of concurrent uploads, users, *)
(* PDFs and answers, and any list of sections.                             *)
(***************************************************************************)
EXTENDS ProfileUpload, TLAPS

(***************************************************************************)
(* The inductive invariant.                                                *)
(***************************************************************************)
PathOf(q) == <<q.key[1], q.id>>

\* The ids are its own, the PDF is there while it is needed, and the row it is
\* about to commit is the only one of its key, from a full extraction.
Own(c, q) ==
    /\ q.id # NoId => q.id \in spent
    /\ q.pc # "idle" => q.key \in Keys /\ q.id \in Ids /\ q.result = "none" /\ row[q.id] = NoRow
    /\ q.pc = "write" => PathOf(q) \in staged
    /\ q.pc \in {"section", "insert", "commit"} => PathOf(q) \in pdf
    /\ q.pc \in {"mkdir", "mkdirUser", "mkdirAgain", "write", "section"} =>
          q.answered = {SectionOrder[j] : j \in 1..q.asked}
    /\ q.pc \in {"insert", "commit"} => q.answered = Sections
    /\ q.pc = "commit" => inserting[q.key] = c /\ Stored(q.key) = {}
    /\ \A k \in Keys : inserting[k] = c => q.pc = "commit" /\ q.key = k

LocalsOK == \A c \in Uploads : Own(c, upload[c])

DistinctIds == \A c, d \in Uploads : c # d /\ upload[c].id # NoId => upload[c].id # upload[d].id

RowsAreSpent == \A i \in Ids : row[i] # NoRow => i \in spent

\* The part of StoredPdfs that is not about one upload.
FilesOK ==
    /\ \A i \in Ids : row[i] # NoRow => <<row[i].key[1], i>> \in pdf
    /\ \A p \in staged : p[1] \in home

UInv ==
    /\ TypeOK /\ LocalsOK /\ DistinctIds /\ RowsAreSpent /\ FilesOK
    /\ OneProfilePerPdf /\ OnlyFullExtractions
-----------------------------------------------------------------------------
(***************************************************************************)
(* What the transforms return.                                             *)
(***************************************************************************)
LEMMA KeptKind ==
    ASSUME NEW s, NEW v
    PROVE  Kept(s, v) \in SectionKinds
  BY DEF Kept, SectionKinds

LEMMA MadeKind ==
    ASSUME NEW a, NEW s, NEW full
    PROVE  Made(a, s, full) \in SectionKinds
  <1>1. CASE s = "basics"
    BY <1>1 DEF Made, SectionKinds
  <1>2. CASE s = "others" /\ Sources(a, s, full) # {}
    BY <1>2, KeptKind DEF Made
  <1>3. CASE s # "basics" /\ ~(s = "others" /\ Sources(a, s, full) # {})
    BY <1>3 DEF Made, SectionKinds
  <1> QED BY <1>1, <1>2, <1>3

LEMMA PartsAreSections ==
    ASSUME NEW a
    PROVE  Parts(a) \subseteq ResumeKeys
  <1>1. DOMAIN Branches = 1..6 /\ \A i \in 1..6 : Branches[i] \in ResumeKeys
    BY DEF Branches, ResumeKeys
  <1> QED BY <1>1 DEF Parts, Named

LEMMA TransformType ==
    ASSUME NEW a
    PROVE  /\ DOMAIN Transform(a) \subseteq ResumeKeys
           /\ \A s \in DOMAIN Transform(a) : Transform(a)[s] \in SectionKinds
  BY KeptKind, MadeKind, PartsAreSections DEF Transform

LEMMA UpdatedType ==
    ASSUME NEW resume \in [ResumeKeys -> SectionKinds], NEW a \in RawAnswers
    PROVE  /\ Updated(resume, Part[a]) \in [ResumeKeys -> SectionKinds]
           /\ Content(Part[a]) \subseteq ResumeKeys
  BY TransformType DEF Part, Updated, Content

LEMMA AssembledType ==
    ASSUME NEW resume \in [ResumeKeys -> SectionKinds]
    PROVE  Assembled(resume) \in [ResumeKeys -> SectionKinds]
  BY DEF Assembled, SectionKinds
-----------------------------------------------------------------------------
LEMMA SectionOrderType ==
    /\ Len(SectionOrder) \in Nat /\ DOMAIN SectionOrder = 1..Len(SectionOrder)
    /\ \A j \in 1..Len(SectionOrder) : SectionOrder[j] \in Sections
  BY SectionAssumption DEF Sections

LEMMA FreshType ==
    ASSUME NEW k \in Keys \cup {NoKey}, NEW i \in Ids \cup {NoId}, NEW pc \in PCs, NEW result \in Results
    PROVE  /\ Fresh(k, i, pc, result) \in Locals
           /\ Fresh(k, i, pc, result).pc = pc /\ Fresh(k, i, pc, result).key = k
           /\ Fresh(k, i, pc, result).id = i /\ Fresh(k, i, pc, result).result = result
           /\ Fresh(k, i, pc, result).answered = {} /\ Fresh(k, i, pc, result).asked = 0
  <1>1. Skeleton \in [ResumeKeys -> SectionKinds]
    BY DEF Skeleton, SectionKinds
  <1> QED BY <1>1, SectionOrderType DEF Fresh, Locals

LEMMA UploadOK ==
    ASSUME UInv, NEW c \in Uploads
    PROVE  upload[c] \in Locals /\ Own(c, upload[c])
  BY DEF UInv, TypeOK, LocalsOK

\* Only the locals of one upload change.
LEMMA LocalStep ==
    ASSUME UInv, NEW c \in Uploads, NEW q \in Locals, Own(c, q), Moves(c, q), q.id = upload[c].id,
           UNCHANGED <<table, files, spent>>
    PROVE  UInv'
  <1>1. upload' \in [Uploads -> Locals] /\ \A d \in Uploads : upload'[d] = IF d = c THEN q ELSE upload[d]
    BY DEF UInv, TypeOK, Moves
  <1>2. TypeOK'
    BY <1>1 DEF UInv, TypeOK, table, files
  <1>3. ASSUME NEW d \in Uploads, NEW r, Own(d, r) PROVE Own(d, r)'
    BY <1>3 DEF Own, Stored, table, files
  <1>4. LocalsOK'
    BY <1>1, <1>3 DEF UInv, LocalsOK
  <1>5. DistinctIds'
    BY <1>1 DEF UInv, DistinctIds
  <1>6. RowsAreSpent' /\ FilesOK' /\ OneProfilePerPdf' /\ OnlyFullExtractions'
    BY DEF UInv, RowsAreSpent, FilesOK, OneProfilePerPdf, OnlyFullExtractions, table, files
  <1> QED BY <1>2, <1>4, <1>5, <1>6 DEF UInv

LEMMA InitUpload == Init => UInv
  <1> SUFFICES ASSUME Init PROVE UInv
    OBVIOUS
  <1>1. "idle" \in PCs /\ "none" \in Results
    BY DEF PCs, Results
  <1> DEFINE q == Fresh(NoKey, NoId, "idle", "none")
  <1>a. q \in Locals /\ q.pc = "idle" /\ q.id = NoId /\ q.result = "none"
    BY SectionOrderType DEF Fresh, Locals, PCs, Results, Skeleton, SectionKinds
  <1>b. upload = [c \in Uploads |-> q]
    BY DEF Init
  <1> HIDE DEF q
  <1>2. \A c \in Uploads : /\ upload[c] \in Locals /\ upload[c].pc = "idle"
                           /\ upload[c].id = NoId /\ upload[c].result = "none"
    BY <1>a, <1>b
  <1>3. TypeOK
    BY <1>a, <1>b DEF Init, TypeOK
  <1>4. LocalsOK
    BY <1>2, SentinelAssumption DEF Init, LocalsOK, Own
  <1>5. DistinctIds /\ RowsAreSpent /\ FilesOK /\ OneProfilePerPdf /\ OnlyFullExtractions
    BY <1>2 DEF Init, DistinctIds, RowsAreSpent, FilesOK, OneProfilePerPdf, OnlyFullExtractions
  <1> QED BY <1>3, <1>4, <1>5 DEF UInv
-----------------------------------------------------------------------------
\* The steps that change no more than the locals of the upload.
LEMMA SectionStep ==
    ASSUME UInv, NEW c \in Uploads, Section(c)
    PROVE  UInv'
  <1> DEFINE u == upload[c]
  <1>1. u \in Locals /\ Own(c, u) /\ u.pc = "section" /\ u.asked < Len(SectionOrder)
        /\ UNCHANGED <<table, files, spent>>
    BY UploadOK DEF Section, At
  <1>2. u.asked \in Nat /\ u.asked + 1 \in 1..Len(SectionOrder) /\ u.asked + 1 \in 0..Len(SectionOrder)
        /\ SectionOrder[u.asked + 1] \in Sections /\ 1..(u.asked + 1) = 1..u.asked \cup {u.asked + 1}
    BY <1>1, SectionOrderType DEF Locals
  <1>3. ASSUME NEW a \in RawAnswers, Moves(c, Answered(u, a)) PROVE UInv'
    <2> DEFINE q == Answered(u, a)
    <2>1. q \in Locals
      <3>1. u.resume \in [ResumeKeys -> SectionKinds] /\ u.found \subseteq ResumeKeys
            /\ u.answered \subseteq Sections
        BY <1>1 DEF Locals
      <3> QED BY <1>1, <1>2, <3>1, UpdatedType DEF Answered, Locals
    <2>2. /\ q.pc = "section" /\ q.id = u.id /\ q.key = u.key /\ q.result = u.result
          /\ q.asked = u.asked + 1 /\ q.answered = u.answered \cup {SectionOrder[u.asked + 1]}
      BY <1>1 DEF Answered, Locals
    <2>3. q.answered = {SectionOrder[j] : j \in 1..q.asked}
      BY <1>1, <1>2, <2>2 DEF Own
    <2>4. Own(c, q)
      <3> HIDE DEF q
      <3> QED BY <1>1, <2>2, <2>3 DEF Own, PathOf
    <2> HIDE DEF q
    <2> QED BY <1>1, <1>3, <2>1, <2>2, <2>4, LocalStep DEF q
  <1>4. CASE Moves(c, [u EXCEPT !.retried = TRUE])
    <2> DEFINE q == [u EXCEPT !.retried = TRUE]
    <2>1. q \in Locals
      BY <1>1 DEF Locals
    <2>2. Own(c, q) /\ q.id = u.id
      BY <1>1 DEF Own, PathOf, Locals
    <2> HIDE DEF q
    <2> QED BY <1>1, <1>4, <2>1, <2>2, LocalStep DEF q
  <1>5. CASE Goes(c, "rmtree")
    <2> DEFINE q == [u EXCEPT !.pc = "rmtree"]
    <2>1. q \in Locals
      BY <1>1 DEF Locals, PCs
    <2>2. Own(c, q) /\ q.id = u.id
      BY <1>1 DEF Own, PathOf, Locals
    <2> HIDE DEF q
    <2> QED BY <1>1, <1>5, <2>1, <2>2, LocalStep DEF q, Goes
  <1> QED BY <1>3, <1>4, <1>5 DEF Section

LEMMA ExtractionRaisesStep ==
    ASSUME UInv, NEW c \in Uploads, ExtractionRaises(c)
    PROVE  UInv'
  <1> DEFINE q == [upload[c] EXCEPT !.pc = "rmtree"]
  <1>1. upload[c] \in Locals /\ Own(c, upload[c]) /\ upload[c].pc = "section"
        /\ Moves(c, q) /\ UNCHANGED <<table, files, spent>>
    BY UploadOK DEF ExtractionRaises, At, Goes
  <1>2. q \in Locals
    BY <1>1 DEF Locals, PCs
  <1>3. Own(c, q) /\ q.id = upload[c].id
    BY <1>1 DEF Own, PathOf, Locals
  <1> HIDE DEF q
  <1> QED BY <1>1, <1>2, <1>3, LocalStep

LEMMA AssembleStep ==
    ASSUME UInv, NEW c \in Uploads, Assemble(c)
    PROVE  UInv'
  <1> DEFINE u == upload[c]
             resume == Assembled(u.resume)
             found == u.found \ (IF resume = u.resume THEN {} ELSE {"basics"})
  <1>1. u \in Locals /\ Own(c, u) /\ u.pc = "section" /\ u.asked = Len(SectionOrder)
        /\ UNCHANGED <<table, files, spent>>
    BY UploadOK DEF Assemble, At
  <1>2. CASE Goes(c, "rmtree")
    <2> DEFINE q == [u EXCEPT !.pc = "rmtree"]
    <2>1. q \in Locals
      BY <1>1 DEF Locals, PCs
    <2>2. Own(c, q) /\ q.id = u.id
      BY <1>1 DEF Own, PathOf, Locals
    <2> HIDE DEF q
    <2> QED BY <1>1, <1>2, <2>1, <2>2, LocalStep DEF q, Goes
  <1>3. CASE Moves(c, [u EXCEPT !.pc = "insert", !.resume = resume, !.found = found])
    <2> DEFINE q == [u EXCEPT !.pc = "insert", !.resume = resume, !.found = found]
    <2>1. resume \in [ResumeKeys -> SectionKinds] /\ found \subseteq ResumeKeys
      BY <1>1, AssembledType DEF Locals
    <2> HIDE DEF resume, found
    <2>2. q \in Locals
      BY <1>1, <2>1 DEF Locals, PCs
    <2>3. u.answered = Sections
      BY <1>1, SectionOrderType DEF Own, Sections
    <2>4. Own(c, q) /\ q.id = u.id
      BY <1>1, <2>3 DEF Own, PathOf, Locals
    <2> HIDE DEF q
    <2> QED BY <1>1, <1>3, <2>2, <2>4, LocalStep DEF q
  <1> QED BY <1>2, <1>3 DEF Assemble
-----------------------------------------------------------------------------
\* What a step of upload c leaves alone: the files and the row of every other
\* id, and the index entries of the other uploads.
Confined(c) ==
    /\ spent \subseteq spent'
    /\ \A p \in Users \X Ids : p[2] # upload'[c].id =>
          (p \in pdf <=> p \in pdf') /\ (p \in staged <=> p \in staged')
    /\ \A i \in Ids : i # upload'[c].id => row'[i] = row[i]
    /\ \A k \in Keys :
          \/ inserting'[k] = inserting[k]
          \/ inserting[k] \in {c, NoUpload} /\ inserting'[k] \in {c, NoUpload}
    /\ \A k \in Keys : Stored(k) = {} /\ inserting[k] \notin {c, NoUpload} => Stored(k)' = {}

LEMMA StepOK ==
    ASSUME UInv, NEW c \in Uploads, NEW q, Moves(c, q), Confined(c),
           q.id \in {upload[c].id, NoId} \/ q.id \notin spent,
           TypeOK', Own(c, upload[c])', RowsAreSpent', FilesOK', OneProfilePerPdf', OnlyFullExtractions'
    PROVE  UInv'
  <1>1. \A d \in Uploads : upload'[d] = IF d = c THEN q ELSE upload[d]
    BY DEF UInv, TypeOK, Moves
  <1>2. ASSUME NEW d \in Uploads, d # c
        PROVE  /\ upload[d].id # NoId => upload[d].id # q.id
               /\ q.id # NoId => q.id # upload[d].id
    BY <1>2, UploadOK DEF UInv, DistinctIds, Own
  <1>3. DistinctIds'
    BY <1>1, <1>2 DEF UInv, DistinctIds
  <1>4. ASSUME NEW d \in Uploads, d # c PROVE Own(d, upload[d])'
    <2>1. upload[d] \in Locals /\ Own(d, upload[d]) /\ upload'[d] = upload[d] /\ upload'[c].id = q.id
      BY <1>1, <1>4, UploadOK
    <2>2. upload[d].id \in Ids => upload[d].id # q.id
      BY <1>2, <1>4, SentinelAssumption
    <2>4. upload[d].key \in Keys /\ upload[d].id \in Ids =>
            PathOf(upload[d]) \in Users \X Ids /\ PathOf(upload[d])[2] # q.id
      BY <2>2 DEF PathOf, Keys
    <2>5. upload[d].id # NoId => upload[d].id \in spent'
      BY <2>1 DEF Own, Confined
    <2>6. upload[d].pc # "idle" => /\ upload[d].key \in Keys /\ upload[d].id \in Ids
                                   /\ upload[d].result = "none" /\ row'[upload[d].id] = NoRow
      BY <2>1, <2>2 DEF Own, Confined
    <2>7. upload[d].pc = "write" => PathOf(upload[d]) \in staged'
      BY <2>1, <2>4, <2>6 DEF Own, Confined
    <2>8. upload[d].pc \in {"section", "insert", "commit"} => PathOf(upload[d]) \in pdf'
      BY <2>1, <2>4, <2>6 DEF Own, Confined
    <2>10. /\ upload[d].pc = "commit" => inserting'[upload[d].key] = d /\ Stored(upload[d].key)' = {}
           /\ \A k \in Keys : inserting'[k] = d => upload[d].pc = "commit" /\ upload[d].key = k
      <3>1. d \notin {c, NoUpload}
        BY <1>4, SentinelAssumption
      <3>2. \A k \in Keys : inserting[k] = d <=> inserting'[k] = d
        BY <3>1 DEF Confined
      <3>3. \A k \in Keys : inserting[k] = d /\ Stored(k) = {} => Stored(k)' = {}
        BY <3>1 DEF Confined
      <3> QED BY <2>1, <2>6, <3>2, <3>3 DEF Own
    <2> QED BY <2>1, <2>5, <2>6, <2>7, <2>8, <2>10 DEF Own, PathOf, Stored
  <1>5. LocalsOK'
    BY <1>4 DEF LocalsOK
  <1> QED BY <1>3, <1>5 DEF UInv

LEMMA GoesType ==
    ASSUME UInv, NEW c \in Uploads, NEW pc \in PCs, Goes(c, pc)
    PROVE  /\ upload' \in [Uploads -> Locals] /\ upload'[c].pc = pc
           /\ upload'[c].key = upload[c].key /\ upload'[c].id = upload[c].id
           /\ upload'[c].result = upload[c].result /\ upload'[c].answered = upload[c].answered
           /\ upload'[c].asked = upload[c].asked /\ PathOf(upload'[c]) = PathOf(upload[c])
           /\ Moves(c, upload'[c])
  <1> DEFINE q == [upload[c] EXCEPT !.pc = pc]
  <1>1. upload[c] \in Locals /\ upload \in [Uploads -> Locals] /\ upload' = [upload EXCEPT ![c] = q]
    BY DEF UInv, TypeOK, Goes, Moves
  <1>2. /\ q \in Locals /\ q.pc = pc /\ q.key = upload[c].key /\ q.id = upload[c].id
        /\ q.result = upload[c].result /\ q.answered = upload[c].answered /\ q.asked = upload[c].asked
    BY <1>1 DEF Locals
  <1> HIDE DEF q
  <1>3. upload'[c] = q /\ upload' \in [Uploads -> Locals] /\ Moves(c, upload'[c])
    BY <1>1, <1>2 DEF Moves
  <1> QED BY <1>2, <1>3 DEF PathOf

LEMMA ReturnsType ==
    ASSUME UInv, NEW c \in Uploads, NEW result \in Results, Returns(c, result)
    PROVE  /\ upload' \in [Uploads -> Locals] /\ upload'[c].pc = "idle"
           /\ upload'[c].key = upload[c].key /\ upload'[c].id = upload[c].id
           /\ upload'[c].result = result /\ PathOf(upload'[c]) = PathOf(upload[c])
           /\ Moves(c, upload'[c])
  <1> DEFINE q == Fresh(upload[c].key, upload[c].id, "idle", result)
  <1>1. upload[c] \in Locals /\ upload \in [Uploads -> Locals] /\ upload' = [upload EXCEPT ![c] = q]
    BY DEF UInv, TypeOK, Returns, Moves
  <1>2. upload[c].key \in Keys \cup {NoKey} /\ upload[c].id \in Ids \cup {NoId} /\ "idle" \in PCs
    BY <1>1 DEF Locals, PCs
  <1>3. /\ q \in Locals /\ q.pc = "idle" /\ q.key = upload[c].key /\ q.id = upload[c].id
        /\ q.result = result
    BY <1>2, FreshType
  <1> HIDE DEF q
  <1>4. upload'[c] = q /\ upload' \in [Uploads -> Locals] /\ Moves(c, upload'[c])
    BY <1>1, <1>3 DEF Moves
  <1> QED BY <1>3, <1>4 DEF PathOf
-----------------------------------------------------------------------------
\* The rows and the index stay as they are.
LEMMA TableKept ==
    ASSUME UInv, UNCHANGED table, spent \subseteq spent'
    PROVE  /\ RowsAreSpent' /\ OneProfilePerPdf' /\ OnlyFullExtractions'
           /\ \A k : Stored(k)' = Stored(k)
  BY DEF UInv, RowsAreSpent, OneProfilePerPdf, OnlyFullExtractions, table, Stored

\* The row and the directory of an upload are those of no other.
LEMMA PathFacts ==
    ASSUME UInv, NEW c \in Uploads, upload[c].pc # "idle"
    PROVE  /\ PathOf(upload[c]) = Path(c) /\ Owner(c) \in Users /\ upload[c].id \in Ids
           /\ upload[c].key \in Keys /\ Path(c) \in Users \X Ids /\ Path(c)[1] = Owner(c)
           /\ \A i \in Ids : row[i] # NoRow => <<row[i].key[1], i>> # Path(c)
           /\ \A p \in Users \X Ids : p[2] # upload[c].id => p # Path(c)
  BY UploadOK DEF Own, PathOf, Path, Owner, Keys

\* Only ids of uploads are lost.
LEMMA LostType ==
    ASSUME UInv, NEW c \in Uploads, upload[c].pc # "idle", lost' = lost \/ Abandons(c)
    PROVE  lost' \in SUBSET Ids /\ lost \subseteq lost'
  BY PathFacts DEF Abandons, UInv, TypeOK

LEMMA CheckStep ==
    ASSUME UInv, NEW c \in Uploads, NEW k \in Keys, Check(c, k)
    PROVE  UInv'
  <1>1. upload[c].pc = "idle" /\ upload[c] \in Locals /\ Own(c, upload[c]) /\ UNCHANGED <<table, files>>
        /\ \A l \in Keys : inserting[l] # c
    BY UploadOK DEF Check, At, Own
  <1>2. "idle" \in PCs /\ "mkdir" \in PCs /\ "ok" \in Results /\ "none" \in Results
        /\ k \in Keys \cup {NoKey} /\ NoId \in Ids \cup {NoId}
    BY DEF PCs, Results
  <1>3. ASSUME Moves(c, Fresh(k, NoId, "idle", "ok")), spent' = spent
        PROVE  UInv'
    <2> DEFINE q == Fresh(k, NoId, "idle", "ok")
    <2>1. q \in Locals /\ q.pc = "idle" /\ q.id = NoId /\ q.result = "ok"
      BY <1>2, FreshType
    <2> HIDE DEF q
    <2>2. upload'[c] = q /\ upload' \in [Uploads -> Locals] /\ Moves(c, q)
      BY <1>3, <2>1 DEF UInv, TypeOK, Moves, q
    <2>3. TypeOK' /\ FilesOK'
      BY <1>1, <1>3, <2>2 DEF UInv, TypeOK, FilesOK, table, files
    <2>4. Own(c, upload[c])'
      BY <1>1, <2>1, <2>2 DEF Own, table
    <2>5. Confined(c)
      BY <1>1, <1>3, TableKept DEF Confined, table, files
    <2> QED BY <1>1, <1>3, <2>1, <2>2, <2>3, <2>4, <2>5, TableKept, StepOK
  <1>4. ASSUME NEW i \in Ids \ spent, Moves(c, Fresh(k, i, "mkdir", "none")), spent' = spent \cup {i}
        PROVE  UInv'
    <2> DEFINE q == Fresh(k, i, "mkdir", "none")
    <2>1. /\ q \in Locals /\ q.pc = "mkdir" /\ q.id = i /\ q.key = k /\ q.result = "none"
          /\ q.answered = {} /\ q.asked = 0
      <3>1. i \in Ids \cup {NoId}
        OBVIOUS
      <3> QED BY <1>2, <3>1, FreshType
    <2> HIDE DEF q
    <2>2. upload'[c] = q /\ upload' \in [Uploads -> Locals] /\ Moves(c, q)
      BY <1>4, <2>1 DEF UInv, TypeOK, Moves, q
    <2>3. TypeOK' /\ FilesOK'
      BY <1>1, <1>4, <2>2 DEF UInv, TypeOK, FilesOK, table, files
    <2>4. Own(c, upload[c])'
      BY <1>1, <1>4, <2>1, <2>2 DEF Own, table, UInv, RowsAreSpent
    <2>5. Confined(c)
      BY <1>1, <1>4, TableKept DEF Confined, table, files
    <2> QED BY <1>1, <1>4, <2>1, <2>2, <2>3, <2>4, <2>5, TableKept, StepOK
  <1> QED BY <1>3, <1>4 DEF Check

LEMMA MakeDirStep ==
    ASSUME UInv, NEW c \in Uploads, MakeDir(c)
    PROVE  UInv'
  <1>1. /\ upload[c] \in Locals /\ Own(c, upload[c]) /\ upload[c].pc \in {"mkdir", "mkdirAgain"}
        /\ UNCHANGED <<table, home, pdf, lost, spent>>
        /\ \A k \in Keys : inserting[k] # c
    BY UploadOK DEF MakeDir, At, Own
  <1>2. "write" \in PCs /\ "mkdirUser" \in PCs /\ "refused" \in Results
    BY DEF PCs, Results
  <1>3. CASE Owner(c) \in home /\ staged' = staged \cup {Path(c)} /\ Goes(c, "write")
    <2>1. TypeOK' /\ FilesOK'
      BY <1>1, <1>2, <1>3, GoesType, PathFacts DEF UInv, TypeOK, FilesOK, table
    <2>2. Own(c, upload[c])'
      BY <1>1, <1>2, <1>3, GoesType, PathFacts DEF Own, table
    <2>3. Confined(c)
      BY <1>1, <1>2, <1>3, GoesType, PathFacts, TableKept DEF Confined, table
    <2> QED BY <1>1, <1>2, <1>3, <2>1, <2>2, <2>3, GoesType, TableKept, StepOK
  <1>4. ASSUME staged' = staged, NEW pc \in {"mkdirUser"}, Goes(c, pc)
        PROVE  UInv'
    <2>1. TypeOK' /\ FilesOK'
      BY <1>1, <1>2, <1>4, GoesType DEF UInv, TypeOK, FilesOK, table
    <2>2. Own(c, upload[c])'
      BY <1>1, <1>2, <1>4, GoesType DEF Own, table
    <2>3. Confined(c)
      BY <1>1, <1>4, TableKept DEF Confined, table
    <2> QED BY <1>1, <1>2, <1>4, <2>1, <2>2, <2>3, GoesType, TableKept, StepOK
  <1>5. CASE staged' = staged /\ Returns(c, "refused")
    <2>1. TypeOK' /\ FilesOK'
      BY <1>1, <1>2, <1>5, ReturnsType DEF UInv, TypeOK, FilesOK, table
    <2>2. Own(c, upload[c])'
      BY <1>1, <1>2, <1>5, ReturnsType DEF Own, table
    <2>3. Confined(c)
      BY <1>1, <1>5, TableKept DEF Confined, table
    <2> QED BY <1>1, <1>2, <1>5, <2>1, <2>2, <2>3, ReturnsType, TableKept, StepOK
  <1> QED BY <1>3, <1>4, <1>5 DEF MakeDir

LEMMA MakeUserDirStep ==
    ASSUME UInv, NEW c \in Uploads, MakeUserDir(c)
    PROVE  UInv'
  <1>1. /\ upload[c] \in Locals /\ Own(c, upload[c]) /\ upload[c].pc = "mkdirUser"
        /\ UNCHANGED <<table, staged, pdf, lost, spent>> /\ Goes(c, "mkdirAgain") /\ "mkdirAgain" \in PCs
        /\ home' = home \cup {Owner(c)}
    BY UploadOK DEF MakeUserDir, At, PCs
  <1>2. TypeOK' /\ FilesOK'
    BY <1>1, GoesType, PathFacts DEF UInv, TypeOK, FilesOK, table
  <1>3. Own(c, upload[c])'
    BY <1>1, GoesType DEF Own, table
  <1>4. Confined(c)
    BY <1>1, TableKept DEF Confined, table
  <1> QED BY <1>1, <1>2, <1>3, <1>4, GoesType, TableKept, StepOK

LEMMA WritePdfStep ==
    ASSUME UInv, NEW c \in Uploads, WritePdf(c)
    PROVE  UInv'
  <1>1. /\ upload[c] \in Locals /\ Own(c, upload[c]) /\ upload[c].pc = "write"
        /\ UNCHANGED <<table, home, staged, spent>> /\ "section" \in PCs /\ "refused" \in Results
    BY UploadOK DEF WritePdf, At, PCs, Results
  <1>2. CASE pdf' = pdf \cup {Path(c)} /\ Goes(c, "section") /\ lost' = lost
    <2>1. Path(c) \in staged
      BY <1>1, PathFacts DEF Own
    <2>2. TypeOK' /\ FilesOK'
      BY <1>1, <1>2, <2>1, GoesType DEF UInv, TypeOK, FilesOK, table
    <2>3. Own(c, upload[c])'
      BY <1>1, <1>2, GoesType, PathFacts DEF Own, table
    <2>4. Confined(c)
      BY <1>1, <1>2, GoesType, PathFacts, TableKept DEF Confined, table
    <2> QED BY <1>1, <1>2, <2>2, <2>3, <2>4, GoesType, TableKept, StepOK
  <1>3. CASE pdf' = pdf /\ Returns(c, "refused") /\ Abandons(c)
    <2>1. TypeOK' /\ FilesOK'
      BY <1>1, <1>3, ReturnsType, LostType DEF UInv, TypeOK, FilesOK, table
    <2>2. Own(c, upload[c])'
      BY <1>1, <1>3, ReturnsType DEF Own, table
    <2>3. Confined(c)
      BY <1>1, <1>3, TableKept DEF Confined, table
    <2> QED BY <1>1, <1>3, <2>1, <2>2, <2>3, ReturnsType, TableKept, StepOK
  <1> QED BY <1>2, <1>3 DEF WritePdf

LEMMA RemoveTreeStep ==
    ASSUME UInv, NEW c \in Uploads, RemoveTree(c)
    PROVE  UInv'
  <1>1. /\ upload[c] \in Locals /\ Own(c, upload[c]) /\ upload[c].pc = "rmtree"
        /\ UNCHANGED <<table, home, spent>> /\ Goes(c, "prune") /\ "prune" \in PCs
        /\ \/ pdf' = pdf \ {Path(c)} /\ staged' = staged \ {Path(c)} /\ lost' = lost
           \/ pdf' \in {pdf, pdf \ {Path(c)}} /\ Abandons(c) /\ staged' = staged
    BY UploadOK DEF RemoveTree, At, PCs
  <1>2. /\ staged' \subseteq staged /\ pdf' \subseteq staged' /\ lost' \in SUBSET Ids
        /\ \A p \in Users \X Ids : p # Path(c) =>
              (p \in pdf <=> p \in pdf') /\ (p \in staged <=> p \in staged')
    BY <1>1, LostType DEF UInv, TypeOK
  <1>3. TypeOK'
    BY <1>1, <1>2, GoesType DEF UInv, TypeOK, table
  <1>4. FilesOK'
    <2>1. \A i \in Ids : row[i] # NoRow =>
            /\ <<row[i].key[1], i>> \in pdf /\ <<row[i].key[1], i>> # Path(c)
            /\ <<row[i].key[1], i>> \in Users \X Ids
      BY <1>1, PathFacts DEF UInv, FilesOK, TypeOK
    <2>2. \A i \in Ids : row'[i] # NoRow => <<row'[i].key[1], i>> \in pdf'
      BY <1>1, <1>2, <2>1 DEF table
    <2> QED BY <1>1, <1>2, <2>2 DEF UInv, FilesOK
  <1>5. Own(c, upload[c])'
    BY <1>1, GoesType, PathFacts DEF Own, table
  <1>6. Confined(c)
    BY <1>1, <1>2, GoesType, PathFacts, TableKept DEF Confined, table
  <1> QED BY <1>1, <1>3, <1>4, <1>5, <1>6, GoesType, TableKept, StepOK

LEMMA PruneStep ==
    ASSUME UInv, NEW c \in Uploads, Prune(c)
    PROVE  UInv'
  <1>1. /\ upload[c] \in Locals /\ Own(c, upload[c]) /\ upload[c].pc = "prune"
        /\ UNCHANGED <<table, staged, pdf, lost, spent>> /\ Returns(c, "unextracted") /\ "unextracted" \in Results
        /\ home' = IF \E p \in staged : p[1] = Owner(c) THEN home ELSE home \ {Owner(c)}
    BY UploadOK DEF Prune, At, Results
  <1>2. TypeOK' /\ FilesOK'
    BY <1>1, ReturnsType DEF UInv, TypeOK, FilesOK, table
  <1>3. Own(c, upload[c])'
    BY <1>1, ReturnsType DEF Own, table
  <1>4. Confined(c)
    BY <1>1, TableKept DEF Confined, table
  <1> QED BY <1>1, <1>2, <1>3, <1>4, ReturnsType, TableKept, StepOK
-----------------------------------------------------------------------------
LEMMA InsertStep ==
    ASSUME UInv, NEW c \in Uploads, Insert(c)
    PROVE  UInv'
  <1> DEFINE k == upload[c].key
  <1>1. /\ upload[c] \in Locals /\ Own(c, upload[c]) /\ upload[c].pc = "insert"
        /\ UNCHANGED <<row, disk, spent>> /\ "commit" \in PCs /\ "duplicate" \in Results
        /\ inserting[k] = NoUpload /\ k \in Keys
    BY UploadOK DEF Insert, At, PCs, Results, Own
  <1>2. RowsAreSpent' /\ OneProfilePerPdf' /\ OnlyFullExtractions' /\ FilesOK'
        /\ \A l : Stored(l)' = Stored(l)
    BY <1>1 DEF UInv, RowsAreSpent, OneProfilePerPdf, OnlyFullExtractions, FilesOK, disk, Stored
  <1>3. CASE Returns(c, "duplicate") /\ Abandons(c) /\ inserting' = inserting
    <2>1. TypeOK'
      BY <1>1, <1>3, ReturnsType, LostType DEF UInv, TypeOK, disk
    <2>2. Own(c, upload[c])'
      BY <1>1, <1>3, ReturnsType DEF Own
    <2>3. Confined(c)
      BY <1>1, <1>2, <1>3 DEF Confined, disk
    <2> QED BY <1>1, <1>2, <1>3, <2>1, <2>2, <2>3, ReturnsType, StepOK
  <1>4. CASE Goes(c, "commit") /\ inserting' = [inserting EXCEPT ![k] = c] /\ Stored(k) = {}
             /\ lost' = lost
    <2>1. TypeOK'
      BY <1>1, <1>4, GoesType DEF UInv, TypeOK, disk
    <2>2. \A l \in Keys : inserting'[l] = IF l = k THEN c ELSE inserting[l]
      BY <1>1, <1>4 DEF UInv, TypeOK
    <2>3. upload'[c].pc = "commit" /\ upload'[c].key = k
      BY <1>1, <1>4, GoesType
    <2>4. Stored(upload[c].key)' = {}
      BY <1>1, <1>4, <2>3 DEF Stored
    <2>5. Own(c, upload[c])'
      BY <1>1, <1>4, <2>2, <2>3, <2>4, GoesType DEF Own, disk
    <2>6. Confined(c)
      BY <1>1, <1>2, <2>2 DEF Confined, disk
    <2> QED BY <1>1, <1>2, <1>4, <2>1, <2>5, <2>6, GoesType, StepOK
  <1> QED BY <1>3, <1>4 DEF Insert

\* Every upload but c keeps its index entry.
LEMMA EntryReleased ==
    ASSUME UInv, NEW c \in Uploads,
           inserting' = [k \in Keys |-> IF inserting[k] = c THEN NoUpload ELSE inserting[k]]
    PROVE  /\ inserting' \in [Keys -> Uploads \cup {NoUpload}]
           /\ \A k \in Keys : inserting'[k] # c
           /\ \A k \in Keys :
                 \/ inserting'[k] = inserting[k]
                 \/ inserting[k] \in {c, NoUpload} /\ inserting'[k] \in {c, NoUpload}
  BY SentinelAssumption DEF UInv, TypeOK

LEMMA FinishStep ==
    ASSUME UInv, NEW c \in Uploads, Finish(c)
    PROVE  UInv'
  <1> DEFINE u == upload[c]
             new == [key |-> u.key, answered |-> u.answered, content |-> "extracted"]
  <1>1. /\ u \in Locals /\ Own(c, u) /\ u.pc = "commit" /\ u.key \in Keys /\ u.id \in Ids
        /\ UNCHANGED <<disk, spent>> /\ "ok" \in Results /\ "refused" \in Results
        /\ inserting[u.key] = c /\ Stored(u.key) = {} /\ PathOf(u) \in pdf /\ u.answered = Sections
        /\ inserting' = [inserting EXCEPT ![u.key] = NoUpload]
    BY UploadOK DEF Finish, At, Results, Own
  <1>2. inserting' = [k \in Keys |-> IF inserting[k] = c THEN NoUpload ELSE inserting[k]]
    BY <1>1 DEF UInv, TypeOK, Own
  <1>3. CASE row' = [row EXCEPT ![u.id] = new] /\ Returns(c, "ok") /\ lost' = lost
    <2>1. new \in Row /\ new # NoRow /\ new.key = u.key /\ new.answered = Sections
      BY <1>1 DEF Row, NoRow
    <2> HIDE DEF new
    <2>2. /\ row' \in [Ids -> Row \cup {NoRow}]
          /\ \A i \in Ids : row'[i] = IF i = u.id THEN new ELSE row[i]
      BY <1>1, <1>3, <2>1 DEF UInv, TypeOK
    <2>3. TypeOK'
      BY <1>1, <1>2, <1>3, <2>2, EntryReleased, ReturnsType DEF UInv, TypeOK, disk
    <2>4. RowsAreSpent' /\ OnlyFullExtractions' /\ FilesOK'
      <3>1. u.id \in spent
        BY <1>1, SentinelAssumption DEF Own
      <3>2. <<new.key[1], u.id>> \in pdf
        BY <1>1, <2>1 DEF PathOf
      <3> QED BY <1>1, <2>1, <2>2, <3>1, <3>2 DEF UInv, RowsAreSpent, OnlyFullExtractions, FilesOK, disk
    <2>5. \A i \in Ids : row[i] # NoRow => row[i].key # u.key
      BY <1>1 DEF Stored
    <2>6. OneProfilePerPdf'
      BY <2>1, <2>2, <2>5 DEF UInv, OneProfilePerPdf
    <2>7. Own(c, upload[c])'
      BY <1>1, <1>2, <1>3, EntryReleased, ReturnsType DEF Own, disk
    <2>8. Confined(c)
      <3>1. \A k \in Keys : k # u.key /\ Stored(k) = {} => Stored(k)' = {}
        BY <2>1, <2>2 DEF Stored
      <3> QED
        BY <1>1, <1>2, <1>3, <2>2, <3>1, EntryReleased, ReturnsType DEF Confined, disk
    <2> QED BY <1>1, <1>3, <2>3, <2>4, <2>6, <2>7, <2>8, ReturnsType, StepOK
  <1>4. CASE Returns(c, "refused") /\ Abandons(c) /\ row' = row
    <2>1. RowsAreSpent' /\ OneProfilePerPdf' /\ OnlyFullExtractions' /\ FilesOK'
          /\ \A l : Stored(l)' = Stored(l)
      BY <1>1, <1>4 DEF UInv, RowsAreSpent, OneProfilePerPdf, OnlyFullExtractions, FilesOK, disk, Stored
    <2>2. TypeOK'
      BY <1>1, <1>2, <1>4, EntryReleased, ReturnsType, LostType DEF UInv, TypeOK, disk
    <2>3. Own(c, upload[c])'
      BY <1>1, <1>2, <1>4, EntryReleased, ReturnsType DEF Own, disk
    <2>4. Confined(c)
      BY <1>1, <1>2, <1>4, <2>1, EntryReleased DEF Confined, disk
    <2> QED BY <1>1, <1>4, <2>1, <2>2, <2>3, <2>4, ReturnsType, StepOK
  <1> QED BY <1>3, <1>4 DEF Finish

LEMMA CrashStep ==
    ASSUME UInv, NEW c \in Uploads, Crash(c)
    PROVE  UInv'
  <1>1. /\ upload[c] \in Locals /\ Own(c, upload[c]) /\ UNCHANGED <<row, disk, spent>>
        /\ Returns(c, "none") /\ "none" \in Results /\ Abandons(c) /\ upload[c].pc # "idle"
        /\ inserting' = [k \in Keys |-> IF inserting[k] = c THEN NoUpload ELSE inserting[k]]
    BY UploadOK DEF Crash, Results, At
  <1>2. RowsAreSpent' /\ OneProfilePerPdf' /\ OnlyFullExtractions' /\ FilesOK'
        /\ \A l : Stored(l)' = Stored(l)
    BY <1>1 DEF UInv, RowsAreSpent, OneProfilePerPdf, OnlyFullExtractions, FilesOK, disk, Stored
  <1>3. TypeOK'
    BY <1>1, EntryReleased, ReturnsType, LostType DEF UInv, TypeOK, disk
  <1>4. Own(c, upload[c])'
    BY <1>1, EntryReleased, ReturnsType DEF Own, disk
  <1>5. Confined(c)
    BY <1>1, <1>2, EntryReleased DEF Confined, disk
  <1> QED BY <1>1, <1>2, <1>3, <1>4, <1>5, ReturnsType, StepOK

\* An edit changes the content of one row.
LEMMA EditFacts ==
    ASSUME UInv, NEW i \in Ids, UpdateProfile(i)
    PROVE  /\ row[i] \in Row /\ row[i] # NoRow /\ row' \in [Ids -> Row \cup {NoRow}]
           /\ \A j \in Ids : /\ row'[j] # NoRow <=> row[j] # NoRow
                             /\ row[j] # NoRow => /\ row'[j].key = row[j].key
                                                  /\ row'[j].answered = row[j].answered
                             /\ row'[j] = IF j = i THEN [row[j] EXCEPT !.content = "edited"] ELSE row[j]
           /\ row'[i].content = "edited"
           /\ \A k : Stored(k)' = Stored(k)
  <1> DEFINE new == [row[i] EXCEPT !.content = "edited"]
  <1>1. row[i] \in Row /\ row[i] # NoRow /\ row \in [Ids -> Row \cup {NoRow}]
        /\ row' = [row EXCEPT ![i] = new]
    BY DEF UpdateProfile, UInv, TypeOK
  <1>2. new \in Row /\ new # NoRow /\ new.key = row[i].key /\ new.answered = row[i].answered
        /\ new.content = "edited"
    BY <1>1 DEF Row, NoRow
  <1> HIDE DEF new
  <1>3. row' \in [Ids -> Row \cup {NoRow}] /\ \A j \in Ids : row'[j] = IF j = i THEN new ELSE row[j]
    BY <1>1, <1>2
  <1>4. \A k : Stored(k)' = Stored(k)
    BY <1>1, <1>2, <1>3 DEF Stored
  <1> QED BY <1>1, <1>2, <1>3, <1>4 DEF new

LEMMA EditStep ==
    ASSUME UInv, NEW i \in Ids, UpdateProfile(i)
    PROVE  UInv'
  <1>1. UNCHANGED <<inserting, files, spent, upload>>
    BY DEF UpdateProfile
  <1>2. TypeOK' /\ DistinctIds'
    BY <1>1, EditFacts DEF UInv, TypeOK, DistinctIds, files
  <1>3. RowsAreSpent' /\ OneProfilePerPdf' /\ OnlyFullExtractions' /\ FilesOK'
    <2>1. \A j \in Ids :
            /\ row'[j] # NoRow <=> row[j] # NoRow
            /\ row[j] # NoRow => row'[j].key = row[j].key /\ row'[j].answered = row[j].answered
      BY EditFacts
    <2>2. FilesOK'
      BY <1>1, <2>1 DEF UInv, FilesOK, files
    <2>3. OneProfilePerPdf'
      BY <2>1 DEF UInv, OneProfilePerPdf
    <2>4. RowsAreSpent' /\ OnlyFullExtractions'
      BY <1>1, <2>1 DEF UInv, RowsAreSpent, OnlyFullExtractions
    <2> QED BY <2>2, <2>3, <2>4
  <1>4. ASSUME NEW c \in Uploads PROVE Own(c, upload[c])'
    <2>1. Own(c, upload[c])
      BY UploadOK
    <2>2. Stored(upload[c].key)' = Stored(upload[c].key)
      BY <1>1, EditFacts DEF Stored
    <2> QED BY <1>1, <2>1, <2>2, EditFacts DEF Own, files
  <1> QED BY <1>2, <1>3, <1>4 DEF UInv, LocalsOK

LEMMA NextUpload ==
    ASSUME UInv, [Next]_vars
    PROVE  UInv'
  <1>1. ASSUME NEW c \in Uploads, MakeDir(c) \/ MakeUserDir(c) \/ WritePdf(c) PROVE UInv'
    BY <1>1, MakeDirStep, MakeUserDirStep, WritePdfStep
  <1>2. ASSUME NEW c \in Uploads, Section(c) \/ ExtractionRaises(c) \/ Assemble(c) PROVE UInv'
    BY <1>2, SectionStep, ExtractionRaisesStep, AssembleStep
  <1>3. ASSUME NEW c \in Uploads, RemoveTree(c) \/ Prune(c) \/ Crash(c) PROVE UInv'
    BY <1>3, RemoveTreeStep, PruneStep, CrashStep
  <1>4. ASSUME NEW c \in Uploads, Insert(c) \/ Finish(c) PROVE UInv'
    BY <1>4, InsertStep, FinishStep
  <1>5. ASSUME NEW c \in Uploads, NEW k \in Keys, Check(c, k) PROVE UInv'
    BY <1>5, CheckStep
  <1>6. ASSUME NEW i \in Ids, UpdateProfile(i) PROVE UInv'
    BY <1>6, EditStep
  <1>7. CASE UNCHANGED vars
    <2>1. ASSUME NEW c \in Uploads PROVE Own(c, upload[c])'
      BY <1>7, UploadOK DEF Own, Stored, vars
    <2>2. TypeOK' /\ DistinctIds' /\ RowsAreSpent' /\ FilesOK' /\ OneProfilePerPdf' /\ OnlyFullExtractions'
      BY <1>7 DEF UInv, TypeOK, DistinctIds, RowsAreSpent, FilesOK, OneProfilePerPdf, OnlyFullExtractions, vars
    <2> QED BY <2>1, <2>2 DEF UInv, LocalsOK
  <1> QED BY <1>1, <1>2, <1>3, <1>4, <1>5, <1>6, <1>7 DEF Next, Step

LEMMA Invariance == Spec => []UInv
  <1>1. UInv /\ [Next]_vars => UInv'
    BY NextUpload
  <1> QED BY <1>1, InitUpload, PTL DEF Spec
-----------------------------------------------------------------------------
(***************************************************************************)
(* Type correctness; of resume it says that the transforms, on whatever    *)
(* the provider answers, return sections of the kinds the schema is put to.*)
(***************************************************************************)
THEOREM UploadTypes == Spec => []TypeOK
  <1>1. UInv => TypeOK
    BY DEF UInv
  <1> QED BY <1>1, Invariance, PTL

(***************************************************************************)
(* The PDF of every stored profile, and of every upload still working on   *)
(* it, is there: cleanups of other uploads (delete_pdf) spare it.          *)
(***************************************************************************)
THEOREM PdfsStay == Spec => []StoredPdfs
  <1>1. UInv => StoredPdfs
    <2> SUFFICES ASSUME UInv PROVE StoredPdfs
      OBVIOUS
    <2>1. \A c \in Uploads : upload[c].pc \in {"section", "insert", "commit"} => Path(c) \in pdf
      BY UploadOK DEF Own, Path, PathOf, Owner
    <2> QED BY <2>1 DEF UInv, StoredPdfs, FilesOK
  <1> QED BY <1>1, Invariance, PTL

(***************************************************************************)
(* One profile per user and PDF, however many uploads of it race: the      *)
(* sha256 check alone would not do, the partial unique index does.         *)
(***************************************************************************)
THEOREM OneProfile == Spec => []OneProfilePerPdf
  <1>1. UInv => OneProfilePerPdf
    BY DEF UInv
  <1> QED BY <1>1, Invariance, PTL

(***************************************************************************)
(* Every row's extraction had an answer to every section (extraction.py).  *)
(***************************************************************************)
THEOREM RowsAreComplete == Spec => []OnlyFullExtractions
  <1>1. UInv => OnlyFullExtractions
    BY DEF UInv
  <1> QED BY <1>1, Invariance, PTL

\* With it, that what rmtree left behind is known when the user's directory is pruned.
Leftovers ==
    /\ LeftoversAreKnown
    /\ \A c \in Uploads : upload[c].pc = "prune" => upload[c].id \in lost \/ Path(c) \notin staged

\* A step of a running upload stages no directory but its own and, when it returns,
\* leaves it removed, known or stored.
LEMMA LeftoversStep ==
    ASSUME UInv, UInv', Leftovers, NEW c \in Uploads, upload[c].pc # "idle",
           \A p \in staged' : p \in staged \/ p = Path(c),
           lost \subseteq lost', \A i \in Ids : row[i] # NoRow => row'[i] # NoRow,
           NEW q, Moves(c, q), q.id = upload[c].id, q.key = upload[c].key,
           q.pc = "idle" => \/ Path(c) \notin staged' \/ upload[c].id \in lost'
                            \/ row'[upload[c].id] # NoRow,
           q.pc = "prune" => upload[c].id \in lost' \/ Path(c) \notin staged'
    PROVE  Leftovers'
  <1>1. /\ \A d \in Uploads : upload'[d] = IF d = c THEN q ELSE upload[d]
        /\ \A d \in Uploads : upload'[d].id = upload[d].id /\ upload'[d].key = upload[d].key
    BY DEF UInv, TypeOK, Moves
  <1>2. \A d \in Uploads : Path(d)' = Path(d)
    BY <1>1 DEF Path, Owner
  <1>3. Path(c) = <<upload[c].key[1], upload[c].id>> /\ upload[c].id \in Ids
    BY PathFacts DEF PathOf
  <1>4. \A p \in staged' : p[2] \in Ids
    BY DEF UInv, TypeOK
  <1>5. ASSUME NEW p \in staged'
        PROVE  \/ row'[p[2]] # NoRow \/ p[2] \in lost'
               \/ \E d \in Uploads : upload'[d].pc # "idle" /\ Path(d)' = p
    <2>1. CASE p = Path(c)
      BY <1>1, <1>2, <1>3, <1>5, <2>1
    <2>2. CASE p # Path(c) /\ p \in staged
      <3>1. CASE row[p[2]] # NoRow \/ p[2] \in lost
        BY <1>4, <3>1
      <3>2. CASE \E d \in Uploads : upload[d].pc # "idle" /\ Path(d) = p
        <4>1. PICK d \in Uploads : upload[d].pc # "idle" /\ Path(d) = p
          BY <3>2
        <4>2. d # c
          BY <2>2, <4>1
        <4> QED BY <1>1, <1>2, <4>1, <4>2
      <3> QED BY <2>2, <3>1, <3>2 DEF Leftovers, LeftoversAreKnown, At
    <2> QED BY <2>1, <2>2
  <1>6. LeftoversAreKnown'
    BY <1>5 DEF LeftoversAreKnown, At
  <1>7. ASSUME NEW d \in Uploads, upload'[d].pc = "prune"
        PROVE  upload'[d].id \in lost' \/ Path(d)' \notin staged'
    <2>1. CASE d = c
      BY <1>1, <1>2, <1>7, <2>1
    <2>2. CASE d # c
      <3>1. upload[d].pc = "prune" /\ upload[d].id # upload[c].id
        BY <1>1, <1>3, <1>7, <2>2, SentinelAssumption DEF UInv, DistinctIds
      <3>2. Path(d) # Path(c)
        BY <3>1 DEF Path
      <3> QED BY <1>1, <1>2, <3>1, <3>2 DEF Leftovers
    <2> QED BY <2>1, <2>2
  <1> QED BY <1>6, <1>7 DEF Leftovers

LEMMA LeftoversNext ==
    ASSUME UInv, UInv', Leftovers, [Next]_vars
    PROVE  Leftovers'
  <1>1. ASSUME NEW c \in Uploads, upload[c].pc # "idle", NEW pc \in PCs \ {"idle", "prune"},
               Goes(c, pc), UNCHANGED <<row, lost>>, \A p \in staged' : p \in staged \/ p = Path(c)
        PROVE  Leftovers'
    BY <1>1, GoesType, LeftoversStep
  <1>2. ASSUME NEW c \in Uploads, upload[c].pc # "idle", NEW result \in Results,
               Returns(c, result), \A i \in Ids : row[i] # NoRow => row'[i] # NoRow,
               lost \subseteq lost', staged' = staged,
               \/ Path(c) \notin staged \/ upload[c].id \in lost' \/ row'[upload[c].id] # NoRow
        PROVE  Leftovers'
    BY <1>2, ReturnsType, LeftoversStep
  <1>3. ASSUME NEW c \in Uploads, upload[c].pc # "idle", Abandons(c)
        PROVE  lost \subseteq lost' /\ (Path(c) \notin staged \/ upload[c].id \in lost')
    BY <1>3 DEF Abandons
  <1>4. ASSUME NEW c \in Uploads, MakeDir(c) \/ MakeUserDir(c) PROVE Leftovers'
    <2>1. CASE Goes(c, "write") \/ Goes(c, "mkdirUser") \/ Goes(c, "mkdirAgain")
      BY <1>1, <1>4, <2>1 DEF MakeDir, MakeUserDir, At, PCs, table
    <2>2. CASE Returns(c, "refused") /\ At(c, "mkdirAgain") /\ Owner(c) \notin home
      <3>1. upload[c].pc # "idle" /\ "refused" \in Results /\ UNCHANGED <<table, staged, lost>>
        BY <1>4, <2>2 DEF MakeDir, MakeUserDir, At, Results
      <3>2. Path(c) \notin staged
        BY <2>2, <3>1, PathFacts DEF UInv, FilesOK
      <3> QED BY <1>2, <2>2, <3>1, <3>2 DEF table
    <2> QED BY <1>4, <2>1, <2>2 DEF MakeDir, MakeUserDir, At
  <1>5. ASSUME NEW c \in Uploads, WritePdf(c) PROVE Leftovers'
    <2>1. upload[c].pc # "idle" /\ "refused" \in Results /\ UNCHANGED <<table, staged>>
      BY <1>5 DEF WritePdf, At, Results
    <2>2. CASE Goes(c, "section") /\ lost' = lost
      BY <1>1, <2>1, <2>2 DEF PCs, table
    <2>3. CASE Returns(c, "refused") /\ Abandons(c)
      BY <1>2, <1>3, <2>1, <2>3 DEF table
    <2> QED BY <1>5, <2>2, <2>3 DEF WritePdf
  <1>6. ASSUME NEW c \in Uploads, Section(c) PROVE Leftovers'
    <2>1. upload[c].pc = "section" /\ upload[c] \in Locals /\ UNCHANGED <<table, files>>
      BY <1>6, UploadOK DEF Section, At
    <2>2. CASE Goes(c, "rmtree")
      BY <1>1, <2>1, <2>2 DEF PCs, table, files
    <2>3. ASSUME NEW q, Moves(c, q), q.pc = "section", q.id = upload[c].id, q.key = upload[c].key
          PROVE  Leftovers'
      BY <2>1, <2>3, LeftoversStep DEF table, files
    <2>4. ASSUME NEW a \in RawAnswers, Moves(c, Answered(upload[c], a)) PROVE Leftovers'
      <3> DEFINE q == Answered(upload[c], a)
      <3>1. q.pc = "section" /\ q.id = upload[c].id /\ q.key = upload[c].key
        BY <2>1 DEF Answered, Locals
      <3> HIDE DEF q
      <3> QED BY <2>3, <2>4, <3>1 DEF q
    <2>5. CASE Moves(c, [upload[c] EXCEPT !.retried = TRUE])
      <3> DEFINE q == [upload[c] EXCEPT !.retried = TRUE]
      <3>1. q.pc = "section" /\ q.id = upload[c].id /\ q.key = upload[c].key
        BY <2>1 DEF Locals
      <3> HIDE DEF q
      <3> QED BY <2>3, <2>5, <3>1 DEF q
    <2> QED BY <1>6, <2>2, <2>4, <2>5 DEF Section
  <1>7. ASSUME NEW c \in Uploads, ExtractionRaises(c) PROVE Leftovers'
    BY <1>1, <1>7 DEF ExtractionRaises, At, PCs, table, files
  <1>8. ASSUME NEW c \in Uploads, Assemble(c) PROVE Leftovers'
    <2> DEFINE resume == Assembled(upload[c].resume)
               found == upload[c].found \ (IF resume = upload[c].resume THEN {} ELSE {"basics"})
               q == [upload[c] EXCEPT !.pc = "insert", !.resume = resume, !.found = found]
    <2>1. upload[c].pc = "section" /\ upload[c] \in Locals /\ UNCHANGED <<table, files>>
      BY <1>8, UploadOK DEF Assemble, At
    <2>2. CASE Goes(c, "rmtree")
      BY <1>1, <2>1, <2>2 DEF PCs, table, files
    <2>3. CASE Moves(c, q)
      <3> HIDE DEF resume, found
      <3>1. q.pc = "insert" /\ q.id = upload[c].id /\ q.key = upload[c].key
        BY <2>1 DEF Locals
      <3> HIDE DEF q
      <3> QED BY <2>1, <2>3, <3>1, LeftoversStep DEF table, files
    <2> QED BY <1>8, <2>2, <2>3 DEF Assemble
  <1>9. ASSUME NEW c \in Uploads, RemoveTree(c) PROVE Leftovers'
    <2>1. /\ upload[c].pc # "idle" /\ "prune" \in PCs /\ Goes(c, "prune") /\ row' = row
          /\ staged' \subseteq staged /\ lost \subseteq lost'
          /\ upload[c].id \in lost' \/ Path(c) \notin staged'
      BY <1>3, <1>9 DEF RemoveTree, At, PCs, table
    <2> QED BY <2>1, GoesType, LeftoversStep
  <1>10. ASSUME NEW c \in Uploads, Prune(c) PROVE Leftovers'
    BY <1>2, <1>10 DEF Prune, At, Results, table, Leftovers
  <1>11. ASSUME NEW c \in Uploads, Insert(c) PROVE Leftovers'
    <2>1. upload[c].pc # "idle" /\ "duplicate" \in Results /\ UNCHANGED <<row, disk>>
      BY <1>11 DEF Insert, At, Results
    <2>2. CASE Goes(c, "commit") /\ lost' = lost
      BY <1>1, <2>1, <2>2 DEF PCs, disk
    <2>3. CASE Returns(c, "duplicate") /\ Abandons(c)
      BY <1>2, <1>3, <2>1, <2>3 DEF disk
    <2> QED BY <1>11, <2>2, <2>3 DEF Insert
  <1>12. ASSUME NEW c \in Uploads, Finish(c) PROVE Leftovers'
    <2> DEFINE new == [key |-> upload[c].key, answered |-> upload[c].answered, content |-> "extracted"]
    <2>1. /\ upload[c].pc # "idle" /\ upload[c].id \in Ids /\ "ok" \in Results /\ "refused" \in Results
          /\ UNCHANGED disk
      BY <1>12, PathFacts DEF Finish, At, Results
    <2>2. CASE row' = [row EXCEPT ![upload[c].id] = new] /\ Returns(c, "ok") /\ lost' = lost
      <3>1. new # NoRow
        BY DEF NoRow
      <3> HIDE DEF new
      <3>2. /\ row'[upload[c].id] # NoRow
            /\ \A i \in Ids : row[i] # NoRow => row'[i] # NoRow
        BY <2>1, <2>2, <3>1 DEF UInv, TypeOK
      <3> QED BY <1>2, <2>1, <2>2, <3>2 DEF disk
    <2>3. CASE Returns(c, "refused") /\ Abandons(c) /\ row' = row
      BY <1>2, <1>3, <2>1, <2>3 DEF disk
    <2> QED BY <1>12, <2>2, <2>3 DEF Finish
  <1>13. ASSUME NEW c \in Uploads, Crash(c) PROVE Leftovers'
    BY <1>2, <1>3, <1>13 DEF Crash, At, Results, disk
  <1>14. ASSUME NEW c \in Uploads, NEW k \in Keys, Check(c, k) PROVE Leftovers'
    <2>1. /\ upload[c].pc = "idle" /\ UNCHANGED <<row, staged, lost>>
          /\ \A d \in Uploads : d # c => upload'[d] = upload[d]
      BY <1>14 DEF Check, At, Moves, table, files, UInv, TypeOK
    <2>2. upload'[c].pc # "prune"
      BY <1>14 DEF Check, Moves, Fresh, UInv, TypeOK
    <2>3. LeftoversAreKnown'
      BY <2>1 DEF Leftovers, LeftoversAreKnown, At, Path, Owner
    <2> QED BY <2>1, <2>2, <2>3 DEF Leftovers, Path, Owner
  <1>15. ASSUME NEW i \in Ids, UpdateProfile(i) PROVE Leftovers'
    <2>1. UNCHANGED <<staged, lost, upload>> /\ \A j \in Ids : row[j] # NoRow => row'[j] # NoRow
      BY <1>15, EditFacts DEF UpdateProfile, files
    <2>2. \A p \in staged : p[2] \in Ids
      BY DEF UInv, TypeOK
    <2> QED BY <2>1, <2>2 DEF Leftovers, LeftoversAreKnown, At, Path, Owner
  <1>16. CASE UNCHANGED vars
    BY <1>16 DEF vars, Leftovers, LeftoversAreKnown, At, Path, Owner
  <1> QED BY <1>4, <1>5, <1>6, <1>7, <1>8, <1>9, <1>10, <1>11, <1>12, <1>13, <1>14, <1>15, <1>16
          DEF Next, Step

(***************************************************************************)
(* Whatever is left over has one of the three causes: delete_pdf and every *)
(* other way out of an upload leave nothing unnoticed (storage.py,         *)
(* profiles.py).                                                           *)
(***************************************************************************)
THEOREM LeftoversHaveACause == Spec => []LeftoversAreKnown
  <1>1. Init => Leftovers
    BY SentinelAssumption DEF Init, Leftovers, LeftoversAreKnown, Fresh
  <1>2. UInv /\ UInv' /\ Leftovers /\ [Next]_vars => Leftovers'
    BY LeftoversNext
  <1>3. Leftovers => LeftoversAreKnown
    BY DEF Leftovers
  <1> QED BY <1>1, <1>2, <1>3, Invariance, PTL DEF Spec

(***************************************************************************)
(* The rows implement the store of profiles: a second upload of a PDF adds *)
(* none and undoes no edit (profiles.py, PUT /api/profiles/{id}).          *)
(***************************************************************************)
THEOREM UploadsImplementStore == Spec => ImplementsProfileStore
  <1> DEFINE profile == [k \in Keys |-> {<<i, row[i].content>> : i \in Stored(k)}]
  <1>1. Init => Profiles!Init
    <2> SUFFICES ASSUME Init PROVE profile = [k \in Keys |-> {}]
      BY DEF Profiles!Init
    <2>1. \A k \in Keys : Stored(k) = {}
      BY DEF Init, Stored
    <2> QED BY <2>1
  <1>2. ASSUME UInv, [Next]_vars
        PROVE  [Profiles!Next]_profile
    <2>1. CASE row' = row
      <3>1. \A k \in Keys : Stored(k)' = Stored(k)
        BY <2>1 DEF Stored
      <3>2. profile' = profile
        BY <2>1, <3>1
      <3> QED BY <3>2
    <2>2. ASSUME NEW i \in Ids, UpdateProfile(i)
          PROVE  \E k \in Keys : Profiles!Edit(k, i)
      <3>1. PICK k \in Keys : k = row[i].key
        BY <1>2, <2>2, EditFacts DEF Row
      <3>2. row[i] \in Row /\ row[i] # NoRow /\ k \in Keys /\ row'[i].content = "edited"
            /\ \A l : Stored(l)' = Stored(l)
            /\ \A j \in Ids : j # i => row'[j] = row[j]
        BY <1>2, <2>2, EditFacts DEF Row
      <3>3. Stored(k) = {i} /\ \A l \in Keys : l # k => i \notin Stored(l)
        BY <1>2, <3>1, <3>2 DEF UInv, OneProfilePerPdf, Stored
      <3>4. profile' = [profile EXCEPT ![k] = {<<i, "edited">>}]
        <4>1. {<<j, row'[j].content>> : j \in Stored(k)'} = {<<i, "edited">>}
          BY <3>2, <3>3
        <4>2. ASSUME NEW l \in Keys, l # k
              PROVE  {<<j, row'[j].content>> : j \in Stored(l)'} = {<<j, row[j].content>> : j \in Stored(l)}
          <5>1. \A j \in Stored(l) : row'[j] = row[j]
            BY <3>2, <3>3, <4>2 DEF Stored
          <5> QED BY <3>2, <5>1
        <4> QED BY <4>1, <4>2
      <3>5. \E p \in profile[k] : p[1] = i
        <4>1. <<i, row[i].content>> \in profile[k] /\ <<i, row[i].content>>[1] = i
          BY <3>1, <3>3
        <4> QED BY <4>1
      <3> QED BY <3>1, <3>4, <3>5 DEF Profiles!Edit
    <2>3. ASSUME NEW c \in Uploads, Finish(c), row' # row
          PROVE  \E k \in Keys, i \in Ids : Profiles!Create(k, i)
      <3>0. PICK k, i : k = upload[c].key /\ i = upload[c].id
        OBVIOUS
      <3>1. /\ k \in Keys /\ i \in Ids /\ Stored(k) = {} /\ row[i] = NoRow
            /\ row \in [Ids -> Row \cup {NoRow}]
            /\ row' = [row EXCEPT ![i] = [key |-> k, answered |-> upload[c].answered,
                                          content |-> "extracted"]]
        BY <1>2, <2>3, <3>0, UploadOK DEF Own, Finish, At, UInv, TypeOK
      <3>2. /\ row'[i].key = k /\ row'[i].content = "extracted" /\ row'[i] # NoRow
            /\ \A j \in Ids : j # i => row'[j] = row[j]
        BY <3>1 DEF NoRow
      <3>3. Stored(k)' = {i} /\ \A l \in Keys : l # k => Stored(l)' = Stored(l)
        BY <3>1, <3>2 DEF Stored
      <3>4. \A l \in Keys : i \notin Stored(l)
        BY <3>1 DEF Stored
      <3>5. profile' = [profile EXCEPT ![k] = {<<i, "extracted">>}]
        <4>1. {<<j, row'[j].content>> : j \in Stored(k)'} = {<<i, "extracted">>}
          BY <3>2, <3>3
        <4>2. ASSUME NEW l \in Keys, l # k
              PROVE  {<<j, row'[j].content>> : j \in Stored(l)'} = {<<j, row[j].content>> : j \in Stored(l)}
          <5>1. \A j \in Stored(l) : row'[j] = row[j]
            BY <3>2, <3>4, <4>2 DEF Stored
          <5> QED BY <3>3, <4>2, <5>1
        <4> QED BY <4>1, <4>2
      <3>6. profile[k] = {} /\ \A l \in Keys : \A p \in profile[l] : p[1] # i
        BY <3>1, <3>4
      <3> QED BY <3>1, <3>5, <3>6 DEF Profiles!Create
    <2> QED
      BY <1>2, <2>1, <2>2, <2>3
         DEF Next, Step, vars, table, Profiles!Next, Check, MakeDir, MakeUserDir, WritePdf, Section,
             ExtractionRaises, Assemble, RemoveTree, Prune, Insert, Crash
  <1> QED BY <1>1, <1>2, Invariance, PTL DEF Spec, ImplementsProfileStore, Profiles!Spec
-----------------------------------------------------------------------------
(***************************************************************************)
(* How much an upload may still do: the safety half of UploadEnds.         *)
(***************************************************************************)
Sects == Len(SectionOrder)

Work(u) ==
    CASE u.pc = "mkdir" -> 2 * Sects + 8
      [] u.pc = "mkdirUser" -> 2 * Sects + 7
      [] u.pc = "mkdirAgain" -> 2 * Sects + 6
      [] u.pc = "write" -> 2 * Sects + 5
      [] u.pc = "section" -> 2 * (Sects - u.asked) + (IF u.retried THEN 3 ELSE 4)
      [] u.pc \in {"rmtree", "insert"} -> 2
      [] u.pc \in {"prune", "commit"} -> 1
      [] OTHER -> 0

LEMMA WorkType ==
    ASSUME NEW u \in Locals
    PROVE  Work(u) \in Nat /\ Work(u) <= 2 * Sects + 8
  <1>1. Sects \in Nat /\ u.asked \in 0..Sects /\ u.retried \in BOOLEAN /\ u.pc \in PCs
    BY SectionOrderType DEF Locals, Sects
  <1>2. CASE u.pc = "section"
    <2>1. Work(u) = 2 * (Sects - u.asked) + (IF u.retried THEN 3 ELSE 4)
      BY <1>2 DEF Work
    <2> HIDE DEF Sects
    <2> QED BY <1>1, <2>1
  <1>3. CASE u.pc # "section"
    <2>1. Work(u) \in {2 * Sects + 8, 2 * Sects + 7, 2 * Sects + 6, 2 * Sects + 5, 2, 1, 0}
      BY <1>1, <1>3 DEF Work, PCs
    <2> HIDE DEF Sects
    <2> QED BY <1>1, <2>1
  <1> QED BY <1>2, <1>3

\* A step of an upload changes the locals of no other.
LEMMA OthersStay ==
    ASSUME TypeOK, NEW c \in Uploads,
           Step(c) \/ Crash(c) \/ \E k \in Keys : Check(c, k),
           NEW d \in Uploads, d # c
    PROVE  upload'[d] = upload[d]
  <1>1. \A q : Moves(c, q) => upload'[d] = upload[d]
    BY DEF Moves, TypeOK
  <1>2. \A pc, result : Goes(c, pc) \/ Returns(c, result) => upload'[d] = upload[d]
    BY <1>1 DEF Goes, Returns
  <1> QED
    BY <1>1, <1>2 DEF Step, Crash, Check, MakeDir, MakeUserDir, WritePdf, Section, ExtractionRaises,
       Assemble, RemoveTree, Prune, Insert, Finish

\* Every step of an upload leaves it less to do.
LEMMA StepIsLess ==
    ASSUME TypeOK, NEW c \in Uploads, Step(c)
    PROVE  Work(upload'[c]) < Work(upload[c])
  <1> DEFINE u == upload[c]
             L == Sects
  <1>1. u \in Locals /\ L \in Nat /\ u.asked \in 0..L /\ u.retried \in BOOLEAN
    BY SectionOrderType DEF TypeOK, Locals, Sects
  <1>2. \A q : Moves(c, q) => upload'[c] = q
    BY DEF Moves, TypeOK
  <1>3. ASSUME NEW pc \in PCs, Goes(c, pc)
        PROVE  /\ upload'[c].pc = pc /\ upload'[c].asked = u.asked
               /\ upload'[c].retried = u.retried
    BY <1>1, <1>2, <1>3 DEF Goes, Locals
  <1>4. ASSUME NEW result, Returns(c, result)
        PROVE  Work(upload'[c]) = 0
    BY <1>2, <1>4 DEF Returns, Fresh, Work
  <1>5. Work(u) \in Nat
    BY <1>1, WorkType
  <1>6. CASE MakeDir(c)
    <2>1. Work(u) \in {2 * L + 8, 2 * L + 6} /\ (At(c, "mkdir") => Work(u) = 2 * L + 8)
      BY <1>6 DEF MakeDir, At, Work
    <2>2. \/ upload'[c].pc = "write" \/ Work(upload'[c]) = 0
          \/ At(c, "mkdir") /\ upload'[c].pc = "mkdirUser"
      BY <1>3, <1>4, <1>6 DEF MakeDir, PCs
    <2>3. \/ Work(upload'[c]) = 2 * L + 5 \/ Work(upload'[c]) = 0
          \/ At(c, "mkdir") /\ Work(upload'[c]) = 2 * L + 7
      BY <2>2 DEF Work
    <2> HIDE DEF L
    <2> QED BY <1>1, <2>1, <2>3
  <1>7. CASE MakeUserDir(c)
    <2>1. u.pc = "mkdirUser" /\ upload'[c].pc = "mkdirAgain"
      BY <1>3, <1>7 DEF MakeUserDir, At, PCs
    <2>2. Work(u) = 2 * L + 7 /\ Work(upload'[c]) = 2 * L + 6
      BY <2>1 DEF Work
    <2> HIDE DEF L
    <2> QED BY <1>1, <2>2
  <1>8. CASE WritePdf(c)
    <2>1. u.pc = "write" /\ (Work(upload'[c]) = 0 \/ upload'[c].pc = "section")
      BY <1>3, <1>4, <1>8 DEF WritePdf, At, PCs
    <2>2. upload'[c].pc = "section" => upload'[c].asked = u.asked /\ upload'[c].retried = u.retried
      BY <1>3, <1>8, <1>2 DEF WritePdf, PCs, Returns, Fresh
    <2>3. /\ Work(u) = 2 * L + 5
          /\ \/ Work(upload'[c]) = 0
             \/ Work(upload'[c]) = 2 * (L - u.asked) + (IF u.retried THEN 3 ELSE 4)
      BY <2>1, <2>2 DEF Work
    <2> HIDE DEF L
    <2> QED BY <1>1, <2>3
  <1>9. ASSUME u.pc = "section"
        PROVE  /\ Work(u) = 2 * (L - u.asked) + (IF u.retried THEN 3 ELSE 4)
               /\ Work(u) > 2
    <2>1. Work(u) = 2 * (L - u.asked) + (IF u.retried THEN 3 ELSE 4)
      BY <1>9 DEF Work
    <2> HIDE DEF L
    <2> QED BY <1>1, <2>1
  <1>10. CASE Section(c)
    <2>1. u.pc = "section" /\ u.asked < L
      BY <1>10 DEF Section, At, Sects
    <2>2. CASE \E a \in RawAnswers : Moves(c, Answered(u, a))
      <3>1. PICK a \in RawAnswers : upload'[c] = Answered(u, a)
        BY <1>2, <2>2
      <3>2. /\ upload'[c].pc = "section" /\ upload'[c].asked = u.asked + 1
            /\ upload'[c].retried = FALSE
        BY <1>1, <2>1, <3>1 DEF Answered, Locals
      <3>3. Work(upload'[c]) = 2 * (L - (u.asked + 1)) + 4
        BY <3>2 DEF Work
      <3> HIDE DEF L
      <3> QED BY <1>1, <1>9, <2>1, <3>3
    <2>3. CASE ~u.retried /\ Moves(c, [u EXCEPT !.retried = TRUE])
      <3>1. upload'[c].pc = "section" /\ upload'[c].asked = u.asked /\ upload'[c].retried = TRUE
        BY <1>1, <1>2, <2>1, <2>3 DEF Locals
      <3>2. Work(upload'[c]) = 2 * (L - u.asked) + 3
        BY <3>1 DEF Work
      <3> HIDE DEF L
      <3> QED BY <1>1, <1>9, <2>1, <2>3, <3>2
    <2>4. CASE Goes(c, "rmtree")
      BY <1>3, <1>9, <2>1, <2>4 DEF PCs, Work
    <2> QED BY <1>10, <2>2, <2>3, <2>4 DEF Section
  <1>11. CASE ExtractionRaises(c)
    BY <1>3, <1>9, <1>11 DEF ExtractionRaises, At, PCs, Work
  <1>12. CASE Assemble(c)
    <2>1. u.pc = "section" /\ upload'[c].pc \in {"rmtree", "insert"}
      <3>1. CASE Goes(c, "rmtree")
        BY <1>3, <1>12, <3>1 DEF Assemble, At, PCs
      <3>2. CASE ~Rejected(Assembled(u.resume))
        <4>1. PICK resume, found :
                 upload'[c] = [u EXCEPT !.pc = "insert", !.resume = resume, !.found = found]
          BY <1>2, <1>12, <3>2 DEF Assemble
        <4> QED BY <1>1, <1>12, <4>1 DEF Assemble, At, Locals
      <3> QED BY <1>12, <3>1, <3>2 DEF Assemble
    <2>2. Work(upload'[c]) = 2
      BY <2>1 DEF Work
    <2> QED BY <1>9, <2>1, <2>2
  <1>13. CASE RemoveTree(c)
    BY <1>3, <1>13 DEF RemoveTree, At, PCs, Work
  <1>14. CASE Prune(c)
    BY <1>4, <1>14 DEF Prune, At, Work
  <1>15. CASE Insert(c)
    <2>1. u.pc = "insert" /\ (Work(upload'[c]) = 0 \/ upload'[c].pc = "commit")
      BY <1>3, <1>4, <1>15 DEF Insert, At, PCs
    <2> QED BY <2>1 DEF Work
  <1>16. CASE Finish(c)
    <2>1. u.pc = "commit" /\ Work(upload'[c]) = 0
      BY <1>4, <1>16 DEF Finish, At
    <2> QED BY <2>1 DEF Work
  <1> QED BY <1>6, <1>7, <1>8, <1>10, <1>11, <1>12, <1>13, <1>14, <1>15, <1>16 DEF Step

\* Every step of an upload leaves it less to do, and no step of a peer leaves it more.
WorkShrinks == \A c \in Uploads :
    /\ Work(upload[c]) \in 0..(2 * Len(SectionOrder) + 8)
    /\ Step(c) => Work(upload'[c]) < Work(upload[c])
    /\ (\E k \in Keys : Check(c, k)) \/ Work(upload'[c]) <= Work(upload[c])

(***************************************************************************)
(* An upload takes at most 2n + 8 steps of its own for n sections: a       *)
(* section is asked twice at most (extraction.py lines 274 to 299), mkdir  *)
(* goes to the parent once, and the cleanup is not tried again.  Of        *)
(* UploadEnds this is the part that no fairness is needed for.             *)
(***************************************************************************)
THEOREM UploadsRunOut == Spec => [][WorkShrinks]_vars
  <1>1. ASSUME UInv, UInv', [Next]_vars
        PROVE  [WorkShrinks]_vars
    <2>1. /\ TypeOK /\ \A c \in Uploads : upload[c] \in Locals /\ upload'[c] \in Locals
      BY <1>1 DEF UInv, TypeOK
    <2>2. \A c \in Uploads : /\ Work(upload[c]) \in Nat /\ Work(upload'[c]) \in Nat
                             /\ Work(upload[c]) <= 2 * Len(SectionOrder) + 8
      BY <2>1, WorkType DEF Sects
    <2>3. \A c \in Uploads : Work(upload[c]) \in 0..(2 * Len(SectionOrder) + 8)
      BY <2>2, SectionOrderType
    <2>4. \A c \in Uploads : Step(c) => Work(upload'[c]) < Work(upload[c])
      BY <2>1, StepIsLess
    <2>5. ASSUME NEW c \in Uploads, Step(c) \/ Crash(c) \/ \E k \in Keys : Check(c, k)
          PROVE  \A d \in Uploads : (\E k \in Keys : Check(d, k)) \/ Work(upload'[d]) <= Work(upload[d])
      <3>1. \A d \in Uploads : d # c => Work(upload'[d]) <= Work(upload[d])
        BY <2>1, <2>2, <2>5, OthersStay
      <3>2. CASE Step(c)
        BY <2>2, <2>4, <3>1, <3>2
      <3>3. CASE Crash(c)
        <4>1. PICK k, i : upload'[c] = Fresh(k, i, "idle", "none")
          BY <2>1, <3>3 DEF Crash, Returns, Moves, TypeOK
        <4>2. Work(upload'[c]) = 0
          BY <4>1 DEF Fresh, Work
        <4> QED BY <2>2, <3>1, <4>2
      <3> QED BY <2>5, <3>1, <3>2, <3>3
    <2>6. CASE UNCHANGED upload
      BY <2>2, <2>3, <2>4, <2>6 DEF WorkShrinks
    <2> QED BY <1>1, <2>3, <2>4, <2>5, <2>6 DEF Next, UpdateProfile, vars, WorkShrinks
  <1> QED BY <1>1, Invariance, PTL DEF Spec
-----------------------------------------------------------------------------
(***************************************************************************)
(* What NoPartialResume misses is only that answers keep to the section    *)
(* they were asked for.                                                    *)
(***************************************************************************)
KeepsToItsSection == \A c \in Uploads :
    At(c, "section") /\ upload'[c].asked # upload[c].asked =>
        \A s \in ResumeKeys \ {SectionOrder[upload[c].asked + 1]} :
            upload'[c].resume[s] = upload[c].resume[s]

\* What was found is in the resume, which has nothing yet for a section not asked for.
Whole(u) ==
    u.pc \in {"mkdir", "mkdirUser", "mkdirAgain", "write", "section", "insert"} =>
        /\ u.found \subseteq Content(u.resume)
        /\ u.pc # "insert" =>
              \A s \in ResumeKeys : s \notin {SectionOrder[j] : j \in 1..u.asked} => u.resume[s] = "none"

WholeResumes == \A c \in Uploads : Whole(upload[c])

LEMMA WholeMoves ==
    ASSUME TypeOK, WholeResumes, NEW c \in Uploads, NEW q, Moves(c, q), Whole(q)
    PROVE  WholeResumes'
  <1>1. upload'[c] = q /\ \A d \in Uploads : d # c => upload'[d] = upload[d]
    BY DEF Moves, TypeOK
  <1>2. \A d \in Uploads : Whole(upload'[d])
    BY <1>1 DEF WholeResumes
  <1> QED BY <1>2 DEF WholeResumes, Whole, Content

LEMMA WholeGoes ==
    ASSUME TypeOK, WholeResumes, NEW c \in Uploads, NEW pc \in PCs, Goes(c, pc),
           \/ pc \notin {"mkdir", "mkdirUser", "mkdirAgain", "write", "section", "insert"}
           \/ /\ upload[c].pc \in {"mkdir", "mkdirUser", "mkdirAgain", "write", "section"}
              /\ pc # "insert"
    PROVE  WholeResumes'
  <1> DEFINE q == [upload[c] EXCEPT !.pc = pc]
  <1>1. /\ q.pc = pc /\ q.found = upload[c].found /\ q.resume = upload[c].resume
        /\ q.asked = upload[c].asked
    BY DEF TypeOK, Locals
  <1>2. Moves(c, q)
    BY DEF Goes
  <1> HIDE DEF q
  <1>3. Whole(upload[c])
    BY DEF WholeResumes
  <1>4. Whole(q)
    BY <1>1, <1>3 DEF Whole
  <1> QED BY <1>2, <1>4, WholeMoves

LEMMA WholeFresh ==
    ASSUME NEW k, NEW i, NEW pc, NEW result
    PROVE  Whole(Fresh(k, i, pc, result))
  BY DEF Whole, Fresh, Skeleton, Content

\* An answer to the section asked for adds to the resume and takes nothing away.
LEMMA WholeAnswered ==
    ASSUME TypeOK, WholeResumes, NEW c \in Uploads, NEW a \in RawAnswers,
           At(c, "section"), upload[c].asked < Len(SectionOrder), Moves(c, Answered(upload[c], a)),
           KeepsToItsSection,
           \A i, j \in DOMAIN SectionOrder : SectionOrder[i] = SectionOrder[j] => i = j
    PROVE  WholeResumes'
  <1> DEFINE u == upload[c]
             q == Answered(u, a)
             n == u.asked + 1
             t == SectionOrder[n]
  <1>1. /\ u \in Locals /\ u.pc = "section" /\ upload'[c] = q
        /\ u.asked \in Nat /\ n \in DOMAIN SectionOrder /\ DOMAIN SectionOrder = 1..Len(SectionOrder)
        /\ Len(SectionOrder) \in Nat
    BY SectionOrderType DEF TypeOK, Locals, At, Moves
  <1>2. /\ q.pc = "section" /\ q.asked = n /\ q.resume = Updated(u.resume, Part[a])
        /\ q.found = u.found \cup Content(Part[a])
    BY <1>1 DEF Answered, Locals
  <1>3. Moves(c, q)
    OBVIOUS
  <1> HIDE DEF q
  <1>4. \A s \in ResumeKeys \ {t} : q.resume[s] = u.resume[s]
    BY <1>1, <1>2 DEF KeepsToItsSection
  <1>5. Whole(u)
    BY DEF WholeResumes
  <1>6. t \notin {SectionOrder[j] : j \in 1..u.asked} /\ t \in ResumeKeys
    <2>1. ASSUME NEW j \in 1..u.asked PROVE SectionOrder[j] # t
      <3>1. j \in DOMAIN SectionOrder /\ j # n
        BY <1>1
      <3> QED BY <1>1, <3>1
    <2>2. t \in ResumeKeys
      BY <1>1, SectionAssumption
    <2> QED BY <2>1, <2>2
  <1>7. u.resume[t] = "none" /\ u.found \subseteq Content(u.resume)
    BY <1>1, <1>5, <1>6 DEF Whole
  <1>8. DOMAIN u.resume = ResumeKeys /\ DOMAIN q.resume = ResumeKeys
    BY <1>1, <1>2 DEF Locals, Updated
  <1>9. Content(Part[a]) \subseteq Content(q.resume)
    BY <1>2, UpdatedType, TransformType DEF Updated, Content, Part
  <1>10. u.found \subseteq Content(q.resume)
    BY <1>4, <1>7, <1>8 DEF Content
  <1>11. ASSUME NEW s \in ResumeKeys, s \notin {SectionOrder[j] : j \in 1..n}
         PROVE  q.resume[s] = "none"
    <2>1. s # t
      BY <1>1, <1>11
    <2>2. \A j \in 1..u.asked : j \in 1..n
      BY <1>1
    <2>3. s \notin {SectionOrder[j] : j \in 1..u.asked}
      BY <1>11, <2>2
    <2> QED BY <1>1, <1>4, <1>5, <2>1, <2>3 DEF Whole
  <1>12. Whole(q)
    BY <1>2, <1>9, <1>10, <1>11 DEF Whole
  <1> QED BY <1>3, <1>12, WholeMoves

\* The resume is assembled: basics that are dropped had no content.
LEMMA WholeAssembled ==
    ASSUME TypeOK, WholeResumes, NEW c \in Uploads, Assemble(c)
    PROVE  WholeResumes'
  <1> DEFINE u == upload[c]
             resume == Assembled(u.resume)
             found == u.found \ (IF resume = u.resume THEN {} ELSE {"basics"})
             q == [u EXCEPT !.pc = "insert", !.resume = resume, !.found = found]
  <1>1. CASE Goes(c, "rmtree")
    BY <1>1, WholeGoes DEF PCs
  <1>2. CASE Moves(c, q)
    <2>1. u \in Locals /\ u.pc = "section" /\ Whole(u)
      BY DEF TypeOK, Assemble, At, WholeResumes
    <2>2. q.pc = "insert" /\ q.resume = resume /\ q.found = found
      BY <2>1 DEF Locals
    <2>3. u.found \subseteq Content(u.resume) /\ u.resume \in [ResumeKeys -> SectionKinds]
      BY <2>1 DEF Whole, Locals
    <2>4. found \subseteq Content(resume)
      <3>1. \A s \in Content(u.resume) : resume[s] = "content" /\ s \in DOMAIN resume
        BY <2>3 DEF Content, Assembled
      <3> QED BY <2>3, <3>1 DEF Content
    <2>5. Whole(q)
      BY <2>2, <2>4 DEF Whole
    <2> HIDE DEF q
    <2> QED BY <1>2, <2>5, WholeMoves
  <1> QED BY <1>1, <1>2 DEF Assemble

(***************************************************************************)
(* "Aborting extraction to prevent partial/invalid resume data"            *)
(* (extraction.py line 297) holds as long as every answer changes only the *)
(* section it was asked for, and no section is asked for twice: then no    *)
(* stored resume lacks a section that some answer had content for.         *)
(***************************************************************************)
THEOREM AnswersInScopeLoseNothing ==
    ASSUME \A i, j \in DOMAIN SectionOrder : SectionOrder[i] = SectionOrder[j] => i = j
    PROVE  Spec /\ [][KeepsToItsSection]_vars => []NoPartialResume
  <1>1. Init => WholeResumes
    BY WholeFresh DEF Init, WholeResumes
  <1>2. ASSUME UInv, WholeResumes, [Next]_vars, [KeepsToItsSection]_vars
        PROVE  WholeResumes'
    <2>1. TypeOK
      BY <1>2 DEF UInv
    <2>2. CASE UNCHANGED upload
      BY <1>2, <2>2 DEF WholeResumes, Whole, Content
    <2>3. ASSUME NEW c \in Uploads, NEW result, Returns(c, result) PROVE WholeResumes'
      BY <1>2, <2>1, <2>3, WholeFresh, WholeMoves DEF Returns
    <2>4. ASSUME NEW c \in Uploads, NEW k \in Keys, Check(c, k) PROVE WholeResumes'
      BY <1>2, <2>1, <2>4, WholeFresh, WholeMoves DEF Check
    <2>5. ASSUME NEW c \in Uploads, Section(c) PROVE WholeResumes'
      <3>1. CASE UNCHANGED vars
        BY <2>2, <3>1 DEF vars
      <3>2. CASE \E a \in RawAnswers : Moves(c, Answered(upload[c], a))
        BY <1>2, <2>1, <2>5, <3>1, <3>2, WholeAnswered DEF Section
      <3>3. CASE Moves(c, [upload[c] EXCEPT !.retried = TRUE])
        <4> DEFINE q == [upload[c] EXCEPT !.retried = TRUE]
        <4>1. /\ q.pc = upload[c].pc /\ q.found = upload[c].found /\ q.resume = upload[c].resume
              /\ q.asked = upload[c].asked
          BY <2>1 DEF TypeOK, Locals
        <4>2. Moves(c, q)
          BY <3>3
        <4> HIDE DEF q
        <4>3. Whole(q)
          BY <1>2, <4>1 DEF WholeResumes, Whole
        <4> QED BY <1>2, <2>1, <4>2, <4>3, WholeMoves
      <3>4. CASE Goes(c, "rmtree")
        BY <1>2, <2>1, <3>4, WholeGoes DEF PCs
      <3> QED BY <2>5, <3>2, <3>3, <3>4 DEF Section
    <2>6. ASSUME NEW c \in Uploads, MakeDir(c) \/ MakeUserDir(c) \/ WritePdf(c) PROVE WholeResumes'
      BY <1>2, <2>1, <2>3, <2>6, WholeGoes DEF MakeDir, MakeUserDir, WritePdf, At, PCs
    <2>7. ASSUME NEW c \in Uploads, ExtractionRaises(c) \/ RemoveTree(c) \/ Insert(c)
          PROVE  WholeResumes'
      BY <1>2, <2>1, <2>3, <2>7, WholeGoes DEF ExtractionRaises, RemoveTree, Insert, PCs
    <2>8. ASSUME NEW c \in Uploads, Assemble(c) \/ Prune(c) \/ Finish(c) \/ Crash(c)
          PROVE  WholeResumes'
      BY <1>2, <2>1, <2>3, <2>8, WholeAssembled DEF Prune, Finish, Crash
    <2> QED BY <1>2, <2>2, <2>4, <2>5, <2>6, <2>7, <2>8 DEF Next, Step, UpdateProfile, vars
  <1>3. WholeResumes => NoPartialResume
    BY DEF WholeResumes, Whole, NoPartialResume, At
  <1> QED BY <1>1, <1>2, <1>3, Invariance, PTL DEF Spec
=============================================================================
