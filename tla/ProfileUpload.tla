---------------------------- MODULE ProfileUpload ----------------------------
(***************************************************************************)
(* Upload of a resume PDF: ProfilesService of core_engine/profiles.py over *)
(* the files of storage.py, the section loop of extraction.py and the      *)
(* profiles rows of core_engine_repository.py.                             *)
(*                                                                         *)
(* An upload checks for a row with the same (user, sha256), stages the PDF *)
(* under profiles/<user>/<profile>/, extracts the sections one LLM call at *)
(* a time outside any transaction, and inserts the row in a transaction of *)
(* its own.  Uploads may run in several server processes, so the system    *)
(* calls of storage.py interleave.  The directory "profiles" above the     *)
(* users' directories is made and pruned the way theirs are and is left    *)
(* out; so are the checks of the payload, which precede any effect.        *)
(***************************************************************************)
EXTENDS ResumeSections

CONSTANTS
    Uploads,      \* concurrent calls of upload_profile
    NoUpload,     \* "no transaction holds this index entry"
    Users,
    Digests,      \* the sha256 of the PDFs
    NoKey,
    Ids,          \* the ids uuid4 may generate; each is used once
    NoId,
    SectionOrder, \* SECTION_ORDER of extraction.py
    RawAnswers    \* the answers a section's prompt may get

Keys == Users \X Digests
Sections == {SectionOrder[i] : i \in DOMAIN SectionOrder}

ASSUME SentinelAssumption == NoUpload \notin Uploads /\ NoId \notin Ids /\ NoKey \notin Keys
ASSUME SectionAssumption == SectionOrder \in Seq(ResumeKeys)
ASSUME AnswerAssumption == \A a \in RawAnswers :
    DOMAIN a \subseteq RawKeys /\ \A k \in DOMAIN a : a[k] \in Kinds

VARIABLES
    row,       \* profiles, as committed, by id
    inserting, \* which upload has inserted an uncommitted row with this key
    home,      \* the users whose directory exists
    staged,    \* the profile directories that exist, as <<user, id>>
    pdf,       \* the directories that hold an original.pdf
    lost,      \* history: ids whose upload died or was refused after its directory was
               \* made, or whose rmtree failed
    spent,     \* the ids already generated
    upload     \* the locals and the result of every upload

vars == <<row, inserting, home, staged, pdf, lost, spent, upload>>
disk == <<home, staged, pdf>>
files == <<home, staged, pdf, lost>>
table == <<row, inserting>>

(***************************************************************************)
(* A row keeps its key, the sections its extraction had an answer for, and *)
(* whether json_resume is still what the extraction produced.              *)
(***************************************************************************)
Row == [key : Keys, answered : SUBSET Sections, content : {"extracted", "edited"}]
NoRow == [content |-> "none"]

PCs == {"idle", "mkdir", "mkdirUser", "mkdirAgain", "write", "section",
        "rmtree", "prune", "insert", "commit"}
Results == {"none", "ok", "unextracted", "refused", "duplicate"}

(***************************************************************************)
(* resume: complete_resume; asked counts the sections done.  Histories:    *)
(* answered, the sections that got an answer; found, the keys some answer  *)
(* had content for.                                                        *)
(***************************************************************************)
Locals == [pc : PCs, key : Keys \cup {NoKey}, id : Ids \cup {NoId}, asked : 0..Len(SectionOrder),
           retried : BOOLEAN, resume : [ResumeKeys -> SectionKinds], answered : SUBSET Sections,
           found : SUBSET ResumeKeys, result : Results]

\* The locals of an upload of k: before it begins, and after it has returned.
Fresh(k, id, pc, result) ==
    [pc |-> pc, key |-> k, id |-> id, asked |-> 0, retried |-> FALSE, resume |-> Skeleton,
     answered |-> {}, found |-> {}, result |-> result]

TypeOK ==
    /\ row \in [Ids -> Row \cup {NoRow}]
    /\ inserting \in [Keys -> Uploads \cup {NoUpload}]
    /\ home \in SUBSET Users
    /\ staged \in SUBSET (Users \X Ids)
    /\ pdf \in SUBSET staged
    /\ lost \in SUBSET Ids
    /\ spent \in SUBSET Ids
    /\ upload \in [Uploads -> Locals]

Init ==
    /\ row = [i \in Ids |-> NoRow]
    /\ inserting = [k \in Keys |-> NoUpload]
    /\ home = {} /\ staged = {} /\ pdf = {}
    /\ lost = {} /\ spent = {}
    /\ upload = [c \in Uploads |-> Fresh(NoKey, NoId, "idle", "none")]

Stored(k) == {i \in Ids : row[i] # NoRow /\ row[i].key = k}

At(c, pc) == upload[c].pc = pc
Owner(c) == upload[c].key[1]
Path(c) == <<Owner(c), upload[c].id>>

Moves(c, locals) == upload' = [upload EXCEPT ![c] = locals]
Goes(c, pc) == Moves(c, [upload[c] EXCEPT !.pc = pc])
Returns(c, result) == Moves(c, Fresh(upload[c].key, upload[c].id, "idle", result))

\* What the upload has staged stays behind.
Abandons(c) == lost' = IF Path(c) \in staged THEN lost \cup {upload[c].id} ELSE lost

(***************************************************************************)
(* The first transaction: the sha256 check, then save_pdf.                 *)
(***************************************************************************)
Check(c, k) ==
    /\ At(c, "idle")
    /\ \/ /\ Stored(k) # {}
          /\ Moves(c, Fresh(k, NoId, "idle", "ok"))
          /\ UNCHANGED spent
       \/ /\ Stored(k) = {}
          /\ \E i \in Ids \ spent :
                /\ Moves(c, Fresh(k, i, "mkdir", "none"))
                /\ spent' = spent \cup {i}
    /\ UNCHANGED <<table, files>>

(***************************************************************************)
(* mkdir(parents=True): the profile's directory if the user's is there,    *)
(* else the user's and then once more the profile's, which fails if a peer *)
(* has pruned the user's directory in between.                             *)
(***************************************************************************)
MakeDir(c) ==
    /\ At(c, "mkdir") \/ At(c, "mkdirAgain")
    /\ IF Owner(c) \in home
       THEN staged' = staged \cup {Path(c)} /\ Goes(c, "write")
       ELSE /\ IF At(c, "mkdir") THEN Goes(c, "mkdirUser") ELSE Returns(c, "refused")
            /\ UNCHANGED staged
    /\ UNCHANGED <<table, home, pdf, lost, spent>>

MakeUserDir(c) ==
    /\ At(c, "mkdirUser")
    /\ home' = home \cup {Owner(c)}
    /\ Goes(c, "mkdirAgain")
    /\ UNCHANGED <<table, staged, pdf, lost, spent>>

\* write_bytes may raise: nothing removes the directory then.
WritePdf(c) ==
    /\ At(c, "write")
    /\ \/ pdf' = pdf \cup {Path(c)} /\ Goes(c, "section") /\ UNCHANGED lost
       \/ Returns(c, "refused") /\ Abandons(c) /\ UNCHANGED pdf
    /\ UNCHANGED <<table, home, staged, spent>>

(***************************************************************************)
(* The section loop.  An answer may name any sections, whatever was asked; *)
(* an empty one changes nothing.                                           *)
(***************************************************************************)
\* What each answer has for the resume.
Part == [a \in RawAnswers |-> Transform(a)]

\* The locals after an answer to the section asked for.
Answered(u, a) ==
    [u EXCEPT !.resume = Updated(@, Part[a]), !.found = @ \cup Content(Part[a]),
              !.answered = @ \cup {SectionOrder[u.asked + 1]}, !.asked = @ + 1, !.retried = FALSE]

\* Mutant: a section that stayed unanswered is skipped.
SectionSkipped(c) ==
    LET u == upload[c] IN
    /\ At(c, "section") /\ u.asked < Len(SectionOrder)
    /\ \/ \E a \in RawAnswers : Moves(c, Answered(u, a))
       \/ ~u.retried /\ Moves(c, [u EXCEPT !.retried = TRUE])
       \/ u.retried /\ Moves(c, [u EXCEPT !.asked = @ + 1, !.retried = FALSE])
    /\ UNCHANGED <<table, files, spent>>

\* Mutant: an unanswered section is asked again without end.
SectionRetriedForEver(c) ==
    LET u == upload[c] IN
    /\ At(c, "section") /\ u.asked < Len(SectionOrder)
    /\ \/ \E a \in RawAnswers : Moves(c, Answered(u, a))
       \/ Moves(c, [u EXCEPT !.retried = ~u.retried])
    /\ UNCHANGED <<table, files, spent>>

\* A section that stayed unanswered ends the extraction.
Section(c) ==
    LET u == upload[c] IN
    /\ At(c, "section") /\ u.asked < Len(SectionOrder)
    /\ \/ \E a \in RawAnswers : Moves(c, Answered(u, a))
       \/ ~u.retried /\ Moves(c, [u EXCEPT !.retried = TRUE])
       \/ u.retried /\ Goes(c, "rmtree")
    /\ UNCHANGED <<table, files, spent>>

\* Anything extract_profile raises: an unreadable PDF, providers exhausted.
ExtractionRaises(c) ==
    /\ At(c, "section")
    /\ Goes(c, "rmtree")
    /\ UNCHANGED <<table, files, spent>>

\* Basics that are dropped do not count as found.
Assemble(c) ==
    LET u == upload[c]
        resume == Assembled(u.resume)
    IN /\ At(c, "section") /\ u.asked = Len(SectionOrder)
       /\ IF Rejected(resume) THEN Goes(c, "rmtree")
          ELSE Moves(c, [u EXCEPT !.pc = "insert", !.resume = resume,
                            !.found = @ \ (IF resume = u.resume THEN {} ELSE {"basics"})])
       /\ UNCHANGED <<table, files, spent>>

(***************************************************************************)
(* delete_pdf, then the exception goes on to the caller.                   *)
(***************************************************************************)
\* Mutant: os.remove of the PDF leaves its directory.
RemoveFile(c) ==
    /\ At(c, "rmtree")
    /\ pdf' = pdf \ {Path(c)}
    /\ Goes(c, "prune")
    /\ UNCHANGED <<table, home, staged, lost, spent>>

\* Mutant: the directory goes before the PDF in it is known to be gone.
RemoveDirFirst(c) ==
    /\ At(c, "rmtree")
    /\ staged' = staged \ {Path(c)}
    /\ Goes(c, "prune")
    /\ UNCHANGED <<table, home, pdf, lost, spent>>

\* With ignore_errors the directory, or the PDF and the directory, may stay unnoticed.
RemoveTree(c) ==
    /\ At(c, "rmtree")
    /\ \/ pdf' = pdf \ {Path(c)} /\ staged' = staged \ {Path(c)} /\ UNCHANGED lost
       \/ pdf' \in {pdf, pdf \ {Path(c)}} /\ Abandons(c) /\ UNCHANGED staged
    /\ Goes(c, "prune")
    /\ UNCHANGED <<table, home, spent>>

\* Mutant: the user's directory goes with everything in it.
PruneTree(c) ==
    /\ At(c, "prune")
    /\ home' = home \ {Owner(c)}
    /\ staged' = {p \in staged : p[1] # Owner(c)}
    /\ pdf' = {p \in pdf : p[1] # Owner(c)}
    /\ Returns(c, "unextracted")
    /\ UNCHANGED <<table, lost, spent>>

\* rmdir removes an empty directory and otherwise fails.
Prune(c) ==
    /\ At(c, "prune")
    /\ home' = IF \E p \in staged : p[1] = Owner(c) THEN home ELSE home \ {Owner(c)}
    /\ Returns(c, "unextracted")
    /\ UNCHANGED <<table, staged, pdf, lost, spent>>

(***************************************************************************)
(* The second transaction.  The partial unique index makes an INSERT wait  *)
(* for a peer's uncommitted row with the same key, and fail on a committed *)
(* one; nothing catches what this transaction raises.                      *)
(***************************************************************************)
\* Mutant: without the unique index.
InsertWithoutIndex(c) ==
    LET k == upload[c].key IN
    /\ At(c, "insert")
    /\ Goes(c, "commit") /\ inserting' = [inserting EXCEPT ![k] = c]
    /\ UNCHANGED <<row, files, spent>>

\* Mutant: INSERT ... ON CONFLICT DO UPDATE, so that the loser replaces the row.
InsertOrUpdate(c) ==
    LET k == upload[c].key IN
    /\ At(c, "insert") /\ inserting[k] = NoUpload
    /\ IF Stored(k) # {}
       THEN /\ row' = [i \in Ids |-> IF i \in Stored(k) THEN [row[i] EXCEPT !.content = "extracted"]
                                                        ELSE row[i]]
            /\ Returns(c, "ok") /\ UNCHANGED inserting
       ELSE Goes(c, "commit") /\ inserting' = [inserting EXCEPT ![k] = c] /\ UNCHANGED row
    /\ UNCHANGED <<files, spent>>

Insert(c) ==
    LET k == upload[c].key IN
    /\ At(c, "insert") /\ inserting[k] = NoUpload
    /\ IF Stored(k) # {}
       THEN Returns(c, "duplicate") /\ Abandons(c) /\ UNCHANGED inserting
       ELSE Goes(c, "commit") /\ inserting' = [inserting EXCEPT ![k] = c] /\ UNCHANGED lost
    /\ UNCHANGED <<row, disk, spent>>

\* The audit row goes with the profile, or the transaction rolls back.
Finish(c) ==
    LET u == upload[c] IN
    /\ At(c, "commit")
    /\ inserting' = [inserting EXCEPT ![u.key] = NoUpload]
    /\ \/ /\ row' = [row EXCEPT ![u.id] = [key |-> u.key, answered |-> u.answered,
                                           content |-> "extracted"]]
          /\ Returns(c, "ok") /\ UNCHANGED lost
       \/ Returns(c, "refused") /\ Abandons(c) /\ UNCHANGED row
    /\ UNCHANGED <<disk, spent>>

\* PUT /api/profiles/{id}: one UPDATE of a committed row, and its audit.
UpdateProfile(i) ==
    /\ row[i] # NoRow
    /\ row' = [row EXCEPT ![i].content = "edited"]
    /\ UNCHANGED <<inserting, files, spent, upload>>

\* The server or the task dies: PostgreSQL rolls back, the files stay.
Crash(c) ==
    /\ ~At(c, "idle")
    /\ Returns(c, "none")
    /\ Abandons(c)
    /\ inserting' = [k \in Keys |-> IF inserting[k] = c THEN NoUpload ELSE inserting[k]]
    /\ UNCHANGED <<row, disk, spent>>

Step(c) ==
    \/ MakeDir(c) \/ MakeUserDir(c) \/ WritePdf(c)
    \/ Section(c) \/ ExtractionRaises(c) \/ Assemble(c)
    \/ RemoveTree(c) \/ Prune(c)
    \/ Insert(c) \/ Finish(c)

Next ==
    \/ \E c \in Uploads : Step(c) \/ Crash(c)
    \/ \E c \in Uploads, k \in Keys : Check(c, k)
    \/ \E i \in Ids : UpdateProfile(i)

Spec == Init /\ [][Next]_vars

\* A running upload is carried on: its calls are awaited and time out.
FairSpec == Spec /\ \A c \in Uploads : WF_vars(Step(c))

-----------------------------------------------------------------------------
(***************************************************************************)
(* Every stored profile has its PDF at original_pdf_url, and so has every  *)
(* upload whose sections are being extracted: no cleanup of another upload *)
(* of the same user removes it (storage.py delete_pdf).                    *)
(***************************************************************************)
StoredPdfs ==
    /\ \A i \in Ids : row[i] # NoRow => <<row[i].key[1], i>> \in pdf
    /\ \A c \in Uploads : upload[c].pc \in {"section", "insert", "commit"} => Path(c) \in pdf
    /\ \A p \in staged : p[1] \in home

(***************************************************************************)
(* One profile per user and PDF, however the uploads race (profiles.py     *)
(* lines 10 to 13).                                                        *)
(***************************************************************************)
OneProfilePerPdf == \A i, j \in Ids :
    row[i] # NoRow /\ row[j] # NoRow /\ row[i].key = row[j].key => i = j

(***************************************************************************)
(* No row comes from an extraction in which some section stayed unanswered *)
(* (extraction.py lines 289 to 299).                                       *)
(***************************************************************************)
OnlyFullExtractions == \A i \in Ids : row[i] # NoRow => row[i].answered = Sections

(***************************************************************************)
(* A directory that is no stored profile's and no running upload's has one *)
(* of three causes: its upload died, was refused after it had made it, or  *)
(* its rmtree failed silently (storage.py line 53).  The cleanup of an     *)
(* extraction that raised, and any other way out, leaves none, however the *)
(* uploads of the user interleave (profiles.py lines 111 to 125).          *)
(***************************************************************************)
LeftoversAreKnown == \A p \in staged :
    \/ row[p[2]] # NoRow
    \/ p[2] \in lost
    \/ \E c \in Uploads : ~At(c, "idle") /\ Path(c) = p

(***************************************************************************)
(* The rows are the profiles of ProfileStore: one a PDF, which stays, and  *)
(* whose edits (PUT) no upload of the same PDF undoes, also not one that   *)
(* had passed its sha256 check before the row existed.                     *)
(***************************************************************************)
Profiles == INSTANCE ProfileStore WITH
    profile <- [k \in Keys |-> {<<i, row[i].content>> : i \in Stored(k)}]
ImplementsProfileStore == Profiles!Spec

(***************************************************************************)
(* Every upload returns or dies.                                           *)
(***************************************************************************)
UploadEnds == \A c \in Uploads : []<>At(c, "idle")

(***************************************************************************)
(* storage.py line 48: "an aborted upload leaves no staged dirs".  Violated*)
(* by the loser of two racing uploads of the same PDF: its extraction has  *)
(* succeeded, the unique index refuses its row, and nothing deletes what   *)
(* it has staged (profiles.py lines 116 to 142).                           *)
(***************************************************************************)
AbortedUploadLeavesNothing == \A c \in Uploads :
    upload[c].result = "duplicate" => Path(c) \notin staged

(***************************************************************************)
(* extraction.py line 297: "Aborting extraction to prevent partial/invalid *)
(* resume data."  Violated by an answer that has "basics" and another key: *)
(* it empties the sections extracted before it.                            *)
(***************************************************************************)
NoPartialResume == \A c \in Uploads :
    At(c, "insert") => upload[c].found \subseteq Content(upload[c].resume)
=============================================================================
