------------------------------ MODULE JdDoors ------------------------------
(***************************************************************************)
(* The functions a job extraction is made of: the lookup at an ATS and the *)
(* JSON-LD subset of core_engine/jd_doors.py, and the merge of the doors'  *)
(* fields and the payload's schema of core_engine/jd_schema.py.            *)
(*                                                                         *)
(* A field of the payload is represented by where its value is from.       *)
(* "currency" stands for the members of salary, "required" and "preferred" *)
(* for those of skills (merge_over merges nested objects by key), "extras" *)
(* for everything the good_to_have section adds, "posted" for posted_at,   *)
(* which no section asks for.                                              *)
(***************************************************************************)
EXTENDS Naturals, Sequences

CONSTANTS
    PostingIds, NoId,   \* the ids of postings at an ATS
    ShellText           \* below so much text a page with a mount marker is a shell

Fields == {"title", "company", "currency", "responsibilities", "required", "preferred", "extras", "posted"}

\* null: a None inside a nested object; stray: from another posting of the
\* board; shown: JSON-LD of the rendered page; llm: from a section's answer; gap:
\* from the gap-fill's; bad: of a type the schema rejects.
Values == {"none", "null", "ats", "stray", "ld", "shown", "llm", "gap", "bad"}
Nothing == [f \in Fields |-> "none"]

\* _is_empty, negated.
HasValue(v) == v \notin {"none", "null"}
Filled(acc) == {f \in Fields : HasValue(acc[f])}

(***************************************************************************)
(* A posting at an ATS: its id, the ids its absolute_url contains, whether *)
(* it has a title, its salaryRange and its date, which is taken as it is   *)
(* (Lever's createdAt is a number).  The company falls back to the board's *)
(* slug, so it is always there.                                            *)
(***************************************************************************)
Posting == [id : PostingIds, cites : SUBSET PostingIds, titled : BOOLEAN,
            salary : {"none", "null", "value"}, posted : {"none", "text", "number"}]
NoPosting == [id |-> NoId]

Pick(board, matches) ==
    IF matches = {} THEN NoPosting
    ELSE board[CHOOSE i \in matches : \A j \in matches : i <= j]

Exactly(asked, board) == {i \in DOMAIN board : board[i].id = asked}
Citing(asked, board) == {i \in DOMAIN board : asked \in board[i].cites}

\* Greenhouse: the single posting, else of the board's list the one with the
\* id, else one whose url contains it; without an id the first.
GreenhousePosting(asked, single, board) ==
    IF asked # NoId /\ single # NoPosting THEN single
    ELSE Pick(board, IF asked = NoId THEN DOMAIN board
                     ELSE IF Exactly(asked, board) # {} THEN Exactly(asked, board)
                     ELSE Citing(asked, board))

\* Lever: likewise, but the first posting whenever none has the id.
LeverPosting(asked, single, board) ==
    IF asked # NoId /\ single # NoPosting THEN single
    ELSE Pick(board, IF Exactly(asked, board) # {} THEN Exactly(asked, board) ELSE DOMAIN board)

Origin(asked, p) == IF asked \in {NoId, p.id} THEN "ats" ELSE "stray"

GreenhouseFields(asked, p) ==
    [Nothing EXCEPT !["title"] = IF p.titled THEN Origin(asked, p) ELSE "none",
                    !["company"] = Origin(asked, p),
                    !["posted"] = [none |-> "none", text |-> Origin(asked, p), number |-> "bad"][p.posted]]

LeverFields(asked, p) ==
    [GreenhouseFields(asked, p) EXCEPT
        !["currency"] = IF p.salary = "value" THEN Origin(asked, p) ELSE p.salary]

(***************************************************************************)
(* The JobPosting of the first JSON-LD script, if there is one: which      *)
(* texts it has ("place" stands for those without a field here), and its   *)
(* baseSalary, an amount with a currency that may be of any JSON type.     *)
(***************************************************************************)
JobPosting == [texts : SUBSET {"title", "company", "posted", "place"}, amount : BOOLEAN,
               currency : {"absent", "text", "odd"}]
NoJobPosting == [texts |-> {}, amount |-> FALSE, currency |-> "absent"]

\* bool(extract_json_ld(...))
JsonLdFound(node) == node.texts # {} \/ node.amount

JsonLdSalary(node, origin) ==
    IF ~node.amount THEN "none"
    ELSE [absent |-> "null", text |-> origin, odd |-> "bad"][node.currency]

JsonLd(node, origin) ==
    [f \in Fields |-> IF f \in node.texts THEN origin
                      ELSE IF f = "currency" THEN JsonLdSalary(node, origin) ELSE "none"]

(***************************************************************************)
(* A page: the tokens of its text (0 when nothing is left of it), whether  *)
(* it has a mount marker, whether its text has an injection pattern, its   *)
(* JSON-LD, and whether extract_json_ld gets through it (a JSON-LD nested  *)
(* too deeply, or of unforeseen types, raises).                            *)
(***************************************************************************)
Page == [text : Nat, marker : BOOLEAN, flagged : BOOLEAN, node : JobPosting, parses : BOOLEAN]

LooksLikeJsShell(p) == p.marker /\ p.text < ShellText

\* D30: a door fills gaps only, salary being one key.
FillGaps(acc, found) == [f \in Fields |-> IF acc[f] = "none" THEN found[f] ELSE acc[f]]

\* D40: the section wins with what it has; what it left empty is kept.
MergeOver(acc, section) == [f \in Fields |-> IF HasValue(section[f]) THEN section[f] ELSE acc[f]]

\* gaps_for.
MissingCriticals(acc) ==
    {f \in {"title", "company", "responsibilities"} : ~HasValue(acc[f])}
    \cup {s \in {"skills"} : ~HasValue(acc["required"]) /\ ~HasValue(acc["preferred"])}

\* StructuredJD(**payload) raises nothing.
Valid(acc) == \A f \in Fields : acc[f] # "bad"

\* D43.
IsPlausiblePosting(acc, jsonLdFound) ==
    jsonLdFound \/ \E f \in {"responsibilities", "required", "preferred"} : HasValue(acc[f])

\* The fields of a section's model; it ignores all others.
SectionFields ==
    [header_core |-> {"title", "company", "currency"}, responsibilities |-> {"responsibilities"},
     skills |-> {"required", "preferred"}, good_to_have |-> {"extras"}]
=============================================================================
