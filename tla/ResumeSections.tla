--------------------------- MODULE ResumeSections ---------------------------
(***************************************************************************)
(* What the answer to a section's prompt does to the resume: the           *)
(* transforms of core_engine/section_transforms.py, and the resume's       *)
(* assembly in extraction.py under the schema of resume_models.py.         *)
(*                                                                         *)
(* An answer is a JSON object, here a function from its keys to what is    *)
(* known of their values.  "others" stands for certificates, publications, *)
(* languages, interests, references and meta, which are passed through.    *)
(***************************************************************************)
EXTENDS Naturals, Sequences

ResumeKeys == {"basics", "work", "volunteer", "education", "awards", "skills", "projects", "others"}

\* content: the schema takes it, transformed or not; loose: only transformed;
\* brittle: its transform raises, and the schema takes it (of basics: it is not
\* an object); odd: the schema takes neither; empty: a list or object of nothing.
Kinds == {"content", "loose", "brittle", "odd", "empty", "null"}

\* The kinds of a section of the resume; unfit: basics that are not an object.
SectionKinds == {"content", "odd", "empty", "none", "unfit"}

\* The keys a section's transform reads.
Names(s) ==
    CASE s = "work" -> {"work", "work_experience", "experience"}
      [] s = "volunteer" -> {"organizations"}
      [] s = "awards" -> {"awards", "achievements", "honors_and_awards"}
      [] s = "skills" -> {"skills", "librariesFrameworks", "toolsPlatforms", "databases"}
      [] s = "projects" -> {"projects", "projectsOpenSource"}
      [] OTHER -> {s}

RawKeys == {"volunteer"} \cup UNION {Names(s) : s \in ResumeKeys}

\* Of aliases the first counts, and the full answer has an order of its own.
Preferred(s, full) ==
    CASE s = "work" /\ full -> <<"work_experience", "work", "experience">>
      [] s = "work" /\ ~full -> <<"work", "work_experience", "experience">>
      [] s = "awards" /\ full -> <<"achievements", "awards", "honors_and_awards">>
      [] s = "awards" /\ ~full -> <<"awards", "achievements", "honors_and_awards">>

Chosen(a, names) ==
    LET present == {i \in DOMAIN names : names[i] \in DOMAIN a}
    IN {names[i] : i \in {j \in present : \A k \in present : j <= k}}

\* The values section s is made of.
Sources(a, s, full) ==
    {a[k] : k \in IF s \in {"work", "awards"} THEN Chosen(a, Preferred(s, full))
                  ELSE Names(s) \cap DOMAIN a}

\* A loop over None, or over an entry it cannot read, raises.
Breaks(a, s, full) ==
    /\ s \in {"work", "volunteer", "education", "awards", "projects"}
    /\ Sources(a, s, full) \cap {"null", "brittle"} # {}

\* A value as it is.
Kept(s, v) ==
    CASE v = "content" -> "content"
      [] v = "brittle" -> IF s = "basics" THEN "unfit" ELSE "content"
      [] v = "empty" -> "empty"
      [] v = "null" -> "none"
      [] OTHER -> "odd"

\* transform_basics makes an object of an empty one; skills that are no list count
\* for nothing; a section with no source is an empty list.
Made(a, s, full) ==
    LET from == Sources(a, s, full) IN
    IF s = "basics" THEN
        CASE from \subseteq {"content", "loose"} -> "content"
          [] from \subseteq {"empty", "odd"} -> "odd"
          [] from \subseteq {"null"} -> "none"
          [] OTHER -> "unfit"
    ELSE IF s = "others" /\ from # {} THEN Kept(s, CHOOSE v \in from : TRUE)
    ELSE IF "odd" \in from THEN "odd"
    ELSE IF from \subseteq {"empty", "null"} THEN "empty" ELSE "content"

Branches == <<"basics", "work", "education", "skills", "projects", "awards">>

\* transform_parsed_data: all sections of an answer that has basics and another
\* key, else the first section the answer names; as it is if that raises.
Full(a) == "basics" \in DOMAIN a /\ DOMAIN a # {"basics"}
Named(a) == {i \in DOMAIN Branches : Names(Branches[i]) \cap DOMAIN a # {}}
Parts(a) == IF Full(a) THEN ResumeKeys
            ELSE {Branches[i] : i \in {j \in Named(a) : \A k \in Named(a) : j <= k}}

Transform(a) ==
    IF Parts(a) = {} \/ \E s \in Parts(a) : Breaks(a, s, Full(a))
    THEN [s \in DOMAIN a \cap ResumeKeys |-> Kept(s, a[s])]
    ELSE [s \in Parts(a) |-> Made(a, s, Full(a))]

Skeleton == [s \in ResumeKeys |-> "none"]

\* complete_resume.update.
Updated(resume, part) == [s \in ResumeKeys |-> IF s \in DOMAIN part THEN part[s] ELSE resume[s]]

\* Basics(...) that do not validate are dropped, and then JSONResume(...) rejects
\* what is not of its schema.
Assembled(resume) == [resume EXCEPT !["basics"] = IF @ = "odd" THEN "none" ELSE @]
Rejected(resume) ==
    \/ resume["basics"] \in {"empty", "unfit"}
    \/ \E s \in ResumeKeys \ {"basics"} : resume[s] = "odd"

\* The sections with something in them.
Content(part) == {s \in DOMAIN part : part[s] = "content"}
=============================================================================
