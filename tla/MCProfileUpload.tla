--------------------------- MODULE MCProfileUpload ---------------------------
EXTENDS ProfileUpload
TwoSections == <<"basics", "work">>
ThreeSections == <<"basics", "work", "awards">>
Only(k, v) == [s \in {k} |-> v]
PlainAnswers == {[s \in {} |-> "null"], Only("basics", "content"), Only("experience", "content"),
                 Only("awards", "content"), [s \in {"basics", "skills"} |-> "content"]}
SomeAnswers == {Only("basics", "content"), Only("basics", "odd"), Only("work", "brittle"),
                [s \in {"basics", "work_experience"} |-> IF s = "basics" THEN "content" ELSE "null"]}
=============================================================================
