--------------------------- MODULE MCJdExtraction ---------------------------
EXTENDS JdExtraction
SomeRoutes == {[platform |-> "greenhouse", slug |-> TRUE, asked |-> "a"],
               [platform |-> "lever", slug |-> TRUE, asked |-> "a"]}
Titled(id, cites, salary, posted) ==
    [id |-> id, cites |-> cites, titled |-> TRUE, salary |-> salary, posted |-> posted]
SomeBoards == {<<>>, <<Titled("b", {"b"}, "null", "number"), Titled("a", {"a"}, "value", "text")>>,
               <<Titled("b", {"a", "b"}, "none", "number")>>}
Shell == [text |-> 1, marker |-> TRUE, flagged |-> FALSE, node |-> NoJobPosting, parses |-> TRUE]
Long == [text |-> 12, marker |-> FALSE, flagged |-> FALSE,
         node |-> [texts |-> {"title"}, amount |-> TRUE, currency |-> "text"], parses |-> TRUE]
Plain == [text |-> 9, marker |-> FALSE, flagged |-> TRUE,
          node |-> [texts |-> {}, amount |-> TRUE, currency |-> "odd"], parses |-> TRUE]
SomeAnswers == {{}, Fields}
Nested == [text |-> 7, marker |-> FALSE, flagged |-> FALSE, node |-> NoJobPosting, parses |-> FALSE]
SomePages == {Shell, Long, Plain, Nested}
=============================================================================
