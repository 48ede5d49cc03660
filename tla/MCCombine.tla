----------------------------- MODULE MCCombine ------------------------------
(* Small instances of Combine: the names of the example in the source, in all
   orders, with text and reports between them. *)
EXTENDS Combine

Plain  == [kind |-> "plain", name |-> "text"]
Html   == [kind |-> "html", name |-> "page"]
Report == [kind |-> "report", name |-> "report"]
File(name) == [kind |-> "file", name |-> name]

MCNames == {"text", "page", "report", "file", "file.1", "bar"}
MCRelated == {<<n, n>> : n \in MCNames} \cup {<<"file.1", "file">>}

Several == {Plain, Html, Report, File("file"), File("file.1")}
Files   == {File("file"), File("file.1"), File("bar")}
MCSources ==
  UNION {[1 .. n -> Several] : n \in 0 .. 3} \cup [1 .. 4 -> Files]
=============================================================================
