------------------------ MODULE MCCommandLineParser ------------------------
EXTENDS CommandLineParser

Long(name, arg) == [dashes |-> 2, name |-> name, arg |-> arg]
Short(letters) == [dashes |-> 1, letters |-> letters]
Other == [dashes |-> 0]

SmallShape ==
  [text \in Texts |->
     CASE text = "-v" -> Short(<<"v">>)
       [] text = "-vn" -> Short(<<"v", "n">>)
       [] text = "--all=9" -> Long("all", "9")
       [] text = "--all=one" -> Long("all", "one")
       [] text = "--help" -> Long("help", None)
       [] OTHER -> Other]

SmallNumber ==
  [text \in Texts |-> CASE text = "1" -> 1 [] text = "9" -> 9 [] OTHER -> NaN]

SmallMin == -2

SmallKinds == [str |-> "str", list |-> "strv", num |-> "int", size |-> "size", enum |-> "enum"]

SmallDefault ==
  [str |-> "1", list |-> <<>>, num |-> 0, size |-> 2, enum |-> "two", verbose |-> FALSE, m_help |-> FALSE]

SmallOptions ==
  {SetIfPresent(NewOption("v", "all"), "verbose"),
   ResetIfPresent(NewOption("v", NoName), "verbose"),
   ShowDefault(Arg(NewOption("n", "num"), "num")),
   SetIfPresent(ShowDefault(Arg(Arg(Arg(NewOption(None, "all"), "str"), "list"), "size")), "verbose"),
   Arg(Arg(NewOption("n", "all"), "str"), "enum")}
=============================================================================
