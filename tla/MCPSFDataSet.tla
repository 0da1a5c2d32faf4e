---------------------------- MODULE MCPSFDataSet ----------------------------
(* Small instances of PSFDataSet.  The contents are those of the data files *)
(* under examples/data and test/data, and the ways they can be damaged.     *)
EXTENDS PSFDataSet, TLC

File(clarissa, toc, bad, props, nsweeps, flaws) ==
  [clarissa |-> clarissa, toc |-> toc \cup {"header"}, bad |-> bad,
   props |-> props \cup {"PSF sweeps"}, nsweeps |-> nsweeps, flaws |-> flaws]

SweptFile(toc, bad, props, flaws) ==
  File("yes", toc \cup {"types", "sweeps"}, bad, props \cup {"PSF sweep points"}, 1, flaws)

Windows == {"PSF window size", "PSF traces"}

Swept     == SweptFile({"traces", "values"}, "none", {}, {})
NonSwept  == File("yes", {"types", "values"}, "none", {}, 0, {})
Ascii     == File("no", {}, "header", {}, 0, {})
Short     == File("short", {}, "header", {}, 0, {})
BadTraces == SweptFile({"traces", "values"}, "traces", {}, {})
NoTraces  == SweptFile({"values"}, "none", {}, {})
NoValues  == SweptFile({"traces"}, "none", {}, {})
Empty     == File("yes", {"types"}, "none", {}, 0, {})
Family    == SweptFile({"traces", "values"}, "none", {}, {"family trace"})
NoType    == SweptFile({"traces", "values"}, "none", Windows, {"untyped trace"})
NoParam   == SweptFile({"traces", "values"}, "none", Windows \ {"PSF traces"}, {"untyped sweep"})
TooMany   == SweptFile({"traces", "values"}, "none", Windows, {"counts"})
NoTypes   == File("yes", {"values"}, "none", {}, 0, {"untyped value"})

PsfContents     == {Swept, NonSwept}
DamagedContents == {Swept, NonSwept, BadTraces, NoTraces, NoValues, Empty, Family, NoType, TooMany}
AllContents     == {Swept, NonSwept, Ascii, Short, BadTraces, NoTraces, NoType, NoParam, NoTypes}

HandleSymmetry == Permutations(Handles)
=============================================================================
