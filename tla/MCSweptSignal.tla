----------------------------- MODULE MCSweptSignal -----------------------------
(* Small instances of SweptSignal: every trace section of up to three        *)
(* children with up to two traces in a group, over three names, repeated or  *)
(* not, with two points recorded for each trace.                             *)
EXTENDS SweptSignal, MCSweepFile

MCNames  == {"a", "b", "g"}
IdSeq    == <<"t1", "t2", "t3", "t4">>
MCIds    == ToSet(IdSeq)
MCUnset  == <<"unset", 0>>
MCJunk   == <<"junk", 0>>
MCValues == {MCJunk} \cup (MCIds \cup {Sweep}) \X (1 .. 4)

Refs2   == {<<>>} \cup {<<n>> : n \in MCNames} \cup {<<n, m>> : n, m \in MCNames}
Single  == {[group |-> FALSE, name |-> n, refs |-> <<n>>] : n \in MCNames}
Grouped == {[group |-> TRUE, name |-> n, refs |-> refs] : n \in MCNames, refs \in Refs2}
Kids    == Single \cup Grouped

NamesOf(s) == FlattenSeq([c \in DOMAIN s |-> <<s[c].name>> \o s[c].refs])

(* Names are alike: of the sections that renaming makes equal, one is       *)
(* enough, in which names occur first in this order.                        *)
Canonical(s) ==
  LET names == NamesOf(s)
      before(n, m) == \A k \in DOMAIN names : names[k] = m => \E j \in 1 .. k - 1 : names[j] = n
  IN before("g", "a") /\ before("a", "b")

AllSections ==
  {s \in {<<>>} \cup {<<a>> : a \in Kids} \cup {<<a, b>> : a, b \in Kids}
         \cup {<<a, b, c>> : a \in Single, b \in Kids, c \in Single} : Canonical(s)}

(* Ids are given in the order of the file.                                  *)
IdsOf(s) ==
  LET before(c) == SumOf(LAMBDA d : Len(s[d].refs), c - 1)
  IN [c \in DOMAIN s |-> [group |-> s[c].group, refs |-> SubSeq(IdSeq, before(c) + 1, before(c + 1))]]

Sizes == [id \in MCIds |-> IF id \in {"t1", "t3"} THEN 8 ELSE 4]
Keys  == [id \in MCIds |-> "node"]

Named(s, f) == [x \in DOMAIN f \cup {"names"} |-> IF x = "names" THEN s ELSE f[x]]

MCFiles ==
  {Named(s, Laid(0, IdsOf(s), <<1, 1>>, 8, Keys, Sizes)) : s \in AllSections} \cup
  {Named(s, Laid(64, IdsOf(s), <<2>>, 8, Keys, Sizes)) :
     s \in {s \in AllSections : \A c \in DOMAIN s : s[c].group}}

MCSections == {f.names : f \in MCFiles}

ASSUME \A f \in MCFiles : WellFormed(f) /\ FileOK(f)
================================================================================
