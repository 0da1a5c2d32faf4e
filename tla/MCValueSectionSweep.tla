-------------------------- MODULE MCValueSectionSweep --------------------------
(* Small instances of ValueSectionSweep: files laid out as the simulators   *)
(* lay out those under examples/data (timeSweep has windows, a group and    *)
(* one window; frequencySweep and srcSweep one group; pss0.fd.pss plain     *)
(* references), and files that break one of the rules each.                 *)
EXTENDS ValueSectionSweep, MCSweepFile

MCIds    == {"a", "b", "c"}
MCUnset  == <<"unset", 0>>
MCJunk   == <<"junk", 0>>
MCValues == {MCJunk} \cup (MCIds \cup {Sweep}) \X (1 .. 8)
Sizes    == [a |-> 8, b |-> 16, c |-> 4]
Keys     == [a |-> "node", b |-> "node", c |-> "node"]

File(windowsize, children, count, paramsize, key) ==
  Laid(windowsize, children, count, paramsize, key, Sizes)

Sections == {<<Group(<<"a", "b">>), Group(<<"c">>)>>, <<Group(<<"b", "a", "c">>)>>}
Windowed == {File(64, s, n, 8, Keys) : s \in Sections, n \in {<<2, 1>>, <<1, 0, 3>>, <<4>>, <<>>}}
Simple   == {File(0, s, n, p, Keys) :
               s \in Sections \cup {<<Plain("a"), Group(<<"b", "c">>)>>, <<Plain("c"), Plain("a")>>},
               n \in {<<>>, <<1, 1>>, <<1, 1, 1>>}, p \in {8, 16}}
GoodFiles == Windowed \cup Simple

ASSUME \A f \in GoodFiles : WellFormed(f)

(* A trace section in which a name for the sweep, or a type without the     *)
(* property "key", stands beside two traces.                                *)
KeyFiles ==
  {File(0, s, <<1, 1>>, 8, [Keys EXCEPT !.c = k]) : k \in {"sweep", "absent"},
     s \in {<<Plain("a"), Plain("c"), Plain("b")>>, <<Plain("c"), Group(<<"a", "b">>)>>}}

WindowFile == File(64, <<Group(<<"a", "b">>)>>, <<2, 0, 2>>, 8, Keys)
PointFile  == File(0, <<Plain("a"), Plain("b")>>, <<1, 1, 1>>, 8, Keys)

BrokenFiles ==
  {[WindowFile EXCEPT !.npoints = n] : n \in {1, 3, 5}} \cup
  {[WindowFile EXCEPT !.ntraces = n] : n \in {1, 3}} \cup
  {[WindowFile EXCEPT !.padded = FALSE]} \cup
  {[WindowFile EXCEPT !.children = <<Plain("a"), Plain("b")>>]} \cup
  {[PointFile EXCEPT !.npoints = 5], [PointFile EXCEPT !.paramid = 2]}

BadFiles == KeyFiles \cup BrokenFiles
=============================================================================
