------------------------------ MODULE MCSignalData ------------------------------
(* Small instances of SignalData: types of every kind, structures with a     *)
(* complex member, an integer, a structure; swept files with windows, with   *)
(* points and without any, and files of two values.                          *)
EXTENDS SignalData

Leaf(kind)      == [kind |-> kind, members |-> << >>]
Struct(members) == [kind |-> "struct", members |-> members]

MCTypes == <<Leaf("double"), Leaf("int8"), Leaf("int32"), Leaf("complex"),
             Struct(<<2, 1>>),       \* 5: of an integer and a double
             Struct(<<4, 1>>),       \* 6: with a complex member
             Struct(<<1, 5>>),       \* 7: with a structure
             Struct(<<1, 1>>),       \* 8: of doubles
             Struct(<<3, 8>>)>>      \* 9: with a structure of doubles

Swept(signals, windowed, windows) ==
  [swept |-> TRUE, windowed |-> windowed, signals |-> signals, windows |-> windows,
   props |-> [s \in DOMAIN signals |-> 0]]
Single(signals, props) ==
  [swept |-> FALSE, windowed |-> FALSE, signals |-> signals, windows |-> << >>, props |-> props]

SweptFiles ==
  {Swept(s, p[1], p[2]) : s \in {<<1, 5>>, <<2, 6>>, <<3, 7>>, <<4, 8>>, <<1, 9>>},
     p \in {<<TRUE, <<2, 1>>>>, <<FALSE, <<1, 1>>>>, <<FALSE, << >>>>}}
SingleFiles == {Single(<<s, t>>, <<p, 0>>) : s \in {1, 2, 6, 7, 8}, t \in 3 .. 9, p \in {0, 20}}

MCFiles == SweptFiles \cup SingleFiles
=============================================================================
