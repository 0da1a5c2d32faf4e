------------------------------ MODULE DataTypes ------------------------------
(***************************************************************************)
(* The types of a type section, and the objects that values of a type are  *)
(* read into: psfdata_size, DataTypeDef and StructDef say how many bytes a *)
(* value takes, DataTypeDef::deserialize_data, Struct::deserialize and the *)
(* scalars' deserialize take them.                                         *)
(*                                                                         *)
(* A value is a tree of cells, by the path of member numbers that leads to *)
(* each: a cell has kids, the paths of its members' cells, or the bytes it *)
(* was read from.                                                          *)
(***************************************************************************)
EXTENDS Integers, SequencesExt

CONSTANT Types   \* of a type id: its kind and, of a structure, its members' types

LeafKinds == {"int8", "int32", "double", "complex"}
TypeIds   == DOMAIN Types

(* A member's type is defined inside the structure, so before its end.     *)
ASSUME TypesAssumed ==
  /\ Types \in Seq([kind : LeafKinds \cup {"struct"}, members : Seq(Nat)])
  /\ \A t \in TypeIds : \A m \in DOMAIN Types[t].members : Types[t].members[m] \in 1 .. t - 1

IsStruct(t) == Types[t].kind = "struct"
Members(t)  == DOMAIN Types[t].members

(* psfdata_size, which the simulator writes by.                            *)
PsfDataSize == [int8 |-> 4, int32 |-> 4, double |-> 8, complex |-> 16]

(* Mutant: the one byte that is used of an int8.                           *)
ScalarSizeTight == [int8 |-> 1, int32 |-> 4, double |-> 8, complex |-> 8]

(* What PSFScalarT::deserialize takes for a member of a structure.         *)
ScalarSize == [int8 |-> 4, int32 |-> 4, double |-> 8, complex |-> 8]

(* The sums of the first n numbers of a sequence.                          *)
Sums(s) ==
  LET sum[n \in 0 .. Len(s)] == IF n = 0 THEN 0 ELSE sum[n - 1] + s[n]
  IN sum

(* The bytes of a type, if those of a kind are size.                       *)
Bytes(size) ==
  LET bytes[t \in TypeIds] ==
        IF IsStruct(t) THEN Sums([m \in Members(t) |-> bytes[Types[t].members[m]]])[Len(Types[t].members)]
        ELSE size[Types[t].kind]
  IN bytes

(* Those of the members before m.                                          *)
MemberOffset(size, t, m) == Sums([k \in Members(t) |-> Bytes(size)[Types[t].members[k]]])[m - 1]

(* DataTypeDef::datasize and StructDef::datasize.                          *)
DataSize == Bytes(PsfDataSize)

(* DataTypeDef::deserialize_data: it takes the bytes of a leaf itself, and *)
(* leaves those of a structure to its members.                             *)
Taken == [t \in TypeIds |-> IF IsStruct(t) THEN Bytes(ScalarSize)[t] ELSE DataSize[t]]

Nowhere == [at |-> 0, bytes |-> 0]
Cell(kids, from) == [kids |-> kids, from |-> from]

(* A tree at path p, read from address a on.                               *)
Placed(tree, p, a) ==
  [x \in {p \o q : q \in DOMAIN tree} |->
     LET c == tree[SubSeq(x, Len(p) + 1, Len(x))]
     IN Cell([m \in DOMAIN c.kids |-> p \o c.kids[m]],
             IF c.from = Nowhere THEN Nowhere ELSE [c.from EXCEPT !.at = @ + a])]

Joined(trees) ==
  [x \in UNION {DOMAIN f : f \in trees} |-> (CHOOSE f \in trees : x \in DOMAIN f)[x]]

(* The cells of a value at address 0 whose leaves take size.               *)
Tree(size) ==
  LET tree[t \in TypeIds] ==
        IF IsStruct(t)
        THEN Joined({[x \in {<< >>} |-> Cell([m \in Members(t) |-> <<m>>], Nowhere)]} \cup
                    {Placed(tree[Types[t].members[m]], <<m>>, MemberOffset(size, t, m)) :
                       m \in Members(t)})
        ELSE [x \in {<< >>} |-> Cell(<< >>, [at |-> 0, bytes |-> size[Types[t].kind]])]
  IN tree

(* What reading a value makes, and what the simulator wrote.               *)
ReadTree   == [t \in TypeIds |-> IF IsStruct(t) THEN Tree(ScalarSize)[t] ELSE Tree(PsfDataSize)[t]]
StoredTree == Tree(PsfDataSize)

(* The kinds of the leaves of a type.                                      *)
Leaves ==
  LET leaves[t \in TypeIds] ==
        IF IsStruct(t) THEN UNION {leaves[Types[t].members[m]] : m \in Members(t)}
        ELSE {Types[t].kind}
  IN leaves

ComplexMember(t) == IsStruct(t) /\ "complex" \in Leaves[t]
=============================================================================
