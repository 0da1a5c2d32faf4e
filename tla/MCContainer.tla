----------------------------- MODULE MCContainer -----------------------------
(* Small instances of Container: one section of each kind as simulators     *)
(* write it, and each of them damaged in one place: a chunk type, a count,  *)
(* an end position, what reading a token comes to, where the next begins.   *)
EXTENDS Container, SequencesExt

MCNames == {"a", "b", "c", "g", "key"}

Tok(type, id, name) ==
  [type |-> type, id |-> id, name |-> name, n |-> 0, struct |-> FALSE, fault |-> "none"]
Mark(type) == Tok(type, 0, "a")
Prop       == Tok(34, 0, "key")
Other      == Tok(34, 0, "a")

(* A chunk, the chunks and the properties written inside it.                *)
Node(tok, kids, block) == [tok |-> tok, kids |-> kids, block |-> block]
Leaf(tok)    == Node(tok, <<>>, <<>>)
Group(name, refs) == Node([Tok(17, 9, name) EXCEPT !.n = Len(refs)], refs, <<>>)
Struct(id, defs, block) == Node([Tok(16, id, "a") EXCEPT !.struct = TRUE], defs, block)

RECURSIVE Emit(_, _, _)
EmitAll(nodes, parent, at) ==
  FoldLeft(LAMBDA out, node : out \o Emit(node, parent, at + Len(out)), <<>>, nodes)

(* The tokens of a chunk, each with the token of the chunk it is in.        *)
Emit(node, parent, at) ==
  <<<<node.tok, parent>>>>
    \o EmitAll(node.kids, at, at + 1)
    \o (IF node.tok.struct THEN <<<<Mark(18), at>>>> ELSE <<>>)
    \o [k \in DOMAIN node.block |-> <<node.block[k], at>>]

(* Section kind with these chunks; ends says whether the end position is    *)
(* behind the end marker or before it.                                      *)
Section(kind, nodes, ends) ==
  LET sub    == kind \in Indexed
      first  == IF sub THEN 3 ELSE 2
      body   == EmitAll(nodes, 0, first)
      tail   == CASE kind = "header" -> <<Mark(1)>>
                  [] kind = "sweep" -> <<Mark(3)>>
                  [] OTHER -> <<Mark(19)>>
      tokens == (IF sub THEN <<Mark(21), Mark(22)>> ELSE <<Mark(21)>>)
                  \o [k \in DOMAIN body |-> body[k][1]] \o tail
                  \o (IF kind = "values" THEN <<Mark(0)>> ELSE <<Mark(21), Mark(22), Mark(0)>>)
      marker == first + Len(body)
      end    == IF sub \/ ends = "before" THEN marker ELSE marker + 1
  IN [intact |-> TRUE, kind |-> kind, tokens |-> tokens,
      pos |-> [k \in 1 .. Len(tokens) + 1 |-> 100 + 8 * k], endpos |-> 100 + 8 * end,
      tail |-> marker, parent |-> [k \in first .. marker - 1 |-> body[k - first + 1][2]],
      after |-> IF sub \/ ends = "after" THEN marker + 1 ELSE marker]

Ref(id, name) == Leaf(Tok(16, id, name))
Kept == Node(Tok(16, 3, "c"), <<>>, <<Prop>>)

Trees(kind) ==
  CASE kind = "header" -> {<<>>, <<Leaf(Prop), Leaf(Other), Leaf(Prop)>>}
    [] kind = "sweep"  -> {<<Ref(1, "a")>>, <<Kept>>}
    [] kind = "type"   -> {<<Struct(1, <<Kept, Struct(4, <<Ref(5, "b")>>, <<>>)>>, <<Prop>>), Ref(2, "b")>>,
                           <<Ref(1, "a"), Struct(2, <<>>, <<Prop, Other, Prop>>)>>}
    [] kind = "trace"  -> {<<Ref(1, "a"), Group("g", <<Ref(2, "b"), Kept>>)>>,
                           <<Group("g", <<>>), Group("b", <<Ref(2, "a")>>), Kept>>}
    [] OTHER           -> {<<>>, <<Ref(1, "a"), Kept>>}

GoodFiles == UNION {{Section(kind, nodes, ends) : nodes \in Trees(kind), ends \in {"before", "after"}} :
                      kind \in Kinds}

Damaged(f) ==
  {[f EXCEPT !.endpos = e] : e \in {100 + 4 * k : k \in 1 .. 2 * Len(f.tokens) + 4}} \cup
  {[f EXCEPT !.tokens[k].type = t] : k \in 1 .. Len(f.tokens) - 1, t \in {0, 1, 3, 16, 17, 18, 19, 21, 34}} \cup
  {[f EXCEPT !.tokens[k].n = n] : k \in {k \in DOMAIN f.tokens : f.tokens[k].type = 17}, n \in {-1, 0, 1, 3, 9}} \cup
  {[f EXCEPT !.tokens[k].fault = e] : k \in FirstChild(f.kind) .. Len(f.tokens) - 1,
     e \in {"length_error", "undefined"} \cup (IF f.kind = "type" THEN {"UnknownType"} ELSE {})} \cup
  {[f EXCEPT !.tokens[k].struct = TRUE] : k \in DOMAIN f.tokens}

(* A string length, an index size or a changed chunk type puts the parser   *)
(* down at a later place: at another token, or amid bytes that look like    *)
(* one, from where it finds its way to another token.                       *)
DisplacedTo(f, k, j) ==
  LET Met(tokens, at) ==
        [f EXCEPT !.tokens = SubSeq(@, 1, k) \o tokens \o SubSeq(@, j, Len(@)),
                  !.pos = SubSeq(@, 1, k) \o at \o SubSeq(@, j, Len(@))]
  IN {Met(<<>>, <<>>)} \cup
     {Met(<<[Tok(type, 7, "b") EXCEPT !.n = 1]>>, <<f.pos[j] - 4>>) : type \in {7, 16, 17, 18, 34}}

Displaced(f) ==
  UNION {UNION {DisplacedTo(f, k, j) : j \in k + 2 .. Len(f.tokens)} :
           k \in FirstChild(f.kind) .. Len(f.tokens) - 2}

(* The walk leaves the file, or the file ends early.                        *)
Cut(f) == {[f EXCEPT !.tokens = SubSeq(@, 1, n), !.pos = SubSeq(@, 1, n + 1)] : n \in 2 .. Len(f.tokens) - 1}

AllFiles == GoodFiles \cup {[f EXCEPT !.intact = FALSE] : f \in UNION {Damaged(g) \cup Displaced(g) \cup Cut(g) : g \in GoodFiles}}
=============================================================================
