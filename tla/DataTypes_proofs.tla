--------------------------- MODULE DataTypes_proofs ---------------------------
(***************************************************************************)
(* What the recursive definitions of DataTypes compute for every list of   *)
(* types: the bytes of a type, the cells of a value, the kinds of leaves.  *)
(***************************************************************************)
EXTENDS DataTypes, Induction, SequenceTheorems, TLAPS

-----------------------------------------------------------------------------
(* Sums.                                                                   *)

IsSum(s, f) ==
  /\ f \in [0 .. Len(s) -> Nat] /\ f[0] = 0
  /\ \A n \in 1 .. Len(s) : f[n] = f[n - 1] + s[n]

LEMMA SumsFacts ==
  ASSUME NEW s \in Seq(Nat)
  PROVE  IsSum(s, Sums(s))
<1> DEFINE L == Len(s)
           step == [n \in 1 .. L |-> [x \in Nat |-> x + s[n]]]
           Body(f) == [n \in 0 .. L |-> IF n = 0 THEN 0 ELSE f[n - 1] + s[n]]
<1>1. L \in Nat /\ \A n \in 1 .. L : s[n] \in Nat
  BY LenProperties, ElementOfSeq
<1> HIDE DEF L
<1>2. Steps(L, Nat, step)
  BY <1>1 DEF Steps
<1>3. \A n \in 1 .. L : \A x \in Nat : step[n][x] = x + s[n]
  OBVIOUS
<1> HIDE DEF step
<1>4. PICK f : Iterates(L, Nat, 0, step, f)
  BY <1>1, <1>2, Iteration
<1>5. /\ f \in [0 .. L -> Nat] /\ f[0] = 0
      /\ \A n \in 1 .. L : f[n] = f[n - 1] + s[n]
  <2>1. ASSUME NEW n \in 1 .. L PROVE f[n] = f[n - 1] + s[n]
    <3>1. n - 1 \in 0 .. L
      BY <1>1
    <3>2. f[n - 1] \in Nat
      BY <1>4, <3>1 DEF Iterates
    <3> QED
      BY <1>3, <1>4, <3>2 DEF Iterates
  <2> QED
    BY <1>4, <2>1 DEF Iterates
<1>6. f = Body(f)
  BY <1>1, <1>5
<1> DEFINE sum == CHOOSE g : g = Body(g)
<1>7. sum = Body(sum)
  BY <1>6
<1>8. Sums(s) = sum
  BY DEF Sums, L
<1> HIDE DEF sum
<1>9. /\ DOMAIN sum = 0 .. L /\ sum[0] = 0
      /\ \A n \in 1 .. L : sum[n] = sum[n - 1] + s[n]
  BY <1>1, <1>7
<1> DEFINE Typed == {n \in Nat : n <= L => sum[n] \in Nat}
<1>10. 0 \in Typed /\ \A n \in Nat : n \in Typed => n + 1 \in Typed
  <2>1. ASSUME NEW n \in Nat, n \in Typed PROVE n + 1 \in Typed
    <3>1. CASE n + 1 <= L
      <4>1. n + 1 \in 1 .. L /\ (n + 1) - 1 = n /\ n <= L
        BY <1>1, <3>1
      <4>2. sum[n + 1] = sum[n] + s[n + 1]
        BY <1>9, <4>1
      <4> QED
        BY <1>1, <2>1, <4>1, <4>2
    <3> QED
      BY <3>1
  <2> QED
    BY <1>9, <2>1
<1> HIDE DEF Typed
<1>11. Nat \subseteq Typed
  BY <1>10, SetInduction
<1>12. \A n \in 0 .. L : sum[n] \in Nat
  BY <1>1, <1>11 DEF Typed
<1>13. sum \in [0 .. L -> Nat]
  BY <1>7, <1>12, Zenon
<1> QED
  BY <1>8, <1>9, <1>13 DEF IsSum, L

(* Sums rise.                                                              *)
LEMMA SumsRise ==
  ASSUME NEW s \in Seq(Nat), NEW m \in 0 .. Len(s), NEW n \in m .. Len(s)
  PROVE  Sums(s)[m] <= Sums(s)[n]
<1> DEFINE sum == Sums(s)
           Good == {k \in Nat : m + k <= Len(s) => sum[m] <= sum[m + k]}
<1>1. Len(s) \in Nat /\ \A i \in 1 .. Len(s) : s[i] \in Nat
  BY LenProperties, ElementOfSeq
<1>2. /\ \A i \in 0 .. Len(s) : sum[i] \in Nat
      /\ \A i \in 1 .. Len(s) : sum[i] = sum[i - 1] + s[i]
  BY SumsFacts DEF IsSum
<1> HIDE DEF sum
<1>3. 0 \in Good
  BY <1>1, <1>2
<1>4. ASSUME NEW k \in Nat, k \in Good PROVE k + 1 \in Good
  <2>1. CASE m + (k + 1) <= Len(s)
    <3>1. /\ m + (k + 1) \in 1 .. Len(s) /\ (m + (k + 1)) - 1 = m + k
          /\ m + k \in 0 .. Len(s)
      BY <1>1, <2>1
    <3>2. sum[m + (k + 1)] = sum[m + k] + s[m + (k + 1)] /\ s[m + (k + 1)] \in Nat
      BY <1>1, <1>2, <3>1
    <3>3. sum[m] \in Nat /\ sum[m + k] \in Nat /\ sum[m] <= sum[m + k]
      BY <1>1, <1>2, <1>4, <3>1
    <3> QED
      BY <3>2, <3>3
  <2> QED
    BY <2>1
<1> HIDE DEF Good
<1>5. Nat \subseteq Good
  BY <1>3, <1>4, SetInduction
<1>6. n - m \in Nat /\ m + (n - m) = n /\ n <= Len(s)
  BY <1>1
<1>7. n - m \in Good
  BY <1>5, <1>6
<1> QED
  BY <1>6, <1>7 DEF Good, sum

(* If no number is greater, no sum is.                                     *)
LEMMA SumsBelow ==
  ASSUME NEW s \in Seq(Nat), NEW u \in Seq(Nat), Len(s) = Len(u),
         \A i \in 1 .. Len(s) : s[i] <= u[i]
  PROVE  \A n \in 0 .. Len(s) : Sums(s)[n] <= Sums(u)[n]
<1> DEFINE a == Sums(s)
           b == Sums(u)
           L == Len(s)
           Good == {n \in Nat : n <= L => a[n] <= b[n]}
<1>1. L \in Nat /\ \A i \in 1 .. L : s[i] \in Nat /\ u[i] \in Nat /\ s[i] <= u[i]
  BY LenProperties, ElementOfSeq
<1>2. /\ a[0] = 0 /\ \A i \in 0 .. L : a[i] \in Nat
      /\ \A i \in 1 .. L : a[i] = a[i - 1] + s[i]
      /\ b[0] = 0 /\ \A i \in 0 .. L : b[i] \in Nat
      /\ \A i \in 1 .. L : b[i] = b[i - 1] + u[i]
  BY SumsFacts DEF IsSum
<1> HIDE DEF a, b, L
<1>3. 0 \in Good
  BY <1>1, <1>2
<1>4. ASSUME NEW k \in Nat, k \in Good PROVE k + 1 \in Good
  <2>1. CASE k + 1 <= L
    <3>1. k + 1 \in 1 .. L /\ (k + 1) - 1 = k /\ k \in 0 .. L /\ k <= L
      BY <1>1, <2>1
    <3>2. a[k + 1] = a[k] + s[k + 1] /\ b[k + 1] = b[k] + u[k + 1] /\ s[k + 1] <= u[k + 1]
      BY <1>1, <1>2, <3>1
    <3>3. a[k] \in Nat /\ b[k] \in Nat /\ a[k] <= b[k] /\ s[k + 1] \in Nat /\ u[k + 1] \in Nat
      BY <1>1, <1>2, <1>4, <3>1
    <3> QED
      BY <3>2, <3>3
  <2> QED
    BY <2>1
<1> HIDE DEF Good
<1>5. Nat \subseteq Good
  BY <1>3, <1>4, SetInduction
<1> QED
  BY <1>1, <1>5 DEF Good, a, b, L

-----------------------------------------------------------------------------
(* Types and their bytes.                                                  *)

LEMMA TypeFacts ==
  /\ Len(Types) \in Nat /\ TypeIds = 1 .. Len(Types)
  /\ \A t \in TypeIds :
       /\ Types[t].kind \in LeafKinds \cup {"struct"}
       /\ ~IsStruct(t) => Types[t].kind \in LeafKinds
       /\ Types[t].members \in Seq(Nat)
       /\ Len(Types[t].members) \in Nat /\ Members(t) = 1 .. Len(Types[t].members)
       /\ \A m \in Members(t) : Types[t].members[m] \in 1 .. t - 1 /\ Types[t].members[m] \in TypeIds
<1> DEFINE T == [kind : LeafKinds \cup {"struct"}, members : Seq(Nat)]
<1>1. Types \in Seq(T)
  BY TypesAssumed
<1>2. Len(Types) \in Nat /\ TypeIds = 1 .. Len(Types) /\ \A t \in TypeIds : Types[t] \in T
  BY <1>1, LenProperties, ElementOfSeq DEF TypeIds
<1>3. ASSUME NEW t \in TypeIds
      PROVE  /\ Types[t].kind \in LeafKinds \cup {"struct"}
             /\ ~IsStruct(t) => Types[t].kind \in LeafKinds
             /\ Types[t].members \in Seq(Nat)
             /\ Len(Types[t].members) \in Nat /\ Members(t) = 1 .. Len(Types[t].members)
             /\ \A m \in Members(t) : Types[t].members[m] \in 1 .. t - 1 /\ Types[t].members[m] \in TypeIds
  <2>1. Types[t].kind \in LeafKinds \cup {"struct"} /\ Types[t].members \in Seq(Nat)
    BY <1>2
  <2>2. Len(Types[t].members) \in Nat /\ Members(t) = 1 .. Len(Types[t].members)
    BY <2>1, LenProperties DEF Members
  <2>3. \A m \in Members(t) : Types[t].members[m] \in 1 .. t - 1
    BY TypesAssumed DEF Members
  <2> QED
    BY <1>2, <2>1, <2>2, <2>3 DEF IsStruct
<1> QED
  BY <1>2, <1>3

(* The sizes of a kind of reader.                                          *)
IsSize(size) == \A k \in LeafKinds : size[k] \in Nat

LEMMA SizesAreSizes == IsSize(PsfDataSize) /\ IsSize(ScalarSize)
  BY DEF IsSize, PsfDataSize, ScalarSize, LeafKinds

MemberBytes(bytes, t) == [m \in Members(t) |-> bytes[Types[t].members[m]]]

BytesBy(size, bytes, t) ==
  IF IsStruct(t) THEN Sums(MemberBytes(bytes, t))[Len(Types[t].members)] ELSE size[Types[t].kind]

LEMMA MemberBytesFacts ==
  ASSUME NEW t \in TypeIds, NEW bytes, \A m \in Members(t) : bytes[Types[t].members[m]] \in Nat
  PROVE  /\ MemberBytes(bytes, t) \in Seq(Nat)
         /\ Len(MemberBytes(bytes, t)) = Len(Types[t].members)
<1> DEFINE n == Len(Types[t].members)
           s == MemberBytes(bytes, t)
<1>1. n \in Nat /\ Members(t) = 1 .. n
  BY TypeFacts
<1>2. s \in [1 .. n -> Nat]
  BY <1>1 DEF MemberBytes
<1>3. s \in Seq(Nat)
  BY <1>1, <1>2, SeqDef
<1> QED
  BY <1>1, <1>2, <1>3

IsBytes(size, bytes) ==
  /\ \A t \in TypeIds : bytes[t] \in Nat
  /\ \A t \in TypeIds : bytes[t] = BytesBy(size, bytes, t)

LEMMA BytesFacts ==
  ASSUME NEW size, IsSize(size)
  PROVE  IsBytes(size, Bytes(size))
<1> DEFINE N == Len(Types)
           F == [1 .. N -> Nat]
           step == [t \in 1 .. N |-> [g \in F |-> BytesBy(size, g, t)]]
           Body(f) == [t \in TypeIds |->
                         IF IsStruct(t) THEN Sums([m \in Members(t) |-> f[Types[t].members[m]]])[Len(Types[t].members)]
                         ELSE size[Types[t].kind]]
<1>1. N \in Nat /\ TypeIds = 1 .. N
  BY TypeFacts
<1>2. ASSUME NEW t \in TypeIds, NEW g, \A u \in 1 .. t - 1 : g[u] \in Nat PROVE BytesBy(size, g, t) \in Nat
  <2>1. CASE IsStruct(t)
    <3> DEFINE s == MemberBytes(g, t)
    <3>1. \A m \in Members(t) : g[Types[t].members[m]] \in Nat
      BY <1>2, TypeFacts
    <3>2. s \in Seq(Nat) /\ Len(s) = Len(Types[t].members) /\ Len(s) \in Nat
      BY <3>1, MemberBytesFacts, TypeFacts
    <3>3. IsSum(s, Sums(s))
      BY <3>2, SumsFacts
    <3>4. Sums(s)[Len(s)] \in Nat
      BY <3>2, <3>3 DEF IsSum
    <3> QED
      BY <2>1, <3>2, <3>4 DEF BytesBy
  <2>2. CASE ~IsStruct(t)
    BY <2>2, TypeFacts DEF BytesBy, IsSize
  <2> QED
    BY <2>1, <2>2
<1>3. ASSUME NEW t \in TypeIds, NEW g, NEW h, \A u \in 1 .. t - 1 : g[u] = h[u]
      PROVE  BytesBy(size, g, t) = BytesBy(size, h, t)
  <2>1. MemberBytes(g, t) = MemberBytes(h, t)
    BY <1>3, TypeFacts DEF MemberBytes
  <2> QED
    BY <2>1 DEF BytesBy
<1> HIDE DEF N
<1>4. \A t \in 1 .. N : \A g \in F : BytesBy(size, g, t) \in Nat
  <2>1. ASSUME NEW t \in 1 .. N, NEW g \in F PROVE BytesBy(size, g, t) \in Nat
    <3>1. \A u \in 1 .. t - 1 : g[u] \in Nat
      BY <1>1
    <3> QED
      BY <1>1, <1>2, <3>1
  <2> QED
    BY <2>1
<1>5. step \in [1 .. N -> [F -> Nat]]
  BY <1>4
<1>6. \A t \in 1 .. N : \A g, h \in F : (\A u \in 1 .. t - 1 : g[u] = h[u]) => step[t][g] = step[t][h]
  BY <1>1, <1>3
<1>7. Recursion(N, Nat, step)
  BY <1>5, <1>6, Zenon DEF Recursion
<1>8. PICK f : Solution(N, Nat, step, f)
  BY <1>1, <1>7, CourseOfValues
<1>9. f \in F /\ \A t \in 1 .. N : f[t] = BytesBy(size, f, t)
  BY <1>8 DEF Solution
<1>10. f = Body(f)
  BY <1>1, <1>9 DEF BytesBy, MemberBytes
<1> DEFINE bytes == CHOOSE g : g = Body(g)
<1>11. bytes = Body(bytes)
  BY <1>10
<1>12. Bytes(size) = bytes
  BY DEF Bytes
<1> HIDE DEF bytes
<1>13. \A t \in TypeIds : bytes[t] = BytesBy(size, bytes, t)
  BY <1>11 DEF BytesBy, MemberBytes
<1> DEFINE Good == {t \in Nat : t \in TypeIds => bytes[t] \in Nat}
<1>14. ASSUME NEW t \in Nat, \A u \in Nat : u < t => u \in Good PROVE t \in Good
  <2>1. CASE t \in TypeIds
    <3>1. \A u \in 1 .. t - 1 : u \in Nat /\ u < t /\ u \in TypeIds
      BY <1>1, <2>1
    <3>2. \A u \in 1 .. t - 1 : bytes[u] \in Nat
      BY <1>14, <3>1
    <3> QED
      BY <1>2, <1>13, <2>1, <3>2
  <2> QED
    BY <2>1
<1> HIDE DEF Good
<1>15. Nat \subseteq Good
  BY <1>14, StrongSetInduction
<1>16. \A t \in TypeIds : bytes[t] \in Nat
  BY <1>1, <1>15 DEF Good
<1> QED
  BY <1>12, <1>13, <1>16 DEF IsBytes

-----------------------------------------------------------------------------
(* Paths.                                                                  *)

Paths == Seq(Nat)

LEMMA PathFacts ==
  ASSUME NEW p \in Paths, NEW q \in Paths, NEW m \in Nat
  PROVE  /\ Len(p) \in Nat /\ p \o q \in Paths /\ Len(p \o q) = Len(p) + Len(q)
         /\ SubSeq(p \o q, Len(p) + 1, Len(p \o q)) = q
         /\ Append(q, m) \in Paths /\ Len(Append(q, m)) = Len(q) + 1
         /\ p \o Append(q, m) = Append(p \o q, m)
         /\ p \o << >> = p /\ << >> \o p = p
         /\ \A i \in 1 .. Len(p) : (p \o q)[i] = p[i]
         /\ \A i \in 1 .. Len(q) : (p \o q)[Len(p) + i] = q[i]
<1>1. Len(p) \in Nat /\ Len(q) \in Nat
  BY LenProperties DEF Paths
<1>2. /\ p \o q \in Paths /\ Len(p \o q) = Len(p) + Len(q)
      /\ \A i \in 1 .. Len(p) + Len(q) : (p \o q)[i] = IF i <= Len(p) THEN p[i] ELSE q[i - Len(p)]
  BY ConcatProperties, Zenon DEF Paths
<1>3. SubSeq(p \o q, Len(p) + 1, Len(p \o q)) = q
  <2>1. CASE Len(q) = 0
    <3>1. q = << >>
      BY <2>1, EmptySeq DEF Paths
    <3>2. SubSeq(p \o q, Len(p) + 1, Len(p \o q)) = << >>
      BY <1>1, <1>2, <2>1, SubSeqEmpty
    <3> QED
      BY <3>1, <3>2
  <2>2. CASE Len(q) # 0
    <3>1. SubSeq(p \o q, Len(p) + 1, Len(p) + Len(q)) = SubSeq(q, Len(p) + 1 - Len(p), Len(p) + Len(q) - Len(p))
      BY <1>1, <2>2, SubSeqOfConcat2 DEF Paths
    <3>2. Len(p) + 1 - Len(p) = 1 /\ Len(p) + Len(q) - Len(p) = Len(q)
      BY <1>1
    <3>3. SubSeq(q, 1, Len(q)) = q
      BY SubSeqFull DEF Paths
    <3> QED
      BY <1>2, <3>1, <3>2, <3>3
  <2> QED
    BY <2>1, <2>2
<1>4. Append(q, m) \in Paths /\ Len(Append(q, m)) = Len(q) + 1
  BY AppendProperties DEF Paths
<1>5. p \o Append(q, m) = Append(p \o q, m)
  <2>1. <<m>> \in Paths
    BY DEF Paths
  <2>2. Append(q, m) = q \o <<m>> /\ Append(p \o q, m) = (p \o q) \o <<m>>
    BY <1>2, AppendIsConcat, Zenon DEF Paths
  <2>3. (p \o q) \o <<m>> = p \o (q \o <<m>>)
    BY <2>1, ConcatAssociative DEF Paths
  <2> QED
    BY <2>2, <2>3
<1>6. p \o << >> = p /\ << >> \o p = p
  BY ConcatEmptySeq DEF Paths
<1>7. \A i \in 1 .. Len(p) : (p \o q)[i] = p[i]
  <2>1. ASSUME NEW i \in 1 .. Len(p) PROVE (p \o q)[i] = p[i]
    <3>1. i \in 1 .. Len(p) + Len(q) /\ i <= Len(p)
      BY <1>1
    <3> QED
      BY <1>2, <3>1
  <2> QED
    BY <2>1
<1>8. \A i \in 1 .. Len(q) : (p \o q)[Len(p) + i] = q[i]
  <2>1. ASSUME NEW i \in 1 .. Len(q) PROVE (p \o q)[Len(p) + i] = q[i]
    <3>1. Len(p) + i \in 1 .. Len(p) + Len(q) /\ ~(Len(p) + i <= Len(p)) /\ (Len(p) + i) - Len(p) = i
      BY <1>1
    <3>2. (p \o q)[Len(p) + i] = q[(Len(p) + i) - Len(p)]
      BY <1>2, <3>1
    <3> QED
      BY <3>1, <3>2
  <2> QED
    BY <2>1
<1> QED
  BY <1>1, <1>2, <1>3, <1>4, <1>5, <1>6, <1>7, <1>8

LEMMA AppendShifts == \A p, q \in Paths : \A k \in Nat : p \o Append(q, k) = Append(p \o q, k)
<1>1. ASSUME NEW p \in Paths, NEW q \in Paths, NEW k \in Nat PROVE p \o Append(q, k) = Append(p \o q, k)
  <2>1. <<k>> \in Paths /\ p \o q \in Paths
    BY PathFacts DEF Paths
  <2>2. Append(q, k) = q \o <<k>>
    BY AppendIsConcat DEF Paths
  <2>3. Append(p \o q, k) = (p \o q) \o <<k>>
    BY <2>1, AppendIsConcat, Zenon DEF Paths
  <2>4. (p \o q) \o <<k>> = p \o (q \o <<k>>)
    BY <2>1, ConcatAssociative DEF Paths
  <2> QED
    BY <2>2, <2>3, <2>4, Zenon
<1> QED
  BY <1>1, Zenon

LEMMA ConcatCancel ==
  ASSUME NEW p \in Paths, NEW q \in Paths, NEW r \in Paths, p \o q = p \o r
  PROVE  q = r
<1>1. SubSeq(p \o q, Len(p) + 1, Len(p \o q)) = q /\ SubSeq(p \o r, Len(p) + 1, Len(p \o r)) = r
  BY PathFacts
<1> QED
  BY <1>1

LEMMA AppendCancel ==
  ASSUME NEW p \in Paths, NEW q \in Paths, NEW m \in Nat, NEW n \in Nat, Append(p, m) = Append(q, n)
  PROVE  p = q /\ m = n
  BY AppendInjective DEF Paths

-----------------------------------------------------------------------------
(* Trees of cells.                                                         *)

Sources == [at : Nat, bytes : Nat]
Cells   == [kids : Seq(Paths), from : Sources]

IsTree(f) ==
  /\ DOMAIN f \subseteq Paths /\ f = [x \in DOMAIN f |-> f[x]]
  /\ \A x \in DOMAIN f : f[x] \in Cells

(* Every kid is a cell, one step below.                                    *)
Grows(f) ==
  \A x \in DOMAIN f : \A m \in DOMAIN f[x].kids :
    m \in Nat /\ f[x].kids[m] = Append(x, m) /\ Append(x, m) \in DOMAIN f

(* A cell moved to below p, read from a on.                                *)
Moved(c, p, a) ==
  Cell([m \in DOMAIN c.kids |-> p \o c.kids[m]],
       IF c.from = Nowhere THEN Nowhere ELSE [c.from EXCEPT !.at = @ + a])

LEMMA CellFacts ==
  ASSUME NEW c \in Cells
  PROVE  /\ DOMAIN c.kids = 1 .. Len(c.kids) /\ Len(c.kids) \in Nat
         /\ \A m \in DOMAIN c.kids : m \in Nat /\ c.kids[m] \in Paths
         /\ c.from \in Sources
<1>1. c.kids \in Seq(Paths) /\ c.from \in Sources
  BY DEF Cells
<1> QED
  BY <1>1, LenProperties, ElementOfSeq

LEMMA CellIntro ==
  ASSUME NEW n \in Nat, NEW kids, kids = [m \in 1 .. n |-> kids[m]], \A m \in 1 .. n : kids[m] \in Paths,
         NEW from \in Sources
  PROVE  Cell(kids, from) \in Cells
<1>1. kids \in [1 .. n -> Paths]
  OBVIOUS
<1>2. kids \in Seq(Paths)
  BY <1>1, SeqDef
<1> QED
  BY <1>2 DEF Cell, Cells

LEMMA MovedFacts ==
  ASSUME NEW c \in Cells, NEW p \in Paths, NEW a \in Nat
  PROVE  /\ Moved(c, p, a) \in Cells
         /\ DOMAIN Moved(c, p, a).kids = DOMAIN c.kids
         /\ \A m \in DOMAIN c.kids : Moved(c, p, a).kids[m] = p \o c.kids[m]
<1> DEFINE kids == [m \in DOMAIN c.kids |-> p \o c.kids[m]]
           from == IF c.from = Nowhere THEN Nowhere ELSE [c.from EXCEPT !.at = @ + a]
<1>1. from \in Sources
  <2>1. c.from \in Sources /\ Nowhere \in Sources
    BY CellFacts DEF Sources, Nowhere
  <2> QED
    BY <2>1 DEF Sources
<1>2. DOMAIN c.kids = 1 .. Len(c.kids) /\ Len(c.kids) \in Nat /\ \A m \in DOMAIN c.kids : p \o c.kids[m] \in Paths
  BY CellFacts, PathFacts
<1>3. kids = [m \in 1 .. Len(c.kids) |-> kids[m]] /\ \A m \in 1 .. Len(c.kids) : kids[m] \in Paths
  BY <1>2
<1>4. Moved(c, p, a) = Cell(kids, from)
  BY DEF Moved
<1> HIDE DEF kids, from
<1>5. Cell(kids, from) \in Cells
  BY <1>1, <1>2, <1>3, CellIntro
<1>6. Moved(c, p, a).kids = kids
  BY <1>4 DEF Cell
<1> QED
  BY <1>4, <1>5, <1>6 DEF kids

LEMMA PlacedFacts ==
  ASSUME NEW f, IsTree(f), NEW p \in Paths, NEW a \in Nat
  PROVE  /\ DOMAIN Placed(f, p, a) = {p \o q : q \in DOMAIN f}
         /\ \A q \in DOMAIN f : Placed(f, p, a)[p \o q] = Moved(f[q], p, a)
         /\ IsTree(Placed(f, p, a))
<1> DEFINE D == {p \o q : q \in DOMAIN f}
           P == Placed(f, p, a)
<1>1. P = [x \in D |-> Moved(f[SubSeq(x, Len(p) + 1, Len(x))], p, a)]
  BY Zenon DEF Placed, Moved
<1>2. ASSUME NEW q \in DOMAIN f PROVE P[p \o q] = Moved(f[q], p, a) /\ p \o q \in Paths /\ P[p \o q] \in Cells
  <2>1. q \in Paths /\ f[q] \in Cells
    BY DEF IsTree
  <2>2. SubSeq(p \o q, Len(p) + 1, Len(p \o q)) = q /\ p \o q \in Paths
    BY <2>1, PathFacts
  <2>3. p \o q \in D
    OBVIOUS
  <2>4. P[p \o q] = Moved(f[q], p, a)
    BY <1>1, <2>2, <2>3
  <2> QED
    BY <2>1, <2>2, <2>4, MovedFacts
<1>3. DOMAIN P = D /\ P = [x \in DOMAIN P |-> P[x]]
  BY <1>1
<1> HIDE DEF P
<1>4. IsTree(P)
  BY <1>2, <1>3 DEF IsTree
<1> QED
  BY <1>2, <1>3, <1>4 DEF P

LEMMA PlacedGrows ==
  ASSUME NEW f, IsTree(f), Grows(f), NEW p \in Paths, NEW a \in Nat
  PROVE  Grows(Placed(f, p, a))
<1> DEFINE P == Placed(f, p, a)
<1>1. DOMAIN P = {p \o q : q \in DOMAIN f}
  BY PlacedFacts
<1>2. ASSUME NEW q \in DOMAIN f, NEW m \in DOMAIN P[p \o q].kids
      PROVE  m \in Nat /\ P[p \o q].kids[m] = Append(p \o q, m) /\ Append(p \o q, m) \in DOMAIN P
  <2>1. q \in Paths /\ f[q] \in Cells
    BY DEF IsTree
  <2>2. P[p \o q] = Moved(f[q], p, a)
    BY PlacedFacts
  <2>3. DOMAIN Moved(f[q], p, a).kids = DOMAIN f[q].kids /\ \A i \in DOMAIN f[q].kids : Moved(f[q], p, a).kids[i] = p \o f[q].kids[i]
    BY <2>1, MovedFacts
  <2>4. m \in DOMAIN f[q].kids /\ P[p \o q].kids[m] = p \o f[q].kids[m]
    BY <1>2, <2>2, <2>3
  <2> HIDE DEF P
  <2>5. m \in Nat /\ f[q].kids[m] = Append(q, m) /\ Append(q, m) \in DOMAIN f
    BY <2>4 DEF Grows
  <2>6. p \o Append(q, m) = Append(p \o q, m)
    <3>1. q \in Paths /\ m \in Nat
      BY <2>1, <2>5
    <3> QED
      BY <3>1, PathFacts
  <2>7. p \o Append(q, m) \in DOMAIN P
    BY <1>1, <2>5
  <2> QED
    BY <2>4, <2>5, <2>6, <2>7
<1> HIDE DEF P
<1>3. Grows(P)
  BY <1>1, <1>2 DEF Grows
<1> QED
  BY <1>3 DEF P

LEMMA JoinedFacts ==
  ASSUME NEW trees, \A f \in trees : IsTree(f)
  PROVE  /\ DOMAIN Joined(trees) = UNION {DOMAIN f : f \in trees}
         /\ \A x \in DOMAIN Joined(trees) : \E f \in trees : x \in DOMAIN f /\ Joined(trees)[x] = f[x]
         /\ IsTree(Joined(trees))
<1> DEFINE J == Joined(trees)
           D == UNION {DOMAIN f : f \in trees}
           At(x) == CHOOSE f \in trees : x \in DOMAIN f
<1>1. J = [x \in D |-> At(x)[x]]
  BY DEF Joined
<1>2. ASSUME NEW x \in D PROVE At(x) \in trees /\ x \in DOMAIN At(x) /\ J[x] = At(x)[x]
  <2>1. \E f \in trees : x \in DOMAIN f
    OBVIOUS
  <2>2. At(x) \in trees /\ x \in DOMAIN At(x)
    BY <2>1
  <2> QED
    BY <1>1, <2>2
<1>3. DOMAIN J = D /\ J = [x \in DOMAIN J |-> J[x]]
  BY <1>1
<1> HIDE DEF J, At
<1>4. \A x \in DOMAIN J : \E f \in trees : x \in DOMAIN f /\ J[x] = f[x]
  BY <1>2, <1>3
<1>5. \A x \in DOMAIN J : x \in Paths /\ J[x] \in Cells
  BY <1>4 DEF IsTree
<1> HIDE DEF D
<1>6. IsTree(J)
  BY <1>3, <1>5 DEF IsTree
<1> QED
  BY <1>3, <1>4, <1>6 DEF J, D

(* Where the joined trees do not meet, the tree of a cell is the one.      *)
LEMMA JoinedAt ==
  ASSUME NEW trees, \A f \in trees : IsTree(f), NEW f \in trees, NEW x \in DOMAIN f,
         \A g \in trees : x \in DOMAIN g => g = f
  PROVE  Joined(trees)[x] = f[x]
<1>1. x \in DOMAIN Joined(trees)
  <2>1. DOMAIN Joined(trees) = UNION {DOMAIN g : g \in trees}
    BY JoinedFacts
  <2> QED
    BY <2>1
<1>2. PICK g \in trees : x \in DOMAIN g /\ Joined(trees)[x] = g[x]
  BY <1>1, JoinedFacts
<1> QED
  BY <1>2

LEMMA JoinedGrows ==
  ASSUME NEW trees, \A f \in trees : IsTree(f) /\ Grows(f)
  PROVE  Grows(Joined(trees))
<1> DEFINE J == Joined(trees)
<1>1. /\ DOMAIN J = UNION {DOMAIN f : f \in trees}
      /\ \A x \in DOMAIN J : \E f \in trees : x \in DOMAIN f /\ J[x] = f[x]
  BY JoinedFacts
<1> HIDE DEF J
<1>2. ASSUME NEW x \in DOMAIN J, NEW m \in DOMAIN J[x].kids
      PROVE  m \in Nat /\ J[x].kids[m] = Append(x, m) /\ Append(x, m) \in DOMAIN J
  <2>1. PICK f \in trees : x \in DOMAIN f /\ J[x] = f[x]
    BY <1>1
  <2>2. m \in Nat /\ f[x].kids[m] = Append(x, m) /\ Append(x, m) \in DOMAIN f
    BY <1>2, <2>1 DEF Grows
  <2> QED
    BY <1>1, <2>1, <2>2
<1>3. Grows(J)
  BY <1>2 DEF Grows
<1> QED
  BY <1>3 DEF J

-----------------------------------------------------------------------------
(* The tree of a type.                                                     *)

LEMMA OffsetFacts ==
  ASSUME NEW size, IsSize(size), NEW t \in TypeIds, NEW m \in Members(t)
  PROVE  MemberOffset(size, t, m) \in Nat
<1> DEFINE s == MemberBytes(Bytes(size), t)
<1>1. s \in Seq(Nat) /\ Len(s) = Len(Types[t].members)
  BY BytesFacts, MemberBytesFacts, TypeFacts DEF IsBytes
<1>2. m - 1 \in 0 .. Len(s)
  BY <1>1, TypeFacts
<1>3. MemberOffset(size, t, m) = Sums(s)[m - 1]
  BY DEF MemberOffset, MemberBytes
<1> HIDE DEF s
<1> QED
  BY <1>1, <1>2, <1>3, SumsFacts DEF IsSum

Root(t) == [x \in {<< >>} |-> Cell([m \in Members(t) |-> <<m>>], Nowhere)]

Branch(size, g, t, m) == Placed(g[Types[t].members[m]], <<m>>, MemberOffset(size, t, m))

Branches(size, g, t) == {Root(t)} \cup {Branch(size, g, t, m) : m \in Members(t)}

LeafTree(size, t) == [x \in {<< >>} |-> Cell(<< >>, [at |-> 0, bytes |-> size[Types[t].kind]])]

TreeBy(size, g, t) == IF IsStruct(t) THEN Joined(Branches(size, g, t)) ELSE LeafTree(size, t)

LEMMA RootFacts ==
  ASSUME NEW t \in TypeIds
  PROVE  IsTree(Root(t)) /\ DOMAIN Root(t) = {<< >>} /\ Root(t)[<< >>] = Cell([m \in Members(t) |-> <<m>>], Nowhere)
<1> DEFINE kids == [m \in Members(t) |-> <<m>>]
<1>1. kids = [m \in 1 .. Len(Types[t].members) |-> kids[m]] /\ \A m \in 1 .. Len(Types[t].members) : kids[m] \in Paths
  BY TypeFacts DEF Paths
<1>2. Len(Types[t].members) \in Nat /\ Nowhere \in Sources
  BY TypeFacts DEF Nowhere, Sources
<1>3. DOMAIN Root(t) = {<< >>} /\ Root(t)[<< >>] = Cell(kids, Nowhere) /\ Root(t) = [x \in DOMAIN Root(t) |-> Root(t)[x]]
  BY DEF Root
<1> HIDE DEF kids
<1>4. Cell(kids, Nowhere) \in Cells
  BY <1>1, <1>2, CellIntro
<1>5. << >> \in Paths
  BY DEF Paths
<1>6. IsTree(Root(t))
  BY <1>3, <1>4, <1>5 DEF IsTree
<1> QED
  BY <1>3, <1>6 DEF kids

LEMMA BranchFacts ==
  ASSUME NEW size, IsSize(size), NEW t \in TypeIds, NEW m \in Members(t), NEW g, IsTree(g[Types[t].members[m]])
  PROVE  LET f == g[Types[t].members[m]]
             b == Branch(size, g, t, m)
         IN /\ IsTree(b) /\ \A x \in DOMAIN b : \E q \in DOMAIN f : x = <<m>> \o q
            /\ \A q \in DOMAIN f : <<m>> \o q \in DOMAIN b /\ b[<<m>> \o q] = Moved(f[q], <<m>>, MemberOffset(size, t, m))
            /\ \A q \in DOMAIN f : /\ q \in Paths /\ <<m>> \o q \in Paths
                                    /\ Len(<<m>> \o q) = 1 + Len(q) /\ (<<m>> \o q)[1] = m
<1> DEFINE f == g[Types[t].members[m]]
<1>1. m \in Nat
  BY TypeFacts
<1>2. <<m>> \in Paths /\ Len(<<m>>) = 1 /\ <<m>>[1] = m
  BY <1>1 DEF Paths
<1>3. MemberOffset(size, t, m) \in Nat
  BY OffsetFacts
<1>4. ASSUME NEW q \in DOMAIN f
      PROVE  q \in Paths /\ <<m>> \o q \in Paths /\ Len(<<m>> \o q) = 1 + Len(q) /\ (<<m>> \o q)[1] = m
  <2>1. q \in Paths
    BY DEF IsTree
  <2>2. 1 \in 1 .. Len(<<m>>)
    BY <1>2
  <2> QED
    BY <1>1, <1>2, <2>1, <2>2, PathFacts
<1>5. /\ DOMAIN Placed(f, <<m>>, MemberOffset(size, t, m)) = {<<m>> \o q : q \in DOMAIN f}
      /\ \A q \in DOMAIN f : Placed(f, <<m>>, MemberOffset(size, t, m))[<<m>> \o q] = Moved(f[q], <<m>>, MemberOffset(size, t, m))
      /\ IsTree(Placed(f, <<m>>, MemberOffset(size, t, m)))
  BY <1>2, <1>3, PlacedFacts
<1> QED
  BY <1>4, <1>5 DEF Branch

(* What a structure's tree is made of.                                     *)
Parts(size, g, t, T) ==
  /\ IsTree(T)
  /\ << >> \in DOMAIN T /\ T[<< >>] = Cell([m \in Members(t) |-> <<m>>], Nowhere)
  /\ \A m \in Members(t) : \A q \in DOMAIN g[Types[t].members[m]] :
       /\ <<m>> \o q \in DOMAIN T
       /\ T[<<m>> \o q] = Moved(g[Types[t].members[m]][q], <<m>>, MemberOffset(size, t, m))
  /\ \A x \in DOMAIN T : x # << >> =>
       \E m \in Members(t) : \E q \in DOMAIN g[Types[t].members[m]] : x = <<m>> \o q

LEMMA StructTree ==
  ASSUME NEW size, IsSize(size), NEW t \in TypeIds, NEW g, \A m \in Members(t) : IsTree(g[Types[t].members[m]])
  PROVE  Parts(size, g, t, Joined(Branches(size, g, t)))
<1> DEFINE B == Branches(size, g, t)
           T == Joined(B)
           f(m) == g[Types[t].members[m]]
<1>1. \A b \in B : b = Root(t) \/ \E m \in Members(t) : b = Branch(size, g, t, m)
  BY DEF Branches
<1>2. Root(t) \in B /\ \A m \in Members(t) : Branch(size, g, t, m) \in B
  BY DEF Branches
<1> HIDE DEF B, T
<1>3. \A m \in Members(t) :
        /\ IsTree(Branch(size, g, t, m)) /\ \A x \in DOMAIN Branch(size, g, t, m) : \E q \in DOMAIN f(m) : x = <<m>> \o q
        /\ \A q \in DOMAIN f(m) : <<m>> \o q \in DOMAIN Branch(size, g, t, m) /\ Branch(size, g, t, m)[<<m>> \o q] = Moved(f(m)[q], <<m>>, MemberOffset(size, t, m))
        /\ \A q \in DOMAIN f(m) : /\ q \in Paths /\ <<m>> \o q \in Paths
                                   /\ Len(<<m>> \o q) = 1 + Len(q) /\ (<<m>> \o q)[1] = m
  BY BranchFacts
<1>4. (\A b \in B : IsTree(b)) /\ DOMAIN Root(t) = {<< >>}
  BY <1>1, <1>3, RootFacts
<1>5. \A m \in Members(t) : \A q \in DOMAIN f(m) : <<m>> \o q # << >>
  <2>1. ASSUME NEW m \in Members(t), NEW q \in DOMAIN f(m) PROVE <<m>> \o q # << >>
    <3>1. Len(<<m>> \o q) = 1 + Len(q) /\ Len(q) \in Nat
      BY <1>3, LenProperties DEF Paths
    <3>2. Len(<< >>) = 0
      OBVIOUS
    <3> QED
      BY <3>1, <3>2
  <2> QED
    BY <2>1
<1>6. DOMAIN T = UNION {DOMAIN b : b \in B} /\ IsTree(T)
  BY <1>4, JoinedFacts DEF T
<1>7. << >> \in DOMAIN T /\ T[<< >>] = Cell([m \in Members(t) |-> <<m>>], Nowhere)
  <2>1. << >> \in DOMAIN Root(t) /\ Root(t)[<< >>] = Cell([m \in Members(t) |-> <<m>>], Nowhere)
    BY RootFacts
  <2>2. \A b \in B : << >> \in DOMAIN b => b = Root(t)
    <3>1. \A m \in Members(t) : << >> \notin DOMAIN Branch(size, g, t, m)
      BY <1>3, <1>5
    <3> QED
      BY <1>1, <3>1
  <2>3. T[<< >>] = Root(t)[<< >>]
    BY <1>2, <1>4, <2>1, <2>2, JoinedAt DEF T
  <2> QED
    BY <1>2, <1>6, <2>1, <2>3
<1>8. ASSUME NEW m \in Members(t), NEW q \in DOMAIN f(m)
      PROVE  <<m>> \o q \in DOMAIN T /\ T[<<m>> \o q] = Moved(f(m)[q], <<m>>, MemberOffset(size, t, m))
  <2> DEFINE x == <<m>> \o q
             b == Branch(size, g, t, m)
  <2>1. x \in DOMAIN b /\ b[x] = Moved(f(m)[q], <<m>>, MemberOffset(size, t, m)) /\ x[1] = m /\ b \in B
    BY <1>2, <1>3
  <2>2. x # << >>
    BY <1>5
  <2> HIDE DEF x
  <2>3. \A c \in B : x \in DOMAIN c => c = b
    <3>1. ASSUME NEW c \in B, x \in DOMAIN c PROVE c = b
      <4>1. c # Root(t)
        BY <1>4, <2>2, <3>1
      <4>2. PICK n \in Members(t) : c = Branch(size, g, t, n)
        BY <1>1, <4>1
      <4>3. PICK r \in DOMAIN f(n) : x = <<n>> \o r
        BY <1>3, <3>1, <4>2
      <4>4. x[1] = n
        BY <1>3, <4>3
      <4> QED
        BY <2>1, <4>2, <4>4
    <3> QED
      BY <3>1
  <2> HIDE DEF b
  <2>4. T[x] = b[x]
    BY <1>4, <2>1, <2>3, JoinedAt DEF T
  <2> QED
    BY <1>6, <2>1, <2>4 DEF x
<1>9. ASSUME NEW x \in DOMAIN T, x # << >>
      PROVE  \E m \in Members(t) : \E q \in DOMAIN f(m) : x = <<m>> \o q
  <2>1. PICK b \in B : x \in DOMAIN b
    BY <1>6
  <2>2. b # Root(t)
    BY <1>4, <1>9, <2>1
  <2>3. PICK m \in Members(t) : b = Branch(size, g, t, m)
    BY <1>1, <2>2
  <2> QED
    BY <1>3, <2>1, <2>3
<1> QED
  BY <1>6, <1>7, <1>8, <1>9 DEF B, T, Parts

(* The tree of a type: a root, every cell below it some cell's kid, and no *)
(* deeper than the number of the type.                                     *)
Rooted(f) ==
  \A x \in DOMAIN f : x # << >> => \E y \in DOMAIN f : \E m \in DOMAIN f[y].kids : x = f[y].kids[m]

Shape(f, t) ==
  /\ IsTree(f) /\ Grows(f) /\ Rooted(f) /\ << >> \in DOMAIN f
  /\ f[<< >>].kids = IF IsStruct(t) THEN [m \in Members(t) |-> <<m>>] ELSE << >>
  /\ \A x \in DOMAIN f : Len(x) < t

LEMMA LeafShape ==
  ASSUME NEW size, IsSize(size), NEW t \in TypeIds, ~IsStruct(t)
  PROVE  Shape(LeafTree(size, t), t)
<1> DEFINE f == LeafTree(size, t)
           from == [at |-> 0, bytes |-> size[Types[t].kind]]
<1>1. from \in Sources
  BY TypeFacts DEF Sources, IsSize
<1>2. DOMAIN f = {<< >>} /\ f[<< >>] = Cell(<< >>, from) /\ f = [x \in DOMAIN f |-> f[x]]
  BY DEF LeafTree
<1>3. << >> \in Paths /\ Len(<< >>) = 0 /\ DOMAIN << >> = {} /\ t \in Nat /\ 0 < t
  BY TypeFacts DEF Paths
<1> HIDE DEF f, from
<1>4. Cell(<< >>, from) \in Cells /\ f[<< >>].kids = << >>
  BY <1>1, <1>2 DEF Cell, Cells
<1>5. IsTree(f) /\ Grows(f) /\ Rooted(f)
  BY <1>2, <1>3, <1>4 DEF IsTree, Grows, Rooted
<1>6. Shape(f, t)
  BY <1>2, <1>3, <1>4, <1>5 DEF Shape
<1> QED
  BY <1>6 DEF f

LEMMA StructShape ==
  ASSUME NEW size, IsSize(size), NEW t \in TypeIds, IsStruct(t), NEW g,
         \A m \in Members(t) : Shape(g[Types[t].members[m]], Types[t].members[m])
  PROVE  Shape(Joined(Branches(size, g, t)), t)
<1> DEFINE T == Joined(Branches(size, g, t))
           u(m) == Types[t].members[m]
           f(m) == g[u(m)]
           root == [m \in Members(t) |-> <<m>>]
<1>1. /\ IsTree(T)
      /\ << >> \in DOMAIN T /\ T[<< >>] = Cell(root, Nowhere)
      /\ \A m \in Members(t) : \A q \in DOMAIN f(m) :
           <<m>> \o q \in DOMAIN T /\ T[<<m>> \o q] = Moved(f(m)[q], <<m>>, MemberOffset(size, t, m))
      /\ \A x \in DOMAIN T : x # << >> => \E m \in Members(t) : \E q \in DOMAIN f(m) : x = <<m>> \o q
  <2>1. \A m \in Members(t) : IsTree(g[Types[t].members[m]])
    BY DEF Shape
  <2>2. Parts(size, g, t, T)
    BY <2>1, StructTree
  <2> HIDE DEF T
  <2> QED
    BY <2>2 DEF Parts
<1> HIDE DEF T
<1>2. ASSUME NEW m \in Members(t), NEW q \in DOMAIN f(m)
      PROVE  /\ m \in Nat /\ q \in Paths /\ <<m>> \in Paths /\ <<m>> \o q \in Paths
             /\ Len(<<m>> \o q) = 1 + Len(q) /\ Len(q) < u(m) /\ u(m) \in 1 .. t - 1
             /\ DOMAIN T[<<m>> \o q].kids = DOMAIN f(m)[q].kids
             /\ \A i \in DOMAIN f(m)[q].kids :
                  /\ i \in Nat /\ f(m)[q].kids[i] = Append(q, i) /\ Append(q, i) \in DOMAIN f(m)
                  /\ T[<<m>> \o q].kids[i] = <<m>> \o Append(q, i)
                  /\ <<m>> \o Append(q, i) = Append(<<m>> \o q, i)
  <2>1. m \in Nat /\ u(m) \in 1 .. t - 1
    BY TypeFacts
  <2>2. Shape(f(m), u(m))
    OBVIOUS
  <2>3. q \in Paths /\ f(m)[q] \in Cells /\ Len(q) < u(m)
    BY <2>2 DEF Shape, IsTree
  <2>4. <<m>> \in Paths /\ Len(<<m>>) = 1
    BY <2>1 DEF Paths
  <2>5. <<m>> \o q \in Paths /\ Len(<<m>> \o q) = 1 + Len(q)
    BY <2>1, <2>3, <2>4, PathFacts
  <2>6. MemberOffset(size, t, m) \in Nat
    BY OffsetFacts
  <2>7. /\ DOMAIN T[<<m>> \o q].kids = DOMAIN f(m)[q].kids
        /\ \A i \in DOMAIN f(m)[q].kids : T[<<m>> \o q].kids[i] = <<m>> \o f(m)[q].kids[i]
    <3>1. T[<<m>> \o q] = Moved(f(m)[q], <<m>>, MemberOffset(size, t, m))
      BY <1>1
    <3> DEFINE c == f(m)[q]
               a == MemberOffset(size, t, m)
    <3>2. c \in Cells /\ a \in Nat
      BY <2>3, <2>6
    <3> HIDE DEF c, a
    <3>3. DOMAIN Moved(c, <<m>>, a).kids = DOMAIN c.kids /\ \A i \in DOMAIN c.kids : Moved(c, <<m>>, a).kids[i] = <<m>> \o c.kids[i]
      BY <2>4, <3>2, MovedFacts
    <3> QED
      BY <3>1, <3>3 DEF c, a
  <2>8. \A i \in DOMAIN f(m)[q].kids : i \in Nat /\ f(m)[q].kids[i] = Append(q, i) /\ Append(q, i) \in DOMAIN f(m)
    BY <2>2 DEF Shape, Grows
  <2>9. \A i \in DOMAIN f(m)[q].kids : <<m>> \o Append(q, i) = Append(<<m>> \o q, i)
    BY <2>3, <2>4, <2>8, AppendShifts, Zenon
  <2> QED
    BY <2>1, <2>3, <2>4, <2>5, <2>7, <2>8, <2>9
<1>3. T[<< >>].kids = root /\ DOMAIN root = Members(t) /\ \A m \in Members(t) : root[m] = <<m>> /\ m \in Nat
  BY <1>1, TypeFacts DEF Cell
<1>4. \A m \in Members(t) : << >> \in DOMAIN f(m) /\ <<m>> \o << >> = <<m>> /\ Append(<< >>, m) = <<m>>
  <2>1. ASSUME NEW m \in Members(t) PROVE << >> \in DOMAIN f(m) /\ <<m>> \o << >> = <<m>> /\ Append(<< >>, m) = <<m>>
    <3>1. m \in Nat /\ <<m>> \in Paths /\ << >> \in Paths
      BY <1>3 DEF Paths
    <3>2. << >> \in DOMAIN f(m)
      BY DEF Shape
    <3> QED
      BY <3>1, <3>2, PathFacts
  <2> QED
    BY <2>1
<1> HIDE DEF root, u, f
<1>5. Grows(T)
  <2>1. ASSUME NEW x \in DOMAIN T, NEW i \in DOMAIN T[x].kids
        PROVE  i \in Nat /\ T[x].kids[i] = Append(x, i) /\ Append(x, i) \in DOMAIN T
    <3>1. CASE x = << >>
      <4>1. i \in Members(t) /\ i \in Nat /\ T[x].kids[i] = <<i>>
        BY <1>3, <2>1, <3>1
      <4>2. << >> \in DOMAIN f(i) /\ <<i>> \o << >> = <<i>> /\ Append(x, i) = <<i>>
        BY <1>4, <3>1, <4>1
      <4>3. <<i>> \o << >> \in DOMAIN T
        BY <1>1, <4>1, <4>2
      <4> QED
        BY <4>1, <4>2, <4>3
    <3>2. CASE x # << >>
      <4>0. PICK m \in Members(t) : \E q \in DOMAIN f(m) : x = <<m>> \o q
        BY <1>1, <3>2
      <4>1. PICK q \in DOMAIN f(m) : x = <<m>> \o q
        BY <4>0
      <4>2. i \in DOMAIN f(m)[q].kids
        BY <1>2, <2>1, <4>1
      <4>3. /\ i \in Nat /\ Append(q, i) \in DOMAIN f(m)
            /\ T[x].kids[i] = <<m>> \o Append(q, i) /\ <<m>> \o Append(q, i) = Append(x, i)
        BY <1>2, <4>1, <4>2
      <4>4. <<m>> \o Append(q, i) \in DOMAIN T
        BY <1>1, <4>3
      <4> QED
        BY <4>3, <4>4
    <3> QED
      BY <3>1, <3>2
  <2> QED
    BY <2>1 DEF Grows
<1>6. Rooted(T)
  <2>1. ASSUME NEW x \in DOMAIN T, x # << >>
        PROVE  \E y \in DOMAIN T : \E i \in DOMAIN T[y].kids : x = T[y].kids[i]
    <3>0. PICK m \in Members(t) : \E q \in DOMAIN f(m) : x = <<m>> \o q
      BY <1>1, <2>1
    <3>1. PICK q \in DOMAIN f(m) : x = <<m>> \o q
      BY <3>0
    <3>2. CASE q = << >>
      BY <1>1, <1>3, <1>4, <3>1, <3>2
    <3>3. CASE q # << >>
      <4>1. Shape(f(m), u(m))
        BY DEF f, u
      <4>2. PICK y \in DOMAIN f(m) : \E i \in DOMAIN f(m)[y].kids : q = f(m)[y].kids[i]
        BY <3>3, <4>1 DEF Shape, Rooted
      <4>3. PICK i \in DOMAIN f(m)[y].kids : q = f(m)[y].kids[i]
        BY <4>2
      <4>4. i \in DOMAIN T[<<m>> \o y].kids /\ T[<<m>> \o y].kids[i] = <<m>> \o q /\ <<m>> \o y \in DOMAIN T
        <5>1. /\ i \in DOMAIN T[<<m>> \o y].kids /\ f(m)[y].kids[i] = Append(y, i)
              /\ T[<<m>> \o y].kids[i] = <<m>> \o Append(y, i)
          BY <1>2
        <5>2. <<m>> \o y \in DOMAIN T
          BY <1>1
        <5> QED
          BY <4>3, <5>1, <5>2
      <4> QED
        BY <3>1, <4>4
    <3> QED
      BY <3>2, <3>3
  <2> QED
    BY <2>1 DEF Rooted
<1>7. \A x \in DOMAIN T : Len(x) < t
  <2>1. ASSUME NEW x \in DOMAIN T PROVE Len(x) < t
    <3>1. t \in Nat /\ 0 < t /\ Len(<< >>) = 0
      BY TypeFacts
    <3>2. CASE x # << >>
      <4>0. PICK m \in Members(t) : \E q \in DOMAIN f(m) : x = <<m>> \o q
        BY <1>1, <3>2
      <4>1. PICK q \in DOMAIN f(m) : x = <<m>> \o q
        BY <4>0
      <4>2. Len(x) = 1 + Len(q) /\ Len(q) < u(m) /\ u(m) \in 1 .. t - 1 /\ q \in Paths
        BY <1>2, <4>1
      <4>3. Len(q) \in Nat
        BY <4>2, LenProperties DEF Paths
      <4> QED
        BY <3>1, <4>2, <4>3
    <3> QED
      BY <3>1, <3>2
  <2> QED
    BY <2>1
<1>8. Shape(T, t)
  BY <1>1, <1>3, <1>5, <1>6, <1>7 DEF Shape, root
<1> QED
  BY <1>8 DEF T

Trees == UNION {[D -> Cells] : D \in SUBSET Paths}

LEMMA TreesAreTrees == \A f : f \in Trees <=> IsTree(f)
<1>1. ASSUME NEW f, IsTree(f) PROVE f \in Trees
  <2>1. f \in [DOMAIN f -> Cells] /\ DOMAIN f \in SUBSET Paths
    BY <1>1 DEF IsTree
  <2> QED
    BY <2>1 DEF Trees
<1>2. ASSUME NEW f \in Trees PROVE IsTree(f)
  <2>1. PICK D \in SUBSET Paths : f \in [D -> Cells]
    BY DEF Trees
  <2> QED
    BY <2>1 DEF IsTree
<1> QED
  BY <1>1, <1>2

LEMMA TreeByTree ==
  ASSUME NEW size, IsSize(size), NEW t \in TypeIds, NEW g, \A m \in Members(t) : IsTree(g[Types[t].members[m]])
  PROVE  IsTree(TreeBy(size, g, t))
<1>1. CASE IsStruct(t)
  <2>1. Parts(size, g, t, Joined(Branches(size, g, t)))
    BY StructTree
  <2> QED
    BY <1>1, <2>1 DEF Parts, TreeBy
<1>2. CASE ~IsStruct(t)
  BY <1>2, LeafShape DEF TreeBy, Shape
<1> QED
  BY <1>1, <1>2

LEMMA TreeByBelow ==
  ASSUME NEW size, NEW t \in TypeIds, NEW g, NEW h, \A u \in 1 .. t - 1 : g[u] = h[u]
  PROVE  TreeBy(size, g, t) = TreeBy(size, h, t)
<1>1. \A m \in Members(t) : Branch(size, g, t, m) = Branch(size, h, t, m)
  BY TypeFacts DEF Branch
<1>2. Branches(size, g, t) = Branches(size, h, t)
  BY <1>1 DEF Branches
<1> QED
  BY <1>2 DEF TreeBy

(* The trees of all types solve the recursion, and have their shape.       *)
LEMMA TreeFacts ==
  ASSUME NEW size, IsSize(size)
  PROVE  \A t \in TypeIds : Tree(size)[t] = TreeBy(size, Tree(size), t) /\ Shape(Tree(size)[t], t)
<1> DEFINE N == Len(Types)
           F == [1 .. N -> Trees]
           step == [t \in 1 .. N |-> [g \in F |-> TreeBy(size, g, t)]]
           Body(f) == [t \in TypeIds |->
                         IF IsStruct(t)
                         THEN Joined({[x \in {<< >>} |-> Cell([m \in Members(t) |-> <<m>>], Nowhere)]} \cup
                                     {Placed(f[Types[t].members[m]], <<m>>, MemberOffset(size, t, m)) : m \in Members(t)})
                         ELSE [x \in {<< >>} |-> Cell(<< >>, [at |-> 0, bytes |-> size[Types[t].kind]])]]
<1>1. N \in Nat /\ TypeIds = 1 .. N
  BY TypeFacts
<1> HIDE DEF N
<1>2. \A t \in 1 .. N : \A g \in F : TreeBy(size, g, t) \in Trees
  <2>1. ASSUME NEW t \in 1 .. N, NEW g \in F PROVE TreeBy(size, g, t) \in Trees
    <3>1. \A m \in Members(t) : g[Types[t].members[m]] \in Trees
      BY <1>1, TypeFacts
    <3>2. \A m \in Members(t) : IsTree(g[Types[t].members[m]])
      BY <3>1, TreesAreTrees
    <3>3. IsTree(TreeBy(size, g, t))
      BY <1>1, <3>2, TreeByTree
    <3> QED
      BY <3>3, TreesAreTrees
  <2> QED
    BY <2>1
<1>3. step \in [1 .. N -> [F -> Trees]]
  BY <1>2
<1>4. \A t \in 1 .. N : \A g, h \in F : (\A u \in 1 .. t - 1 : g[u] = h[u]) => step[t][g] = step[t][h]
  BY <1>1, TreeByBelow
<1>5. Recursion(N, Trees, step)
  BY <1>3, <1>4, Zenon DEF Recursion
<1>6. << >> \in Trees
  <2>1. IsTree(<< >>)
    BY DEF IsTree
  <2> QED
    BY <2>1, TreesAreTrees
<1>7. PICK f : Solution(N, Trees, step, f)
  BY <1>1, <1>5, <1>6, CourseOfValues
<1>8. f \in F /\ \A t \in 1 .. N : f[t] = TreeBy(size, f, t)
  BY <1>7 DEF Solution
<1>9. \A g : Body(g) = [t \in TypeIds |-> TreeBy(size, g, t)]
  BY Zenon DEF TreeBy, Branches, Branch, Root, LeafTree
<1> HIDE DEF Body
<1>10. f = Body(f)
  BY <1>1, <1>8, <1>9
<1> DEFINE tree == CHOOSE g : g = Body(g)
<1>11. tree = Body(tree)
  BY <1>10
<1>12. Tree(size) = tree
  BY Zenon DEF Tree, Body
<1> HIDE DEF tree
<1>13. \A t \in TypeIds : tree[t] = TreeBy(size, tree, t)
  BY <1>9, <1>11
<1> DEFINE Good == {t \in Nat : t \in TypeIds => Shape(tree[t], t)}
<1>14. ASSUME NEW t \in Nat, \A u \in Nat : u < t => u \in Good PROVE t \in Good
  <2>1. CASE t \in TypeIds
    <3>1. \A u \in 1 .. t - 1 : u \in Nat /\ u < t /\ u \in TypeIds
      BY <1>1, <2>1
    <3>2. \A u \in 1 .. t - 1 : Shape(tree[u], u)
      BY <1>14, <3>1
    <3>3. \A m \in Members(t) : Shape(tree[Types[t].members[m]], Types[t].members[m])
      BY <2>1, <3>2, TypeFacts
    <3>4. Shape(TreeBy(size, tree, t), t)
      <4>1. CASE IsStruct(t)
        BY <2>1, <3>3, <4>1, StructShape DEF TreeBy
      <4>2. CASE ~IsStruct(t)
        BY <2>1, <4>2, LeafShape DEF TreeBy
      <4> QED
        BY <4>1, <4>2
    <3> QED
      BY <1>13, <2>1, <3>4
  <2> QED
    BY <2>1
<1> HIDE DEF Good
<1>15. Nat \subseteq Good
  BY <1>14, StrongSetInduction
<1>16. \A t \in TypeIds : Shape(tree[t], t)
  BY <1>1, <1>15 DEF Good
<1> QED
  BY <1>12, <1>13, <1>16

-----------------------------------------------------------------------------
(* What is read against what was stored.                                   *)

LeavesBy(g, t) ==
  IF IsStruct(t) THEN UNION {g[Types[t].members[m]] : m \in Members(t)} ELSE {Types[t].kind}

LEMMA LeavesFacts == \A t \in TypeIds : Leaves[t] = LeavesBy(Leaves, t)
<1> DEFINE N == Len(Types)
           S == SUBSET LeafKinds
           F == [1 .. N -> S]
           step == [t \in 1 .. N |-> [g \in F |-> LeavesBy(g, t)]]
           Body(f) == [t \in TypeIds |->
                         IF IsStruct(t) THEN UNION {f[Types[t].members[m]] : m \in Members(t)}
                         ELSE {Types[t].kind}]
<1>1. N \in Nat /\ TypeIds = 1 .. N
  BY TypeFacts
<1> HIDE DEF N
<1>2. \A t \in 1 .. N : \A g \in F : LeavesBy(g, t) \in S
  <2>1. ASSUME NEW t \in 1 .. N, NEW g \in F PROVE LeavesBy(g, t) \in S
    <3>1. \A m \in Members(t) : g[Types[t].members[m]] \in S
      BY <1>1, TypeFacts
    <3> QED
      BY <1>1, <3>1, TypeFacts DEF LeavesBy
  <2> QED
    BY <2>1
<1>3. step \in [1 .. N -> [F -> S]]
  BY <1>2
<1>4. ASSUME NEW t \in TypeIds, NEW g, NEW h, \A u \in 1 .. t - 1 : g[u] = h[u]
      PROVE  LeavesBy(g, t) = LeavesBy(h, t)
  <2>1. \A m \in Members(t) : g[Types[t].members[m]] = h[Types[t].members[m]]
    BY <1>4, TypeFacts
  <2> QED
    BY <2>1 DEF LeavesBy
<1>5. \A t \in 1 .. N : \A g, h \in F : (\A u \in 1 .. t - 1 : g[u] = h[u]) => step[t][g] = step[t][h]
  BY <1>1, <1>4
<1>6. Recursion(N, S, step)
  BY <1>3, <1>5, Zenon DEF Recursion
<1>7. {} \in S
  OBVIOUS
<1>8. PICK f : Solution(N, S, step, f)
  BY <1>1, <1>6, <1>7, CourseOfValues
<1>9. f \in F /\ \A t \in 1 .. N : f[t] = LeavesBy(f, t)
  BY <1>8 DEF Solution
<1>10. \A g : Body(g) = [t \in TypeIds |-> LeavesBy(g, t)]
  BY Zenon DEF LeavesBy
<1> HIDE DEF Body
<1>11. f = Body(f)
  BY <1>1, <1>9, <1>10
<1> DEFINE leaves == CHOOSE g : g = Body(g)
<1>12. leaves = Body(leaves)
  BY <1>11
<1>13. Leaves = leaves
  BY Zenon DEF Leaves, Body
<1> HIDE DEF leaves
<1>14. \A t \in TypeIds : leaves[t] = LeavesBy(leaves, t)
  BY <1>10, <1>12
<1> QED
  BY <1>13, <1>14

(* Reading takes no more than what is stored.                              *)
LEMMA TakesNoMore == \A t \in TypeIds : Bytes(ScalarSize)[t] <= Bytes(PsfDataSize)[t]
<1> DEFINE a == Bytes(ScalarSize)
           b == Bytes(PsfDataSize)
           Good == {t \in Nat : t \in TypeIds => a[t] <= b[t]}
<1>1. IsBytes(ScalarSize, a) /\ IsBytes(PsfDataSize, b)
  BY BytesFacts, SizesAreSizes
<1> HIDE DEF a, b
<1>2. ASSUME NEW t \in Nat, \A u \in Nat : u < t => u \in Good PROVE t \in Good
  <2>1. CASE t \in TypeIds /\ IsStruct(t)
    <3> DEFINE s == MemberBytes(a, t)
               r == MemberBytes(b, t)
    <3>1. \A u \in 1 .. t - 1 : u \in Nat /\ u < t /\ (u \in TypeIds => a[u] <= b[u])
      BY <1>2
    <3>2. \A m \in Members(t) : /\ a[Types[t].members[m]] \in Nat /\ b[Types[t].members[m]] \in Nat
                                /\ a[Types[t].members[m]] <= b[Types[t].members[m]]
      BY <1>1, <2>1, <3>1, TypeFacts DEF IsBytes
    <3>3. /\ s \in Seq(Nat) /\ Len(s) = Len(Types[t].members) /\ Len(s) \in Nat
          /\ r \in Seq(Nat) /\ Len(r) = Len(Types[t].members)
      BY <2>1, <3>2, MemberBytesFacts, TypeFacts
    <3>4. \A i \in 1 .. Len(s) : s[i] <= r[i]
      BY <2>1, <3>2, <3>3, TypeFacts DEF MemberBytes
    <3>5. a[t] = Sums(s)[Len(s)] /\ b[t] = Sums(r)[Len(s)]
      BY <1>1, <2>1, <3>3 DEF IsBytes, BytesBy
    <3> HIDE DEF s, r
    <3>6. \A n \in 0 .. Len(s) : Sums(s)[n] <= Sums(r)[n]
      BY <3>3, <3>4, SumsBelow
    <3>7. Len(s) \in 0 .. Len(s)
      BY <3>3
    <3> QED
      BY <3>5, <3>6, <3>7
  <2>2. CASE t \in TypeIds /\ ~IsStruct(t)
    <3>1. a[t] = ScalarSize[Types[t].kind] /\ b[t] = PsfDataSize[Types[t].kind] /\ Types[t].kind \in LeafKinds
      BY <1>1, <2>2, TypeFacts DEF IsBytes, BytesBy
    <3> QED
      BY <3>1 DEF ScalarSize, PsfDataSize, LeafKinds
  <2> QED
    BY <2>1, <2>2
<1> HIDE DEF Good
<1>3. Nat \subseteq Good
  BY <1>2, StrongSetInduction
<1> QED
  BY <1>3, TypeFacts DEF Good, a, b

(* Without complex leaves, the two agree.                                  *)
LEMMA PlainAgree ==
  \A t \in TypeIds : "complex" \notin Leaves[t] =>
    /\ Bytes(ScalarSize)[t] = Bytes(PsfDataSize)[t]
    /\ Tree(ScalarSize)[t] = Tree(PsfDataSize)[t]
<1> DEFINE a == Bytes(ScalarSize)
           b == Bytes(PsfDataSize)
           f == Tree(ScalarSize)
           g == Tree(PsfDataSize)
           Good == {t \in Nat : t \in TypeIds /\ "complex" \notin Leaves[t] => a[t] = b[t] /\ f[t] = g[t]}
<1>1. IsBytes(ScalarSize, a) /\ IsBytes(PsfDataSize, b)
  BY BytesFacts, SizesAreSizes
<1>2. \A t \in TypeIds : f[t] = TreeBy(ScalarSize, f, t) /\ g[t] = TreeBy(PsfDataSize, g, t)
  BY TreeFacts, SizesAreSizes
<1> HIDE DEF f, g
<1>3. ASSUME NEW t \in Nat, \A u \in Nat : u < t => u \in Good PROVE t \in Good
  <2> SUFFICES ASSUME t \in TypeIds, "complex" \notin Leaves[t] PROVE a[t] = b[t] /\ f[t] = g[t]
    OBVIOUS
  <2>1. CASE IsStruct(t)
    <3>1. \A u \in 1 .. t - 1 : u \in TypeIds /\ "complex" \notin Leaves[u] => a[u] = b[u] /\ f[u] = g[u]
      BY <1>3
    <3>2. \A m \in Members(t) : "complex" \notin Leaves[Types[t].members[m]]
      <4>1. Leaves[t] = UNION {Leaves[Types[t].members[m]] : m \in Members(t)}
        BY <2>1, LeavesFacts, Zenon DEF LeavesBy
      <4> QED
        BY <4>1
    <3>3. \A m \in Members(t) : /\ a[Types[t].members[m]] = b[Types[t].members[m]]
                                /\ f[Types[t].members[m]] = g[Types[t].members[m]]
      BY <3>1, <3>2, TypeFacts
    <3>4. MemberBytes(a, t) = MemberBytes(b, t)
      BY <3>3 DEF MemberBytes
    <3>5. a[t] = b[t]
      BY <1>1, <2>1, <3>4 DEF IsBytes, BytesBy
    <3>6. \A m \in Members(t) : MemberOffset(ScalarSize, t, m) = MemberOffset(PsfDataSize, t, m)
      BY <3>4 DEF MemberOffset, MemberBytes
    <3>7. \A m \in Members(t) : Branch(ScalarSize, f, t, m) = Branch(PsfDataSize, g, t, m)
      BY <3>3, <3>6 DEF Branch
    <3>8. Branches(ScalarSize, f, t) = Branches(PsfDataSize, g, t)
      BY <3>7 DEF Branches
    <3>9. f[t] = g[t]
      BY <1>2, <2>1, <3>8 DEF TreeBy
    <3> QED
      BY <3>5, <3>9
  <2>2. CASE ~IsStruct(t)
    <3>1. Types[t].kind \in LeafKinds \ {"complex"}
      BY <2>2, TypeFacts, LeavesFacts DEF LeavesBy
    <3>2. ScalarSize[Types[t].kind] = PsfDataSize[Types[t].kind]
      BY <3>1 DEF ScalarSize, PsfDataSize, LeafKinds
    <3>3. a[t] = b[t]
      BY <1>1, <2>2, <3>2 DEF IsBytes, BytesBy
    <3>4. f[t] = LeafTree(ScalarSize, t) /\ g[t] = LeafTree(PsfDataSize, t)
      BY <1>2, <2>2 DEF TreeBy
    <3>5. f[t] = g[t]
      BY <3>2, <3>4, Zenon DEF LeafTree
    <3> QED
      BY <3>3, <3>5
  <2> QED
    BY <2>1, <2>2
<1> HIDE DEF Good
<1>4. Nat \subseteq Good
  BY <1>3, StrongSetInduction
<1> QED
  BY <1>4, TypeFacts DEF Good, a, b, f, g

LEMMA ReadFacts ==
  ASSUME NEW t \in TypeIds
  PROVE  /\ Taken[t] \in Nat /\ DataSize[t] \in Nat /\ Taken[t] <= DataSize[t]
         /\ Shape(ReadTree[t], t) /\ Shape(StoredTree[t], t)
         /\ ~ComplexMember(t) => Taken[t] = DataSize[t] /\ ReadTree[t] = StoredTree[t]
<1>1. /\ Bytes(ScalarSize)[t] \in Nat /\ Bytes(PsfDataSize)[t] \in Nat
      /\ Shape(Tree(ScalarSize)[t], t) /\ Shape(Tree(PsfDataSize)[t], t)
  BY BytesFacts, TreeFacts, SizesAreSizes DEF IsBytes
<1>2. /\ Taken[t] = IF IsStruct(t) THEN Bytes(ScalarSize)[t] ELSE DataSize[t]
      /\ DataSize[t] = Bytes(PsfDataSize)[t]
      /\ ReadTree[t] = IF IsStruct(t) THEN Tree(ScalarSize)[t] ELSE Tree(PsfDataSize)[t]
      /\ StoredTree[t] = Tree(PsfDataSize)[t]
  BY DEF Taken, DataSize, ReadTree, StoredTree
<1>3. Bytes(ScalarSize)[t] <= Bytes(PsfDataSize)[t]
  BY TakesNoMore
<1>4. IsStruct(t) /\ ~ComplexMember(t) =>
        Bytes(ScalarSize)[t] = Bytes(PsfDataSize)[t] /\ Tree(ScalarSize)[t] = Tree(PsfDataSize)[t]
  BY PlainAgree DEF ComplexMember
<1> QED
  BY <1>1, <1>2, <1>3, <1>4

(* The cells of a structure's members.                                     *)
LEMMA NoKids ==
  ASSUME NEW kids \in Seq(Paths), DOMAIN kids = {}
  PROVE  kids = << >>
<1>1. Len(kids) = 0
  BY LenProperties
<1> QED
  BY <1>1, EmptySeq

LEMMA MemberCells ==
  ASSUME NEW t \in TypeIds, IsStruct(t), NEW m \in Members(t)
  PROVE  /\ <<m>> \in DOMAIN ReadTree[t] /\ << >> \in DOMAIN ReadTree[t]
         /\ DOMAIN ReadTree[t][<< >>].kids = Members(t) /\ ReadTree[t][<< >>].kids[m] = <<m>>
         /\ ~IsStruct(Types[t].members[m]) => ReadTree[t][<<m>>].kids = << >>
<1> DEFINE g == Tree(ScalarSize)
           u == Types[t].members[m]
<1>1. /\ ReadTree[t] = g[t] /\ \A v \in TypeIds : g[v] = TreeBy(ScalarSize, g, v) /\ Shape(g[v], v)
  BY TreeFacts, SizesAreSizes DEF ReadTree
<1>2. \A k \in Members(t) : Types[t].members[k] \in TypeIds
  BY TypeFacts
<1>3. \A k \in Members(t) : IsTree(g[Types[t].members[k]])
  BY <1>1, <1>2 DEF Shape
<1>4. m \in Nat /\ <<m>> \in Paths
  <2>1. m \in Nat
    BY TypeFacts
  <2> QED
    BY <2>1 DEF Paths
<1> HIDE DEF g
<1>5. Parts(ScalarSize, g, t, g[t])
  <2>1. g[t] = Joined(Branches(ScalarSize, g, t))
    BY <1>1 DEF TreeBy
  <2> QED
    BY <1>3, <2>1, StructTree, SizesAreSizes
<1>6. << >> \in DOMAIN g[u] /\ g[u][<< >>] \in Cells /\ IsTree(g[u]) /\ (~IsStruct(u) => g[u][<< >>].kids = << >>)
  BY <1>1, <1>2 DEF Shape, IsTree
<1>7. <<m>> \o << >> = <<m>> /\ << >> \in Paths
  BY <1>4, PathFacts DEF Paths
<1>8. <<m>> \in DOMAIN g[t] /\ g[t][<<m>>] = Moved(g[u][<< >>], <<m>>, MemberOffset(ScalarSize, t, m))
  <2>1. <<m>> \o << >> \in DOMAIN g[t] /\ g[t][<<m>> \o << >>] = Moved(g[u][<< >>], <<m>>, MemberOffset(ScalarSize, t, m))
    BY <1>5, <1>6 DEF Parts
  <2> QED
    BY <1>7, <2>1
<1>9. ASSUME ~IsStruct(u) PROVE g[t][<<m>>].kids = << >>
  <2>1. DOMAIN g[u][<< >>].kids = {}
    BY <1>6, <1>9
  <2>2. MemberOffset(ScalarSize, t, m) \in Nat
    BY OffsetFacts, SizesAreSizes
  <2>3. g[t][<<m>>] \in Cells /\ DOMAIN g[t][<<m>>].kids = DOMAIN g[u][<< >>].kids
    BY <1>4, <1>6, <1>8, <2>2, MovedFacts
  <2>4. g[t][<<m>>].kids \in Seq(Paths)
    BY <2>3 DEF Cells
  <2> QED
    BY <2>1, <2>3, <2>4, NoKids
<1>10. << >> \in DOMAIN g[t] /\ DOMAIN g[t][<< >>].kids = Members(t) /\ g[t][<< >>].kids[m] = <<m>>
  <2>1. << >> \in DOMAIN g[t] /\ g[t][<< >>] = Cell([k \in Members(t) |-> <<k>>], Nowhere)
    BY <1>5 DEF Parts
  <2> QED
    BY <2>1 DEF Cell
<1> QED
  BY <1>1, <1>8, <1>9, <1>10
=============================================================================
