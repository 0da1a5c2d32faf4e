--------------------------- MODULE SignalData_proofs ---------------------------
(***************************************************************************)
(* Theorems about SignalData, for every list of types, every file and any  *)
(* number of calls: who owns the objects of a call, what lives as long as  *)
(* the client holds it, where undefined behaviour is met, which file opens, *)
(* what is read where it was stored, and how memory is lost.               *)
(***************************************************************************)
EXTENDS SignalData, DataTypes_proofs

-----------------------------------------------------------------------------
(* What is reached.                                                        *)

Kids(h, objects) == UNION {{o} \cup KidsOf(h, o) : o \in objects}

IsReach(h, objects, reach) ==
  /\ reach[0] = objects
  /\ \A d \in 1 .. Depth : reach[d] = Kids(h, reach[d - 1])
  /\ Reach(h, objects) = reach[Depth]

LEMMA DepthFacts == Depth \in Nat /\ Depth >= 2
  BY TypeFacts DEF Depth

LEMMA ReachSteps ==
  ASSUME NEW h, NEW objects
  PROVE  \E reach : IsReach(h, objects, reach)
<1> DEFINE U == objects \cup UNION {KidsOf(h, o) : o \in DOMAIN h}
           S == SUBSET U
           up == [s \in S |-> Kids(h, s)]
           step == [d \in 1 .. Depth |-> up]
           Body(f) == [d \in 0 .. Depth |-> IF d = 0 THEN objects ELSE UNION {{o} \cup KidsOf(h, o) : o \in f[d - 1]}]
<1>1. Depth \in Nat
  BY DepthFacts
<1>2. up \in [S -> S]
  <2>1. \A o : KidsOf(h, o) \subseteq U
    BY DEF KidsOf
  <2>2. \A s \in S : Kids(h, s) \in S
    BY <2>1 DEF Kids
  <2> QED
    BY <2>2
<1>3. \A s \in S : up[s] = Kids(h, s)
  OBVIOUS
<1>4. objects \in S
  OBVIOUS
<1> HIDE DEF S, up
<1>5. Steps(Depth, S, step)
  BY <1>2 DEF Steps
<1>6. PICK f : Iterates(Depth, S, objects, step, f)
  BY <1>1, <1>4, <1>5, Iteration
<1>7. /\ f \in [0 .. Depth -> S] /\ f[0] = objects
      /\ \A d \in 1 .. Depth : f[d] = Kids(h, f[d - 1])
  <2>1. ASSUME NEW d \in 1 .. Depth PROVE f[d] = Kids(h, f[d - 1])
    <3>1. d - 1 \in 0 .. Depth
      BY <1>1
    <3>2. f[d - 1] \in S
      BY <1>6, <3>1 DEF Iterates
    <3> QED
      BY <1>3, <1>6, <3>2 DEF Iterates
  <2> QED
    BY <1>6, <2>1 DEF Iterates
<1>8. f = Body(f)
  BY <1>1, <1>7 DEF Kids
<1> DEFINE reach == CHOOSE g : g = Body(g)
<1>9. reach = Body(reach)
  BY <1>8
<1>10. Reach(h, objects) = reach[Depth]
  BY DEF Reach
<1> HIDE DEF reach
<1>11. reach[0] = objects /\ \A d \in 1 .. Depth : reach[d] = Kids(h, reach[d - 1])
  <2>1. 0 \in 0 .. Depth /\ \A d \in 1 .. Depth : d \in 0 .. Depth /\ d # 0
    BY <1>1
  <2>2. \A d \in 0 .. Depth : reach[d] = IF d = 0 THEN objects ELSE UNION {{o} \cup KidsOf(h, o) : o \in reach[d - 1]}
    BY <1>9, Zenon
  <2>3. \A d \in 0 .. Depth : reach[d] = IF d = 0 THEN objects ELSE Kids(h, reach[d - 1])
    BY <2>2, Zenon DEF Kids
  <2> QED
    BY <2>1, <2>3
<1> QED
  <2>1. IsReach(h, objects, reach)
    BY <1>10, <1>11, Zenon DEF IsReach
  <2> QED
    BY <2>1

(* What a closed set of objects has, it keeps.                             *)
LEMMA ReachWithin ==
  ASSUME NEW h, NEW objects, NEW C, objects \subseteq C, \A o \in C : KidsOf(h, o) \subseteq C
  PROVE  Reach(h, objects) \subseteq C
<1>1. PICK reach : IsReach(h, objects, reach)
  BY ReachSteps
<1> DEFINE Good == {d \in Nat : d <= Depth => reach[d] \subseteq C}
<1>2. 0 \in Good
  BY <1>1 DEF IsReach
<1>3. ASSUME NEW d \in Nat, d \in Good PROVE d + 1 \in Good
  <2>1. CASE d + 1 <= Depth
    <3>1. d + 1 \in 1 .. Depth /\ (d + 1) - 1 = d /\ d <= Depth
      BY <2>1, DepthFacts
    <3>2. reach[d + 1] = Kids(h, reach[d]) /\ reach[d] \subseteq C
      BY <1>1, <1>3, <3>1 DEF IsReach
    <3>3. Kids(h, reach[d]) \subseteq C
      BY <3>2 DEF Kids
    <3> QED
      BY <3>2, <3>3
  <2> QED
    BY <2>1
<1> HIDE DEF Good
<1>4. Nat \subseteq Good
  BY <1>2, <1>3, SetInduction
<1>5. reach[Depth] \subseteq C
  BY <1>4, DepthFacts DEF Good
<1> QED
  BY <1>1, <1>5 DEF IsReach

(* Levels rise to what is reached.                                         *)
LEMMA LevelsRise ==
  ASSUME NEW h, NEW objects, NEW reach, IsReach(h, objects, reach)
  PROVE  \A d \in 0 .. Depth : reach[d] \subseteq Reach(h, objects)
<1> DEFINE Good == {n \in Nat : n <= Depth => reach[Depth - n] \subseteq Reach(h, objects)}
<1>1. 0 \in Good
  BY DepthFacts DEF IsReach
<1>2. ASSUME NEW n \in Nat, n \in Good PROVE n + 1 \in Good
  <2>1. CASE n + 1 <= Depth
    <3>1. Depth - n \in 1 .. Depth /\ (Depth - n) - 1 = Depth - (n + 1) /\ n <= Depth
      BY <2>1, DepthFacts
    <3>2. reach[Depth - n] = Kids(h, reach[Depth - (n + 1)])
      BY <3>1 DEF IsReach
    <3>3. reach[Depth - (n + 1)] \subseteq reach[Depth - n]
      BY <3>2 DEF Kids
    <3> QED
      BY <1>2, <3>1, <3>3
  <2> QED
    BY <2>1
<1> HIDE DEF Good
<1>3. Nat \subseteq Good
  BY <1>1, <1>2, SetInduction
<1>4. ASSUME NEW d \in 0 .. Depth PROVE reach[d] \subseteq Reach(h, objects)
  <2>1. Depth - d \in Nat /\ Depth - d <= Depth /\ Depth - (Depth - d) = d
    BY DepthFacts
  <2>2. Depth - d \in Good
    BY <1>3, <2>1
  <2> QED
    BY <2>1, <2>2 DEF Good
<1> QED
  BY <1>4

LEMMA ReachTwoSteps ==
  ASSUME NEW h, NEW objects
  PROVE  /\ objects \subseteq Reach(h, objects)
         /\ \A x \in objects : KidsOf(h, x) \subseteq Reach(h, objects)
         /\ \A x \in objects : \A y \in KidsOf(h, x) : KidsOf(h, y) \subseteq Reach(h, objects)
<1>1. PICK reach : IsReach(h, objects, reach)
  BY ReachSteps
<1>2. 0 \in 0 .. Depth /\ 1 \in 0 .. Depth /\ 2 \in 0 .. Depth /\ 1 \in 1 .. Depth /\ 2 \in 1 .. Depth
  BY DepthFacts
<1>3. reach[0] = objects /\ reach[1] = Kids(h, reach[0]) /\ reach[2] = Kids(h, reach[1])
  <2>1. 1 - 1 = 0 /\ 2 - 1 = 1
    OBVIOUS
  <2>2. reach[1] = Kids(h, reach[1 - 1]) /\ reach[2] = Kids(h, reach[2 - 1]) /\ reach[0] = objects
    BY <1>1, <1>2 DEF IsReach
  <2> QED
    BY <2>1, <2>2
<1>4. reach[0] \subseteq Reach(h, objects) /\ reach[1] \subseteq Reach(h, objects) /\ reach[2] \subseteq Reach(h, objects)
  BY <1>1, <1>2, LevelsRise
<1> QED
  BY <1>3, <1>4 DEF Kids

(* Everything that is reached is a root or a kid of something reached.     *)
LEMMA ReachParent ==
  ASSUME NEW h, NEW objects, NEW y \in Reach(h, objects)
  PROVE  y \in objects \/ \E z \in Reach(h, objects) : y \in KidsOf(h, z)
<1> DEFINE R == Reach(h, objects)
           C == objects \cup {x \in R : \E z \in R : x \in KidsOf(h, z)}
<1>1. PICK reach : IsReach(h, objects, reach)
  BY ReachSteps
<1>2. \A d \in 0 .. Depth : reach[d] \subseteq R
  BY <1>1, LevelsRise
<1> HIDE DEF R
<1> DEFINE Good == {d \in Nat : d <= Depth => reach[d] \subseteq C}
<1>3. 0 \in Good
  BY <1>1 DEF IsReach
<1>4. ASSUME NEW d \in Nat, d \in Good PROVE d + 1 \in Good
  <2>1. CASE d + 1 <= Depth
    <3>1. d + 1 \in 1 .. Depth /\ (d + 1) - 1 = d /\ d <= Depth /\ d \in 0 .. Depth /\ d + 1 \in 0 .. Depth
      BY <2>1, DepthFacts
    <3>2. reach[d + 1] = Kids(h, reach[d]) /\ reach[d] \subseteq C
      BY <1>1, <1>4, <3>1 DEF IsReach
    <3>3. reach[d] \subseteq R /\ reach[d + 1] \subseteq R
      BY <1>2, <3>1
    <3>4. ASSUME NEW x \in reach[d + 1] PROVE x \in C
      <4>1. x \in reach[d] \/ \E z \in reach[d] : x \in KidsOf(h, z)
        BY <3>2, <3>4 DEF Kids
      <4> QED
        BY <3>2, <3>3, <4>1
    <3> QED
      BY <3>4
  <2> QED
    BY <2>1
<1> HIDE DEF Good
<1>5. Nat \subseteq Good
  BY <1>3, <1>4, SetInduction
<1>6. reach[Depth] \subseteq C
  BY <1>5, DepthFacts DEF Good
<1>7. y \in C
  BY <1>1, <1>6 DEF IsReach
<1> QED
  BY <1>7 DEF R

-----------------------------------------------------------------------------
(* Owners.  A kid is named after its owner, but for those of the copies in *)
(* a VectorStruct, which are named after the owner that was deleted.       *)

Loose(o)  == Len(o) >= 2 /\ o[1] # 0 /\ o[2] = 3
Copied(o) == Loose(o) /\ Len(o) = 4
Name(o)   == IF Copied(o) THEN <<o[1], 1, o[4], o[3]>> ELSE o

Named(h, o)  == \A y \in KidsOf(h, o) : \E j \in Nat : y = Append(Name(o), j)

Sound(h) ==
  /\ IsTree(h)
  /\ \A o \in DOMAIN h : Len(o) >= 1
  /\ \A o \in DOMAIN h : Named(h, o)
  /\ \A o \in DOMAIN h : Copied(o) => Name(o) \notin DOMAIN h
  /\ \A o \in DOMAIN h : ~Loose(o) => KidsOf(h, o) \subseteq DOMAIN h

LEMMA PathElements ==
  ASSUME NEW o \in Paths
  PROVE  Len(o) \in Nat /\ \A i \in 1 .. Len(o) : o[i] \in Nat
  BY LenProperties, ElementOfSeq DEF Paths

LEMMA Pair ==
  ASSUME NEW a \in Nat, NEW b \in Nat, NEW p, p = <<a, b>>
  PROVE  p \in Paths /\ Len(p) = 2 /\ p[1] = a /\ p[2] = b
  BY DEF Paths

LEMMA NameFacts ==
  ASSUME NEW o \in Paths, Len(o) >= 1
  PROVE  /\ Name(o) \in Paths /\ Len(Name(o)) = Len(o) /\ Name(o)[1] = o[1]
         /\ ~Copied(o) => Name(o) = o
         /\ Copied(o) => Name(o)[2] = 1 /\ Name(o)[3] = o[4] /\ Name(o)[4] = o[3]
<1>1. Len(o) \in Nat /\ \A i \in 1 .. Len(o) : o[i] \in Nat
  BY PathElements
<1>2. CASE Copied(o)
  <2>1. Len(o) = 4 /\ o[1] \in Nat /\ o[3] \in Nat /\ o[4] \in Nat
    BY <1>1, <1>2 DEF Copied
  <2>2. Name(o) = <<o[1], 1, o[4], o[3]>>
    BY <1>2 DEF Name
  <2> QED
    BY <1>2, <2>1, <2>2 DEF Paths
<1>3. CASE ~Copied(o)
  BY <1>3 DEF Name
<1> QED
  BY <1>2, <1>3

LEMMA NameInjective ==
  ASSUME NEW a \in Paths, NEW b \in Paths, Copied(a), Copied(b), Name(a) = Name(b)
  PROVE  a = b
<1>1. Len(a) = 4 /\ Len(b) = 4 /\ a[2] = b[2]
  BY DEF Copied, Loose
<1>2. a[1] = b[1] /\ a[3] = b[3] /\ a[4] = b[4]
  BY <1>1, NameFacts
<1>3. \A i \in 1 .. Len(a) : a[i] = b[i]
  <2>1. \A i \in 1 .. 4 : i = 1 \/ i = 2 \/ i = 3 \/ i = 4
    OBVIOUS
  <2> QED
    BY <1>1, <1>2, <2>1
<1> QED
  BY <1>1, <1>3, SeqEqual DEF Paths

LEMMA KidsAre == \A h, o : \A y : y \in KidsOf(h, o) <=> o \in DOMAIN h /\ \E m \in DOMAIN h[o].kids : y = h[o].kids[m]
  BY DEF KidsOf, ToSet

(* No object has two owners.                                               *)
LEMMA OneOwner ==
  ASSUME NEW h, Sound(h), NEW a, NEW b, NEW y \in KidsOf(h, a), y \in KidsOf(h, b)
  PROVE  a = b
<1>1. a \in DOMAIN h /\ b \in DOMAIN h
  BY KidsAre
<1>2. a \in Paths /\ b \in Paths /\ Len(a) >= 1 /\ Len(b) >= 1
  BY <1>1 DEF Sound, IsTree
<1>3. Name(a) = Name(b)
  <2>1. PICK i \in Nat : y = Append(Name(a), i)
    BY <1>1 DEF Sound, Named
  <2>2. PICK k \in Nat : y = Append(Name(b), k)
    BY <1>1 DEF Sound, Named
  <2>3. Name(a) \in Paths /\ Name(b) \in Paths
    BY <1>2, NameFacts
  <2> QED
    BY <2>1, <2>2, <2>3, AppendCancel
<1>4. CASE Copied(a) /\ Copied(b)
  BY <1>2, <1>3, <1>4, NameInjective
<1>5. CASE Copied(a) /\ ~Copied(b)
  <2>1. Name(a) = b
    BY <1>2, <1>3, <1>5, NameFacts
  <2> QED
    BY <1>1, <1>5, <2>1 DEF Sound
<1>6. CASE ~Copied(a) /\ Copied(b)
  <2>1. Name(b) = a
    BY <1>2, <1>3, <1>6, NameFacts
  <2> QED
    BY <1>1, <1>6, <2>1 DEF Sound
<1>7. CASE ~Copied(a) /\ ~Copied(b)
  BY <1>2, <1>3, <1>7, NameFacts
<1> QED
  BY <1>4, <1>5, <1>6, <1>7

(* Who owns an object that a call made, or none does.                      *)
LEMMA KidFacts ==
  ASSUME NEW h, Sound(h), NEW x, NEW y \in KidsOf(h, x)
  PROVE  /\ x \in DOMAIN h /\ x \in Paths /\ y \in Paths
         /\ Len(x) \in Nat /\ Len(x) >= 1 /\ Len(y) = Len(x) + 1
         /\ y[1] = x[1]
         /\ ~Copied(x) => \A i \in 1 .. Len(x) : y[i] = x[i]
         /\ Copied(x) => y[2] = 1 /\ y[3] = x[4] /\ y[4] = x[3]
<1>1. x \in DOMAIN h
  BY KidsAre
<1>2. x \in Paths /\ Len(x) >= 1
  BY <1>1 DEF Sound, IsTree
<1>3. PICK j \in Nat : y = Append(Name(x), j)
  BY <1>1 DEF Sound, Named
<1>4. Name(x) \in Paths /\ Len(Name(x)) = Len(x) /\ Len(x) \in Nat
  BY <1>2, NameFacts, PathElements
<1>5. y \in Paths /\ Len(y) = Len(x) + 1 /\ \A i \in 1 .. Len(x) : y[i] = Name(x)[i]
  <2>1. Append(Name(x), j) \in Paths /\ Len(Append(Name(x), j)) = Len(Name(x)) + 1
        /\ \A i \in 1 .. Len(Name(x)) : Append(Name(x), j)[i] = Name(x)[i]
    BY <1>4, AppendProperties DEF Paths
  <2> QED
    BY <1>3, <1>4, <2>1
<1>6. 1 \in 1 .. Len(x) /\ y[1] = x[1]
  BY <1>2, <1>4, <1>5, NameFacts
<1>7. ~Copied(x) => \A i \in 1 .. Len(x) : y[i] = x[i]
  BY <1>2, <1>5, NameFacts
<1>8. Copied(x) => y[2] = 1 /\ y[3] = x[4] /\ y[4] = x[3]
  <2>1. Copied(x) => 2 \in 1 .. Len(x) /\ 3 \in 1 .. Len(x) /\ 4 \in 1 .. Len(x)
    BY DEF Copied
  <2> QED
    BY <1>2, <1>5, <2>1, NameFacts
<1> QED
  BY <1>1, <1>2, <1>4, <1>5, <1>6, <1>7, <1>8

IsFcn(f) == f = [x \in DOMAIN f |-> f[x]]

LEMMA WithoutKids ==
  ASSUME NEW h, NEW freed
  PROVE  /\ DOMAIN Without(h, freed) = DOMAIN h \ freed
         /\ \A o \in DOMAIN h \ freed : KidsOf(Without(h, freed), o) = KidsOf(h, o)
  BY DEF Without, KidsOf

LEMMA WithoutFacts ==
  ASSUME NEW h, NEW freed
  PROVE  /\ DOMAIN Without(h, freed) = DOMAIN h \ freed
         /\ \A o \in DOMAIN h \ freed : Without(h, freed)[o] = h[o] /\ KidsOf(Without(h, freed), o) = KidsOf(h, o)
         /\ IsFcn(Without(h, freed))
         /\ \A o : KidsOf(Without(h, freed), o) \subseteq KidsOf(h, o)
  BY DEF Without, KidsOf, IsFcn

LEMMA PutFacts ==
  ASSUME NEW new, NEW h
  PROVE  /\ DOMAIN Put(new, h) = DOMAIN new \cup DOMAIN h
         /\ \A o \in DOMAIN new : Put(new, h)[o] = new[o] /\ KidsOf(Put(new, h), o) = KidsOf(new, o)
         /\ \A o : o \notin DOMAIN new /\ o \in DOMAIN h => Put(new, h)[o] = h[o]
         /\ \A o : o \notin DOMAIN new => KidsOf(Put(new, h), o) = KidsOf(h, o)
         /\ IsFcn(Put(new, h))
  BY DEF Put, KidsOf, IsFcn

(* What is freed from some objects on: they, and what those freed lead to. *)
Frees(h, objects, freed) == \A y \in freed : y \in objects \/ \E z \in freed : y \in KidsOf(h, z)

LEMMA ReachFrees ==
  ASSUME NEW h, NEW g, \A z : KidsOf(g, z) \subseteq KidsOf(h, z), NEW objects
  PROVE  Frees(h, objects, Reach(g, objects))
<1>1. ASSUME NEW y \in Reach(g, objects), y \notin objects
      PROVE  \E z \in Reach(g, objects) : y \in KidsOf(h, z)
  <2>1. PICK z \in Reach(g, objects) : y \in KidsOf(g, z)
    BY <1>1, ReachParent
  <2> QED
    BY <2>1
<1> QED
  BY <1>1 DEF Frees

(* A destructor that starts where no other object leads frees only its own. *)
LEMMA FreeSound ==
  ASSUME NEW h, Sound(h), NEW objects, NEW R, Frees(h, objects, R),
         \A x : ~Loose(x) => KidsOf(h, x) \cap objects = {}
  PROVE  Sound(Without(h, R))
<1> DEFINE n == Without(h, R)
<1>1. /\ DOMAIN n = DOMAIN h \ R /\ IsFcn(n)
      /\ \A o \in DOMAIN h \ R : n[o] = h[o] /\ KidsOf(n, o) = KidsOf(h, o)
  BY WithoutFacts
<1> HIDE DEF n
<1>2. ASSUME NEW x \in DOMAIN n, ~Loose(x) PROVE KidsOf(n, x) \subseteq DOMAIN n
  <2>1. ASSUME NEW y \in KidsOf(h, x) PROVE y \notin R
    <3>1. SUFFICES ASSUME y \in R PROVE FALSE
      OBVIOUS
    <3>2. y \notin objects
      BY <1>2
    <3>3. PICK z \in R : y \in KidsOf(h, z)
      BY <3>1, <3>2 DEF Frees
    <3>4. x = z
      BY <3>3, OneOwner
    <3> QED
      BY <1>1, <1>2, <3>3, <3>4
  <2>2. KidsOf(h, x) \subseteq DOMAIN h
    BY <1>1, <1>2 DEF Sound
  <2> QED
    BY <1>1, <2>1, <2>2
<1>3. IsTree(n)
  BY <1>1 DEF Sound, IsTree, IsFcn
<1>4. \A o \in DOMAIN n : Named(n, o)
  BY <1>1 DEF Sound, Named
<1>5. Sound(n)
  BY <1>1, <1>2, <1>3, <1>4 DEF Sound
<1> QED
  BY <1>5 DEF n

(* It reaches the objects of its call only.                                *)
LEMMA SameCall ==
  ASSUME NEW h, Sound(h), NEW g, \A z : KidsOf(g, z) \subseteq KidsOf(h, z), NEW c, NEW objects,
         \A x \in objects : x[1] = c
  PROVE  \A y \in Reach(g, objects) : y[1] = c
<1> DEFINE C == {y \in objects \cup UNION {KidsOf(h, o) : o \in DOMAIN h} : y[1] = c}
<1>1. objects \subseteq C
  OBVIOUS
<1>2. ASSUME NEW x \in C, NEW y \in KidsOf(g, x) PROVE y \in C
  <2>1. y \in KidsOf(h, x)
    OBVIOUS
  <2>2. x \in DOMAIN h /\ y[1] = x[1]
    BY <2>1, KidFacts
  <2> QED
    BY <2>1, <2>2
<1>3. \A x \in C : KidsOf(g, x) \subseteq C
  BY <1>2
<1>4. \A y \in C : y[1] = c
  OBVIOUS
<1> HIDE DEF C
<1> QED
  BY <1>1, <1>3, <1>4, ReachWithin

LEMMA NoOwner ==
  ASSUME NEW h, Sound(h), NEW c \in Nat
  PROVE  /\ \A x : <<c>> \notin KidsOf(h, x)
         /\ \A k \in Nat : <<c>> \notin DOMAIN h => \A x : <<c, k>> \notin KidsOf(h, x)
<1>1. ASSUME NEW x, <<c>> \in KidsOf(h, x) PROVE FALSE
  <2>1. Len(<<c>>) = Len(x) + 1 /\ Len(x) \in Nat /\ Len(x) >= 1
    BY <1>1, KidFacts
  <2>2. Len(<<c>>) = 1
    OBVIOUS
  <2> QED
    BY <2>1, <2>2
<1>2. ASSUME NEW k \in Nat, <<c>> \notin DOMAIN h, NEW x, NEW y \in KidsOf(h, x), y = <<c, k>> PROVE FALSE
  <2>1. x \in DOMAIN h /\ x \in Paths /\ Len(y) = Len(x) + 1 /\ Len(x) \in Nat /\ y[1] = x[1]
    BY KidFacts
  <2>2. Len(y) = 2 /\ y[1] = c
    BY <1>2, Pair
  <2>3. Len(x) = 1 /\ x[1] = c
    <3>1. PICK n \in Nat : n = Len(x)
      BY <2>1
    <3>2. n + 1 = 2
      BY <2>1, <2>2, <3>1
    <3> QED
      BY <2>1, <2>2, <3>1, <3>2
  <2>4. x = <<c>>
    <3>1. <<c>> \in Paths /\ Len(<<c>>) = 1 /\ <<c>>[1] = c
      BY DEF Paths
    <3>2. \A i \in 1 .. Len(x) : x[i] = <<c>>[i]
      BY <2>3, <3>1
    <3> QED
      BY <2>1, <2>3, <3>1, <3>2, SeqEqual DEF Paths
  <2> QED
    BY <1>2, <2>1, <2>4
<1> QED
  BY <1>1, <1>2

(* So a result is freed by itself only.                                    *)
LEMMA ResultStays ==
  ASSUME NEW h, Sound(h), NEW objects, NEW R, Frees(h, objects, R),
         NEW c \in Nat, NEW j \in Nat, <<c>> \notin DOMAIN h, <<c, j>> \notin objects
  PROVE  <<c, j>> \notin R
  BY NoOwner DEF Frees

(* A vector or a scalar of a call lives down to its last member.           *)
LEMMA Lives ==
  ASSUME NEW h, Sound(h), NEW o \in DOMAIN h, Len(o) >= 2, ~Loose(o)
  PROVE  ~Dangles(h, o)
<1> DEFINE C == {x \in DOMAIN h : Len(x) >= 2 /\ ~Loose(x)}
<1>1. ASSUME NEW x \in C, NEW y \in KidsOf(h, x) PROVE y \in C
  <2>1. /\ Len(x) \in Nat /\ Len(y) = Len(x) + 1 /\ y[1] = x[1]
        /\ ~Copied(x) => \A i \in 1 .. Len(x) : y[i] = x[i]
    BY KidFacts
  <2>2. 2 \in 1 .. Len(x) /\ ~Copied(x)
    BY <2>1 DEF Copied
  <2>3. y[2] = x[2] /\ Len(y) >= 2
    BY <2>1, <2>2
  <2>4. ~Loose(y)
    BY <2>1, <2>3 DEF Loose
  <2>5. y \in DOMAIN h
    BY DEF Sound
  <2> QED
    BY <2>3, <2>4, <2>5
<1>2. \A x \in C : KidsOf(h, x) \subseteq C
  BY <1>1
<1>3. {o} \subseteq C /\ C \subseteq DOMAIN h
  OBVIOUS
<1> HIDE DEF C
<1>4. Reach(h, {o}) \subseteq C
  BY <1>2, <1>3, ReachWithin
<1> QED
  BY <1>3, <1>4 DEF Dangles

(* New objects of a call that inverts nothing yet.                         *)
Fits(new, c) ==
  /\ IsTree(new)
  /\ \A x \in DOMAIN new :
       /\ Len(x) >= 1 /\ x[1] = c /\ ~Loose(x)
       /\ \A y \in KidsOf(new, x) : y \in DOMAIN new /\ \E j \in Nat : y = Append(x, j)

LEMMA PutSound ==
  ASSUME NEW h, Sound(h), NEW new, NEW c, Fits(new, c), \A o \in DOMAIN h : o[1] = c => ~Loose(o)
  PROVE  Sound(Put(new, h))
<1> DEFINE n == Put(new, h)
<1>1. /\ DOMAIN n = DOMAIN new \cup DOMAIN h /\ IsFcn(n)
      /\ \A o \in DOMAIN new : n[o] = new[o] /\ KidsOf(n, o) = KidsOf(new, o)
      /\ \A o : o \notin DOMAIN new /\ o \in DOMAIN h => n[o] = h[o]
      /\ \A o : o \notin DOMAIN new => KidsOf(n, o) = KidsOf(h, o)
  BY DEF Put, KidsOf, IsFcn
<1> HIDE DEF n
<1>2. \A o \in DOMAIN n : o \in Paths /\ n[o] \in Cells /\ Len(o) >= 1
  BY <1>1 DEF Sound, IsTree, Fits
<1>3. IsTree(n)
  BY <1>1, <1>2 DEF IsTree, IsFcn
<1>4. \A o \in DOMAIN new : Name(o) = o /\ ~Copied(o)
  BY DEF Fits, Name, Copied
<1>5. ASSUME NEW o \in DOMAIN n PROVE Named(n, o)
  <2>1. CASE o \in DOMAIN new
    BY <1>1, <1>4, <2>1 DEF Fits, Named
  <2>2. CASE o \notin DOMAIN new
    BY <1>1, <2>2 DEF Sound, Named
  <2> QED
    BY <2>1, <2>2
<1>6. ASSUME NEW o \in DOMAIN n, Copied(o) PROVE Name(o) \notin DOMAIN n
  <2>1. o \in DOMAIN h
    BY <1>1, <1>4, <1>6
  <2>2. Name(o)[1] = o[1] /\ o[1] # c
    BY <1>2, <1>6, <2>1, NameFacts DEF Copied
  <2>3. Name(o) \notin DOMAIN new
    BY <2>2 DEF Fits
  <2> QED
    BY <1>1, <1>6, <2>1, <2>3 DEF Sound
<1>7. ASSUME NEW o \in DOMAIN n, ~Loose(o) PROVE KidsOf(n, o) \subseteq DOMAIN n
  <2>1. CASE o \in DOMAIN new
    BY <1>1, <2>1 DEF Fits
  <2>2. CASE o \notin DOMAIN new
    BY <1>1, <1>7, <2>2 DEF Sound
  <2> QED
    BY <2>1, <2>2
<1>8. Sound(n)
  BY <1>2, <1>3, <1>5, <1>6, <1>7 DEF Sound
<1> QED
  BY <1>8 DEF n

-----------------------------------------------------------------------------
(* What the state says of the file.                                        *)

LEMMA FileFacts ==
  ASSUME file \in Files
  PROVE  /\ file.swept \in BOOLEAN /\ file.windowed \in BOOLEAN
         /\ Len(file.signals) \in Nat /\ DOMAIN file.signals = 1 .. Len(file.signals)
         /\ \A s \in DOMAIN file.signals : /\ s \in Nat \ {0} /\ TypeOf(s) \in TypeIds
                                           /\ file.props[s] \in Nat
         /\ Len(file.windows) \in Nat /\ file.windows \in Seq(Nat)
         /\ \A v \in 1 .. Len(file.windows) : file.windows[v] \in Nat
<1>1. /\ file.swept \in BOOLEAN /\ file.windowed \in BOOLEAN
      /\ file.signals \in Seq(TypeIds) /\ file.windows \in Seq(Nat)
      /\ file.props \in [DOMAIN file.signals -> Nat]
  BY FilesAssumed
<1>2. /\ Len(file.signals) \in Nat /\ DOMAIN file.signals = 1 .. Len(file.signals)
      /\ Len(file.windows) \in Nat
      /\ \A v \in 1 .. Len(file.windows) : file.windows[v] \in Nat
      /\ \A v \in 1 .. Len(file.signals) : file.signals[v] \in TypeIds
  BY <1>1, LenProperties, ElementOfSeq
<1> QED
  BY <1>1, <1>2 DEF TypeOf

(* The windows, and the points in those that were read.                    *)
LEMMA WindowFacts ==
  ASSUME file \in Files
  PROVE  /\ NPoints \in Nat
         /\ w \in 0 .. Len(file.windows) => First \in Nat /\ First <= NPoints
         /\ w = Len(file.windows) => First = NPoints
         /\ w \in 0 .. Len(file.windows) - 1 =>
              /\ file.windows[w + 1] \in Nat
              /\ Sums(file.windows)[w + 1] = First + file.windows[w + 1]
              /\ First + file.windows[w + 1] <= NPoints
         /\ Sums(file.windows)[0] = 0
<1> DEFINE n == Len(file.windows)
<1>1. n \in Nat /\ file.windows \in Seq(Nat) /\ \A v \in 1 .. n : file.windows[v] \in Nat
  BY FileFacts
<1>2. IsSum(file.windows, Sums(file.windows))
  BY <1>1, SumsFacts
<1>3. \A v \in 0 .. n : Sums(file.windows)[v] \in Nat /\ Sums(file.windows)[v] <= NPoints
  <2>1. ASSUME NEW v \in 0 .. n PROVE Sums(file.windows)[v] \in Nat /\ Sums(file.windows)[v] <= NPoints
    <3>1. n \in v .. n
      BY <1>1
    <3> QED
      BY <1>1, <1>2, <3>1, SumsRise DEF IsSum, NPoints
  <2> QED
    BY <2>1
<1>4. NPoints \in Nat
  BY <1>1, <1>3 DEF NPoints
<1>5. w \in 0 .. n => First \in Nat /\ First <= NPoints
  BY <1>3 DEF First
<1>6. w \in 0 .. n - 1 =>
        /\ file.windows[w + 1] \in Nat
        /\ Sums(file.windows)[w + 1] = First + file.windows[w + 1]
        /\ First + file.windows[w + 1] <= NPoints
  <2>1. ASSUME w \in 0 .. n - 1
        PROVE  /\ file.windows[w + 1] \in Nat
               /\ Sums(file.windows)[w + 1] = First + file.windows[w + 1]
               /\ First + file.windows[w + 1] <= NPoints
    <3>1. w + 1 \in 1 .. n /\ w + 1 \in 0 .. n /\ (w + 1) - 1 = w
      BY <1>1, <2>1
    <3>2. Sums(file.windows)[w + 1] = Sums(file.windows)[(w + 1) - 1] + file.windows[w + 1]
      BY <1>2, <3>1 DEF IsSum
    <3>3. Sums(file.windows)[w + 1] = First + file.windows[w + 1]
      BY <3>1, <3>2 DEF First
    <3> QED
      BY <1>1, <1>3, <3>1, <3>3
  <2> QED
    BY <2>1
<1>7. w = n => First = NPoints
  BY DEF First, NPoints
<1>8. Sums(file.windows)[0] = 0
  BY <1>2 DEF IsSum
<1> QED
  BY <1>4, <1>5, <1>6, <1>7, <1>8

(* The values of a file that is not swept, one behind the other.           *)
LEMMA ChunkFacts ==
  ASSUME file \in Files
  PROVE  /\ ChunkAt(1) = 0
         /\ \A v \in 1 .. Len(file.signals) + 1 : ChunkAt(v) \in Nat
         /\ \A v \in 1 .. Len(file.signals) : /\ ValueBytes(v) \in Nat /\ ValueBytes(v) >= HEADER
                                              /\ ChunkAt(v + 1) = ChunkAt(v) + ValueBytes(v)
         /\ \A u \in 1 .. Len(file.signals) + 1 : \A v \in u .. Len(file.signals) + 1 : ChunkAt(u) <= ChunkAt(v)
<1> DEFINE n == Len(file.signals)
           s == [u \in DOMAIN file.signals |-> ValueBytes(u)]
<1>1. n \in Nat /\ DOMAIN file.signals = 1 .. n
  BY FileFacts
<1>2. \A v \in 1 .. n : ValueBytes(v) \in Nat /\ ValueBytes(v) >= HEADER
  BY FileFacts, ReadFacts DEF ValueBytes, HEADER
<1>3. s \in Seq(Nat) /\ Len(s) = n
  <2>1. s \in [1 .. n -> Nat]
    BY <1>1, <1>2
  <2>2. s \in Seq(Nat)
    BY <1>1, <2>1, SeqDef
  <2> QED
    BY <1>1, <2>1, <2>2
<1>4. \A v \in 1 .. n : s[v] = ValueBytes(v)
  BY <1>1
<1>5. \A v : ChunkAt(v) = Sums(s)[v - 1]
  BY DEF ChunkAt
<1> HIDE DEF s
<1>6. IsSum(s, Sums(s))
  BY <1>3, SumsFacts
<1>7. ChunkAt(1) = 0
  <2>1. 1 - 1 = 0
    OBVIOUS
  <2> QED
    BY <1>5, <1>6, <2>1 DEF IsSum
<1>8. \A v \in 1 .. n + 1 : ChunkAt(v) \in Nat
  <2>1. \A v \in 1 .. n + 1 : v - 1 \in 0 .. n
    BY <1>1
  <2> QED
    BY <1>3, <1>5, <1>6, <2>1 DEF IsSum
<1>9. \A v \in 1 .. n : ChunkAt(v + 1) = ChunkAt(v) + ValueBytes(v)
  <2>1. ASSUME NEW v \in 1 .. n PROVE ChunkAt(v + 1) = ChunkAt(v) + ValueBytes(v)
    <3>1. (v + 1) - 1 = v
      BY <1>1
    <3>2. Sums(s)[v] = Sums(s)[v - 1] + s[v]
      BY <1>3, <1>6 DEF IsSum
    <3> QED
      BY <1>4, <1>5, <3>1, <3>2
  <2> QED
    BY <2>1
<1>10. ASSUME NEW u \in 1 .. n + 1, NEW v \in u .. n + 1 PROVE ChunkAt(u) <= ChunkAt(v)
  <2>1. u - 1 \in 0 .. Len(s) /\ v - 1 \in u - 1 .. Len(s)
    BY <1>1, <1>3
  <2>2. Sums(s)[u - 1] <= Sums(s)[v - 1]
    BY <1>3, <2>1, SumsRise
  <2> QED
    BY <1>5, <2>2
<1> QED
  BY <1>2, <1>7, <1>8, <1>9, <1>10

-----------------------------------------------------------------------------
(* The inductive invariant.                                                *)

FileInv ==
  /\ file \in Files /\ client \in Clients /\ buf \in Nat /\ m_invertstruct \in BOOLEAN
  /\ pc \in {"parse", "idle", "read", "convert", "failed", "deleted"}
  /\ calls \in 0 .. MaxCalls
  /\ query.signal \in {Param} \cup DOMAIN file.signals
  /\ query.signal = Param => query.invert = FALSE
  /\ w \in 0 .. Len(file.windows)

HeapInv ==
  /\ Sound(heap) /\ <<0>> \notin Allocated
  /\ \A o \in Allocated : o[1] <= calls

(* The client gets results of calls whose SweepValue was deleted, and what *)
(* C++ holds Python does not, nor the other way round.                     *)
Handle(o) == o \in Allocated /\ \E c \in 1 .. calls : \E j \in Nat : o = <<c, j>> /\ <<c>> \notin Allocated

HandleInv ==
  /\ client = "python" => held = {}
  /\ client = "cpp" => views = {}
  /\ \A o \in held : Handle(o)
  /\ \A o \in views : Handle(o) /\ o[2] = 2

(* A value that was parsed.                                                *)
IsValue(v) ==
  \A q \in DOMAIN ReadTree[TypeOf(v)] :
    /\ <<0, v>> \o q \in Allocated
    /\ heap[<<0, v>> \o q] = Moved(ReadTree[TypeOf(v)][q], <<0, v>>, ChunkAt(v) + HEADER)

ParseInv ==
  /\ pc = "parse" => ~file.swept /\ calls = 0 /\ held = {} /\ views = {}
  /\ ~file.swept /\ pc \notin {"failed", "deleted"} =>
       \A v \in DOMAIN file.signals : pc # "parse" \/ ChunkAt(v) < buf => IsValue(v)

(* A cell of the element k of the vector that is read.                     *)
IsElement(t, k, q) ==
  LET o == Append(Vec, k) \o q
  IN /\ o \in Allocated
     /\ \E a \in Nat : /\ Taken[t] = DataSize[t] => a = (k - 1) * DataSize[t]
                       /\ heap[o] = Moved(ReadTree[t][q], Append(Vec, k), a)

ReadingInv ==
  pc = "read" =>
    /\ file.swept /\ calls >= 1 /\ \A o \in Allocated : o[1] = calls => ~Loose(o)
    /\ Sv \in Allocated /\ ParVec \in Allocated /\ ParVec \in KidsOf(heap, Sv)
    /\ query.signal # Param =>
         /\ Vec \in Allocated /\ heap[Vec].kids = [k \in 1 .. NPoints |-> Append(Vec, k)]
         /\ LET t == TypeOf(query.signal)
            IN \A k \in 1 .. First : \A q \in DOMAIN ReadTree[t] : IsElement(t, k, q)

ConvertInv ==
  pc = "convert" =>
    /\ client = "python" /\ calls >= 1 /\ Sv \notin Allocated /\ Result \in Allocated
    /\ Result = Vs =>
         \A m \in Members(TypeOf(query.signal)) :
           /\ Append(Vs, m) \in Allocated
           /\ heap[Append(Vs, m)].kids = [k \in 1 .. NPoints |-> Append(Append(Vs, m), k)]
           /\ \A k \in 1 .. NPoints :
                /\ Vs \o <<m, k>> \in Allocated
                /\ ~IsStruct(Types[TypeOf(query.signal)].members[m]) => heap[Vs \o <<m, k>>].kids = << >>

LastInv == UndefinedOnlyInverted /\ (last = "undefined" => pc = "failed")

Inv == FileInv /\ HeapInv /\ HandleInv /\ ParseInv /\ ReadingInv /\ ConvertInv /\ LastInv

-----------------------------------------------------------------------------
(* The names of a call's objects.                                          *)

LEMMA AppendNames ==
  ASSUME NEW p \in Paths, NEW k \in Nat
  PROVE  /\ Append(p, k) \in Paths /\ Len(Append(p, k)) = Len(p) + 1 /\ Append(p, k)[Len(p) + 1] = k
         /\ \A i \in 1 .. Len(p) : Append(p, k)[i] = p[i]
  BY AppendProperties DEF Paths

LEMMA AppendJoin ==
  ASSUME NEW p \in Paths, NEW k \in Nat, NEW q \in Paths
  PROVE  /\ p \o <<k>> = Append(p, k) /\ Append(p, k) \in Paths /\ Append(p, k) \o q \in Paths
         /\ Len(Append(p, k)) = Len(p) + 1 /\ Append(p, k)[Len(p) + 1] = k
         /\ \A i \in 1 .. Len(p) : Append(p, k)[i] = p[i]
         /\ Len(Append(p, k) \o q) = Len(p) + 1 + Len(q)
         /\ \A i \in 1 .. Len(p) : (Append(p, k) \o q)[i] = p[i]
         /\ (Append(p, k) \o q)[Len(p) + 1] = k
<1>1. p \o <<k>> = Append(p, k)
  BY AppendIsConcat DEF Paths
<1>2. /\ Append(p, k) \in Paths /\ Len(Append(p, k)) = Len(p) + 1 /\ Append(p, k)[Len(p) + 1] = k
      /\ \A i \in 1 .. Len(p) : Append(p, k)[i] = p[i]
  BY AppendNames
<1>3. Len(p) \in Nat /\ Len(q) \in Nat
  BY PathFacts
<1>4. /\ Append(p, k) \o q \in Paths /\ Len(Append(p, k) \o q) = Len(p) + 1 + Len(q)
      /\ \A i \in 1 .. Len(p) + 1 : (Append(p, k) \o q)[i] = Append(p, k)[i]
  <2> DEFINE a == Append(p, k)
  <2>1. a \in Paths /\ Len(a) = Len(p) + 1
    BY <1>2
  <2> HIDE DEF a
  <2>2. a \o q \in Paths /\ Len(a \o q) = Len(a) + Len(q) /\ \A i \in 1 .. Len(a) : (a \o q)[i] = a[i]
    BY <2>1, PathFacts
  <2>3. a \o q \in Paths /\ Len(a \o q) = Len(p) + 1 + Len(q) /\ \A i \in 1 .. Len(p) + 1 : (a \o q)[i] = a[i]
    BY <1>3, <2>1, <2>2
  <2> QED
    BY <2>3 DEF a
<1>5. \A i \in 1 .. Len(p) : i \in 1 .. Len(p) + 1
  BY <1>3
<1>6. Len(p) + 1 \in 1 .. Len(p) + 1
  BY <1>3
<1> QED
  BY <1>1, <1>2, <1>4, <1>5, <1>6

(* The cell at q of the object k below p is named by both.                 *)
Below(p, k, q) == Append(p, k) \o q

LEMMA ElementNames ==
  ASSUME NEW p \in Paths, NEW j \in Nat, NEW k \in Nat, NEW q \in Paths, NEW r \in Paths,
         Below(p, j, q) = Below(p, k, r)
  PROVE  j = k /\ q = r
<1>0. Append(p, j) \o q = Append(p, k) \o r
  BY DEF Below
<1>1. (Append(p, j) \o q)[Len(p) + 1] = j
  BY AppendJoin
<1>2. (Append(p, k) \o r)[Len(p) + 1] = k
  BY AppendJoin
<1>3. j = k
  BY <1>0, <1>1, <1>2
<1>4. Append(p, j) \in Paths
  BY AppendNames
<1>5. Append(p, j) \o q = Append(p, j) \o r
  BY <1>0, <1>3
<1>6. q = r
  BY <1>4, <1>5, ConcatCancel
<1> QED
  BY <1>3, <1>6

LEMMA BelowFacts ==
  ASSUME NEW p \in Paths, Len(p) = 2, NEW k \in Nat, NEW q \in Paths
  PROVE  LET x == Append(p, k) \o q IN x \in Paths /\ Len(x) = 3 + Len(q) /\ Len(x) >= 3 /\ x[1] = p[1] /\ x[2] = p[2] /\ x[3] = k
<1> DEFINE x == Append(p, k) \o q
<1>1. /\ x \in Paths /\ Len(x) = Len(p) + 1 + Len(q)
      /\ \A i \in 1 .. Len(p) : x[i] = p[i]
      /\ x[Len(p) + 1] = k
  BY AppendJoin, ZenonT(30)
<1>2. Len(q) \in Nat
  BY PathFacts
<1> HIDE DEF x
<1>3. x \in Paths /\ Len(x) = 3 + Len(q) /\ Len(x) >= 3 /\ x[1] = p[1] /\ x[2] = p[2] /\ x[3] = k
  BY <1>1, <1>2
<1> QED
  BY <1>3 DEF x

LEMMA Names ==
  ASSUME NEW c \in Nat, NEW j \in Nat
  PROVE  /\ <<c>> \in Paths /\ Len(<<c>>) = 1 /\ <<c>>[1] = c
         /\ <<c, j>> \in Paths /\ Len(<<c, j>>) = 2 /\ <<c, j>>[1] = c /\ <<c, j>>[2] = j
  BY DEF Paths

LEMMA CallNames ==
  ASSUME calls \in Nat
  PROVE  /\ Sv \in Paths /\ Len(Sv) = 1 /\ Sv[1] = calls
         /\ Vec \in Paths /\ Len(Vec) = 2 /\ Vec[1] = calls /\ Vec[2] = 1
         /\ ParVec \in Paths /\ Len(ParVec) = 2 /\ ParVec[1] = calls /\ ParVec[2] = 2
         /\ Vs \in Paths /\ Len(Vs) = 2 /\ Vs[1] = calls /\ Vs[2] = 3
         /\ Scalar \in Paths /\ Len(Scalar) = 2 /\ Scalar[1] = calls /\ Scalar[2] = 4
<1>1. Sv \in Paths /\ Len(Sv) = 1 /\ Sv[1] = calls
  BY Names DEF Sv
<1>2. Vec \in Paths /\ Len(Vec) = 2 /\ Vec[1] = calls /\ Vec[2] = 1
  BY Names DEF Vec
<1>3. ParVec \in Paths /\ Len(ParVec) = 2 /\ ParVec[1] = calls /\ ParVec[2] = 2
  BY Names DEF ParVec
<1>4. Vs \in Paths /\ Len(Vs) = 2 /\ Vs[1] = calls /\ Vs[2] = 3
  BY Names DEF Vs
<1>5. Scalar \in Paths /\ Len(Scalar) = 2 /\ Scalar[1] = calls /\ Scalar[2] = 4
  BY Names DEF Scalar
<1> QED
  BY <1>1, <1>2, <1>3, <1>4, <1>5

(* Trees whose cells belong to one call.                                   *)
LEMMA GrowsFits ==
  ASSUME NEW f, NEW c, IsTree(f), Grows(f), \A x \in DOMAIN f : Len(x) >= 1 /\ x[1] = c /\ ~Loose(x)
  PROVE  Fits(f, c)
<1>1. ASSUME NEW x \in DOMAIN f, NEW y \in KidsOf(f, x) PROVE y \in DOMAIN f /\ \E j \in Nat : y = Append(x, j)
  <2>1. PICK m \in DOMAIN f[x].kids : y = f[x].kids[m]
    BY KidsAre
  <2> QED
    BY <2>1 DEF Grows
<1> QED
  BY <1>1 DEF Fits

LEMMA PlacedCells ==
  ASSUME NEW f, IsTree(f), NEW p \in Paths, NEW a \in Nat
  PROVE  /\ DOMAIN Placed(f, p, a) = {p \o q : q \in DOMAIN f}
         /\ \A q \in DOMAIN f : Placed(f, p, a)[p \o q] = Moved(f[q], p, a)
  BY PlacedFacts, Zenon

LEMMA PlacedFits ==
  ASSUME NEW f, IsTree(f), Grows(f), NEW p \in Paths, NEW a \in Nat, Len(p) >= 2, ~Loose(p)
  PROVE  Fits(Placed(f, p, a), p[1])
<1> DEFINE P == Placed(f, p, a)
<1>2. IsTree(P) /\ DOMAIN P = {p \o q : q \in DOMAIN f}
  BY PlacedFacts
<1>3. Grows(P)
  BY PlacedGrows
<1> HIDE DEF P
<1>4. ASSUME NEW x \in DOMAIN P PROVE Len(x) >= 1 /\ x[1] = p[1] /\ ~Loose(x)
  <2>1. PICK q \in DOMAIN f : x = p \o q
    BY <1>2
  <2>2. q \in Paths
    BY DEF IsTree
  <2>3. Len(x) = Len(p) + Len(q) /\ Len(p) \in Nat /\ Len(q) \in Nat /\ \A i \in 1 .. Len(p) : x[i] = p[i]
    BY <2>1, <2>2, PathFacts
  <2>4. 1 \in 1 .. Len(p) /\ 2 \in 1 .. Len(p)
    BY <2>3
  <2>5. Len(x) >= 2 /\ x[1] = p[1] /\ x[2] = p[2]
    BY <2>3, <2>4
  <2> QED
    BY <2>5 DEF Loose
<1>5. Fits(P, p[1])
  BY <1>2, <1>3, <1>4, GrowsFits
<1> QED
  BY <1>5 DEF P

LEMMA PutFits ==
  ASSUME NEW a, NEW b, NEW c, Fits(a, c), IsTree(b),
         \A x \in DOMAIN b :
           /\ Len(x) >= 1 /\ x[1] = c /\ ~Loose(x)
           /\ \A y \in KidsOf(b, x) : y \in DOMAIN a \cup DOMAIN b /\ \E j \in Nat : y = Append(x, j)
  PROVE  Fits(Put(a, b), c)
<1> DEFINE n == Put(a, b)
<1>1. /\ DOMAIN n = DOMAIN a \cup DOMAIN b /\ IsFcn(n)
      /\ \A o \in DOMAIN a : n[o] = a[o] /\ KidsOf(n, o) = KidsOf(a, o)
      /\ \A o : o \notin DOMAIN a /\ o \in DOMAIN b => n[o] = b[o]
      /\ \A o : o \notin DOMAIN a => KidsOf(n, o) = KidsOf(b, o)
  BY DEF Put, KidsOf, IsFcn
<1> HIDE DEF n
<1>2. \A o \in DOMAIN n : o \in Paths /\ n[o] \in Cells
  BY <1>1 DEF IsTree, Fits
<1>3. IsTree(n)
  BY <1>1, <1>2 DEF IsTree, IsFcn
<1>4. ASSUME NEW x \in DOMAIN n
      PROVE  /\ Len(x) >= 1 /\ x[1] = c /\ ~Loose(x)
             /\ \A y \in KidsOf(n, x) : y \in DOMAIN n /\ \E j \in Nat : y = Append(x, j)
  <2>1. CASE x \in DOMAIN a
    BY <1>1, <2>1 DEF Fits
  <2>2. CASE x \notin DOMAIN a
    BY <1>1, <2>2
  <2> QED
    BY <2>1, <2>2
<1>5. Fits(n, c)
  BY <1>3, <1>4 DEF Fits
<1> QED
  BY <1>5 DEF n

IsPut(n, new, h) ==
  /\ DOMAIN n = DOMAIN new \cup DOMAIN h /\ IsFcn(n)
  /\ \A o \in DOMAIN n : n[o] = IF o \in DOMAIN new THEN new[o] ELSE h[o]

LEMMA PutIs == \A new, h : IsPut(Put(new, h), new, h)
  BY DEF Put, IsFcn, IsPut

LEMMA PutPut == \A a, b, h : Put(a, Put(b, h)) = Put(Put(a, b), h)
<1> TAKE a, b, h
<1> DEFINE x == Put(b, h)
           y == Put(a, b)
           l == Put(a, x)
           r == Put(y, h)
<1>1. IsPut(x, b, h) /\ IsPut(y, a, b) /\ IsPut(l, a, x) /\ IsPut(r, y, h)
  BY PutIs
<1> HIDE DEF l, r, x, y
<1>2. DOMAIN l = DOMAIN r /\ IsFcn(l) /\ IsFcn(r)
  BY <1>1 DEF IsPut
<1>3. \A o \in DOMAIN l : l[o] = r[o]
  BY <1>1 DEF IsPut
<1>4. l = r
  BY <1>2, <1>3, Zenon DEF IsFcn
<1> QED
  BY <1>4 DEF l, r, x, y

-----------------------------------------------------------------------------
(* What a call makes.                                                      *)

(* The cells of a vector: its own, and those of n elements without members. *)
IsVector(f, v, n) ==
  /\ DOMAIN f = {v} \cup {Append(v, k) : k \in 1 .. n}
  /\ f[v].kids = [k \in 1 .. n |-> Append(v, k)]
  /\ \A k \in 1 .. n : f[Append(v, k)].kids = << >>

LEMMA VectorIntro ==
  ASSUME NEW v \in Paths, Len(v) >= 2, ~Loose(v), NEW n \in Nat, NEW f, IsVector(f, v, n), IsFcn(f),
         \A x \in DOMAIN f : f[x] \in Cells
  PROVE  Fits(f, v[1])
<1>1. /\ DOMAIN f = {v} \cup {Append(v, k) : k \in 1 .. n}
      /\ f[v].kids = [k \in 1 .. n |-> Append(v, k)]
      /\ \A k \in 1 .. n : f[Append(v, k)].kids = << >>
  BY DEF IsVector
<1>2. Len(v) \in Nat /\ 1 \in 1 .. Len(v) /\ 2 \in 1 .. Len(v)
  BY PathFacts
<1>3. ASSUME NEW k \in 1 .. n
      PROVE  /\ k \in Nat /\ Append(v, k) \in Paths /\ Len(Append(v, k)) >= 2
             /\ Append(v, k)[1] = v[1] /\ ~Loose(Append(v, k))
  <2>1. Append(v, k) \in Paths /\ Len(Append(v, k)) = Len(v) + 1 /\ Append(v, k)[1] = v[1] /\ Append(v, k)[2] = v[2]
    BY <1>2, AppendNames
  <2> QED
    BY <1>2, <2>1 DEF Loose
<1>4. IsTree(f)
  <2>1. \A k \in 1 .. n : Append(v, k) \in Paths
    BY <1>3
  <2>2. DOMAIN f \subseteq Paths
    BY <1>1, <2>1, Zenon
  <2> QED
    BY <2>2 DEF IsTree, IsFcn
<1>5. \A x \in DOMAIN f : Len(x) >= 1 /\ x[1] = v[1] /\ ~Loose(x)
  <2>1. ASSUME NEW x \in DOMAIN f PROVE Len(x) >= 1 /\ x[1] = v[1] /\ ~Loose(x)
    <3>1. CASE x = v
      BY <1>2, <3>1
    <3>2. CASE x # v
      <4>1. PICK k \in 1 .. n : x = Append(v, k)
        BY <1>1, <3>2
      <4>2. Len(Append(v, k)) \in Nat
        BY <1>3, PathFacts
      <4> QED
        BY <1>3, <4>1, <4>2
    <3> QED
      BY <3>1, <3>2
  <2> QED
    BY <2>1
<1>6. Grows(f)
  <2>1. ASSUME NEW x \in DOMAIN f, NEW m \in DOMAIN f[x].kids
        PROVE  m \in Nat /\ f[x].kids[m] = Append(x, m) /\ Append(x, m) \in DOMAIN f
    <3>1. CASE x = v
      <4>1. m \in 1 .. n /\ f[x].kids[m] = Append(v, m)
        BY <1>1, <3>1
      <4> QED
        BY <1>1, <3>1, <4>1
    <3>2. CASE x # v
      <4>1. PICK k \in 1 .. n : x = Append(v, k)
        BY <1>1, <3>2
      <4>2. f[x].kids = << >> /\ DOMAIN << >> = {}
        BY <1>1, <4>1
      <4>3. m \in {}
        BY <4>2
      <4> QED
        BY <4>3
    <3> QED
      BY <3>1, <3>2
  <2> QED
    BY <2>1 DEF Grows
<1> QED
  BY <1>4, <1>5, <1>6, GrowsFits

LEMMA VectorFacts ==
  ASSUME NEW v \in Paths, Len(v) >= 2, ~Loose(v), NEW n \in Nat
  PROVE  /\ IsVector(Vector(v, n), v, n) /\ Fits(Vector(v, n), v[1])
         /\ \A k \in 1 .. n : Vector(v, n)[Append(v, k)] = Cell(<< >>, Nowhere)
<1> DEFINE f == Vector(v, n)
           D == {v} \cup {Append(v, k) : k \in 1 .. n}
           seq == [k \in 1 .. n |-> Append(v, k)]
<1>1. \A k \in 1 .. n : k \in Nat /\ Append(v, k) \in Paths /\ Append(v, k) # v
  <2>1. ASSUME NEW k \in 1 .. n PROVE k \in Nat /\ Append(v, k) \in Paths /\ Append(v, k) # v
    <3>1. Len(v) \in Nat
      BY PathFacts
    <3>2. Append(v, k) \in Paths /\ Len(Append(v, k)) = Len(v) + 1
      BY AppendNames
    <3> QED
      BY <3>1, <3>2
  <2> QED
    BY <2>1
<1>2. f = [o \in D |-> Cell(IF o = v THEN seq ELSE << >>, Nowhere)]
  BY Zenon DEF Vector
<1>3. DOMAIN f = D /\ IsFcn(f) /\ v \in D
  BY <1>2 DEF IsFcn
<1>4. f[v] = Cell(seq, Nowhere)
  BY <1>2, <1>3
<1>5. \A k \in 1 .. n : Append(v, k) \in D /\ f[Append(v, k)] = Cell(<< >>, Nowhere)
  BY <1>1, <1>2
<1>6. Nowhere \in Sources
  BY DEF Nowhere, Sources
<1>7. Cell(seq, Nowhere) \in Cells
  <2>1. seq = [k \in 1 .. n |-> seq[k]] /\ \A k \in 1 .. n : seq[k] \in Paths
    BY <1>1
  <2> HIDE DEF seq
  <2> QED
    BY <1>6, <2>1, CellIntro
<1>8. Cell(<< >>, Nowhere) \in Cells
  BY <1>6 DEF Cell, Cells
<1> HIDE DEF f, seq
<1>9. \A x \in DOMAIN f : f[x] \in Cells
  BY <1>3, <1>4, <1>5, <1>7, <1>8
<1>10. f[v].kids = seq /\ \A k \in 1 .. n : f[Append(v, k)].kids = << >>
  BY <1>4, <1>5 DEF Cell
<1>11. IsVector(f, v, n)
  BY <1>3, <1>10 DEF seq, IsVector
<1>12. Fits(f, v[1])
  BY <1>3, <1>9, <1>11, VectorIntro
<1> QED
  BY <1>5, <1>11, <1>12 DEF f

LEMMA VectorBuilt ==
  ASSUME NEW v \in Paths, Len(v) >= 2, ~Loose(v), NEW n \in Nat
  PROVE  IsVector(Vector(v, n), v, n) /\ Fits(Vector(v, n), v[1])
  BY VectorFacts, Zenon

LEMMA ParamsFacts ==
  ASSUME calls \in Nat, NEW size \in Nat, NEW n
  PROVE  Fits(Params(size, n), calls) /\ IsVector(Params(size, n), ParVec, size)
<1> DEFINE v == Vector(ParVec, size)
           f == Params(size, n)
           IsRead(o) == Len(o) = 3 /\ o[3] <= n
           from(o) == [at |-> 8 * (o[3] - 1), bytes |-> 8]
<1>1. ParVec \in Paths /\ Len(ParVec) = 2 /\ ParVec[1] = calls /\ ParVec[2] = 2
  BY CallNames
<1>2. ~Loose(ParVec) /\ Len(ParVec) >= 2
  BY <1>1 DEF Loose
<1>3. IsVector(v, ParVec, size) /\ Fits(v, calls)
  BY <1>1, <1>2, VectorBuilt
<1>4. f = [o \in DOMAIN v |-> IF IsRead(o) THEN Cell(<< >>, from(o)) ELSE v[o]]
  BY Zenon DEF Params
<1> HIDE DEF v, f
<1>5. DOMAIN f = DOMAIN v /\ IsFcn(f)
  BY <1>4 DEF IsFcn
<1>6. ASSUME NEW o \in DOMAIN v
      PROVE  /\ f[o] \in Cells
             /\ o # ParVec => f[o].kids = << >>
             /\ o = ParVec => f[o] = v[o]
  <2>1. v[o] \in Cells
    BY <1>3 DEF Fits, IsTree
  <2>2. f[o] = IF IsRead(o) THEN Cell(<< >>, from(o)) ELSE v[o]
    <3> HIDE DEF IsRead, from
    <3> QED
      BY <1>4, Zenon
  <2>3. CASE o = ParVec
    <3>1. ~IsRead(o)
      BY <1>1, <2>3
    <3> HIDE DEF IsRead, from
    <3> QED
      BY <2>1, <2>2, <2>3, <3>1
  <2>4. CASE o # ParVec
    <3>1. PICK k \in 1 .. size : o = Append(ParVec, k)
      BY <1>3, <2>4 DEF IsVector
    <3>2. o[Len(ParVec) + 1] = k
      <4>1. k \in Nat
        OBVIOUS
      <4>2. Append(ParVec, k)[Len(ParVec) + 1] = k
        BY <1>1, <4>1, AppendNames
      <4> QED
        BY <3>1, <4>2
    <3>3. o[3] = k
      BY <1>1, <3>2
    <3>4. from(o) \in Sources
      BY <3>3 DEF Sources
    <3>5. v[o].kids = << >>
      BY <1>3, <3>1 DEF IsVector
    <3> HIDE DEF from, IsRead
    <3>6. Cell(<< >>, from(o)) \in Cells /\ Cell(<< >>, from(o)).kids = << >>
      BY <3>4 DEF Cell, Cells
    <3> QED
      BY <2>1, <2>2, <2>4, <3>5, <3>6
  <2> QED
    BY <2>3, <2>4
<1>7. ParVec \in DOMAIN v
  BY <1>3 DEF IsVector
<1>8. \A k \in 1 .. size : Append(ParVec, k) \in DOMAIN v /\ Append(ParVec, k) # ParVec
  <2>1. ASSUME NEW k \in 1 .. size PROVE Append(ParVec, k) \in DOMAIN v /\ Append(ParVec, k) # ParVec
    <3>1. Len(Append(ParVec, k)) = Len(ParVec) + 1
      <4>1. k \in Nat
        OBVIOUS
      <4> QED
        BY <1>1, <4>1, AppendNames
    <3> QED
      BY <1>1, <1>3, <3>1 DEF IsVector
  <2> QED
    BY <2>1
<1>9. IsVector(f, ParVec, size)
  BY <1>3, <1>5, <1>6, <1>7, <1>8 DEF IsVector
<1>10. \A x \in DOMAIN f : f[x] \in Cells
  BY <1>5, <1>6
<1>11. Fits(f, ParVec[1])
  BY <1>1, <1>2, <1>5, <1>9, <1>10, VectorIntro
<1> QED
  BY <1>1, <1>9, <1>11 DEF f

(* The elements that are read from a window, and where from.               *)
IsElements(f, t, n) ==
  /\ \A x \in DOMAIN f : \E k \in 1 .. n : \E q \in DOMAIN ReadTree[t] : x = Append(Vec, First + k) \o q
  /\ \A k \in 1 .. n : \A q \in DOMAIN ReadTree[t] :
       /\ Append(Vec, First + k) \o q \in DOMAIN f
       /\ f[Append(Vec, First + k) \o q] =
            Moved(ReadTree[t][q], Append(Vec, First + k), First * DataSize[t] + (k - 1) * Taken[t])

LEMMA ElementsFacts ==
  ASSUME calls \in Nat, First \in Nat, NEW t \in TypeIds, NEW n \in Nat
  PROVE  Fits(Elements(t, n), calls) /\ IsElements(Elements(t, n), t, n)
<1> DEFINE at(k) == First * DataSize[t] + (k - 1) * Taken[t]
           name(k) == Append(Vec, First + k)
           tree(k) == Placed(ReadTree[t], name(k), at(k))
           trees == {tree(k) : k \in 1 .. n}
           J == Joined(trees)
<1>1. Vec \in Paths /\ Len(Vec) = 2 /\ Vec[1] = calls /\ Vec[2] = 1
  BY CallNames
<1>2. /\ DataSize[t] \in Nat /\ Taken[t] \in Nat
      /\ IsTree(ReadTree[t]) /\ Grows(ReadTree[t])
  BY ReadFacts DEF Shape
<1>3. ASSUME NEW k \in 1 .. n
      PROVE  /\ k \in Nat /\ First + k \in Nat /\ at(k) \in Nat
             /\ name(k) \in Paths /\ Len(name(k)) >= 2 /\ name(k)[1] = calls /\ ~Loose(name(k))
  <2>1. k \in Nat /\ First + k \in Nat /\ k - 1 \in Nat
    OBVIOUS
  <2>2. (k - 1) * Taken[t] \in Nat /\ First * DataSize[t] \in Nat
    BY <1>2, <2>1
  <2>3. name(k) \in Paths /\ Len(name(k)) = Len(Vec) + 1 /\ \A i \in 1 .. Len(Vec) : name(k)[i] = Vec[i]
    BY <1>1, <2>1, AppendJoin
  <2>4. 1 \in 1 .. Len(Vec) /\ 2 \in 1 .. Len(Vec)
    BY <1>1
  <2>5. Len(name(k)) = 3 /\ name(k)[1] = calls /\ name(k)[2] = 1
    BY <1>1, <2>3, <2>4
  <2> QED
    BY <2>1, <2>2, <2>3, <2>5 DEF Loose
<1>4. \A x \in Paths : \A k \in 1 .. n : \A j \in 1 .. n : \A q \in Paths :
        x = name(k) \o q /\ (\E r \in Paths : x = name(j) \o r) => j = k
  <2>1. ASSUME NEW k \in 1 .. n, NEW j \in 1 .. n, NEW q \in Paths, NEW r \in Paths,
               Append(Vec, First + k) \o q = Append(Vec, First + j) \o r
        PROVE  j = k
    <3>1. k \in Nat /\ j \in Nat /\ First + k \in Nat /\ First + j \in Nat
      BY <1>3
    <3>2. Below(Vec, First + k, q) = Below(Vec, First + j, r)
      BY <2>1 DEF Below
    <3>3. First + k = First + j
      BY <1>1, <3>1, <3>2, ElementNames
    <3> QED
      BY <3>1, <3>3
  <2> QED
    BY <2>1
<1>5. Elements(t, n) = J
  BY Zenon DEF Elements
<1> HIDE DEF name, at
<1>6. ASSUME NEW k \in 1 .. n
      PROVE  /\ IsTree(tree(k)) /\ Grows(tree(k)) /\ Fits(tree(k), calls)
             /\ DOMAIN tree(k) = {name(k) \o q : q \in DOMAIN ReadTree[t]}
             /\ \A q \in DOMAIN ReadTree[t] : /\ q \in Paths /\ name(k) \o q \in Paths
                                              /\ tree(k)[name(k) \o q] = Moved(ReadTree[t][q], name(k), at(k))
  <2>1. name(k) \in Paths /\ at(k) \in Nat
    BY <1>3
  <2>2. IsTree(tree(k)) /\ DOMAIN tree(k) = {name(k) \o q : q \in DOMAIN ReadTree[t]}
        /\ \A q \in DOMAIN ReadTree[t] : tree(k)[name(k) \o q] = Moved(ReadTree[t][q], name(k), at(k))
    <3>1. IsTree(ReadTree[t])
      BY <1>2
    <3> QED
      BY <2>1, <3>1, PlacedFacts, ZenonT(30)
  <2>3. Grows(tree(k))
    BY <1>2, <2>1, PlacedGrows
  <2>4. Fits(tree(k), name(k)[1])
    BY <1>2, <1>3, <2>1, PlacedFits
  <2>5. \A q \in DOMAIN ReadTree[t] : q \in Paths /\ name(k) \o q \in Paths
    BY <1>2, <2>1, PathFacts DEF IsTree
  <2> QED
    BY <1>3, <2>2, <2>3, <2>4, <2>5
<1> HIDE DEF tree
<1>7. \A f \in trees : IsTree(f) /\ Grows(f)
  BY <1>6
<1>8. \A f \in trees : \E k \in 1 .. n : f = tree(k)
  OBVIOUS
<1>9. \A k \in 1 .. n : tree(k) \in trees
  OBVIOUS
<1> HIDE DEF trees
<1>10. /\ DOMAIN J = UNION {DOMAIN f : f \in trees} /\ IsTree(J)
       /\ \A x \in DOMAIN J : \E f \in trees : x \in DOMAIN f
  BY <1>7, JoinedFacts
<1>11. Grows(J)
  BY <1>7, JoinedGrows
<1>12. ASSUME NEW k \in 1 .. n, NEW q \in DOMAIN ReadTree[t]
       PROVE  name(k) \o q \in DOMAIN J /\ J[name(k) \o q] = Moved(ReadTree[t][q], name(k), at(k))
  <2> DEFINE x == name(k) \o q
  <2>1. x \in DOMAIN tree(k) /\ tree(k)[x] = Moved(ReadTree[t][q], name(k), at(k)) /\ x \in Paths /\ q \in Paths
    BY <1>6
  <2>2. ASSUME NEW g \in trees, x \in DOMAIN g PROVE g = tree(k)
    <3>1. PICK j \in 1 .. n : g = tree(j)
      BY <1>8
    <3>2. PICK r \in DOMAIN ReadTree[t] : x = name(j) \o r
      BY <1>6, <2>2, <3>1
    <3>3. r \in Paths
      BY <1>6
    <3>4. j = k
      BY <1>4, <2>1, <3>2, <3>3
    <3> QED
      BY <3>1, <3>4
  <2> HIDE DEF x
  <2>3. x \in DOMAIN J
    BY <1>9, <1>10, <2>1
  <2>4. J[x] = tree(k)[x]
    BY <1>7, <1>9, <2>1, <2>2, JoinedAt
  <2> QED
    BY <2>1, <2>3, <2>4 DEF x
<1>13. ASSUME NEW x \in DOMAIN J
       PROVE  (\E k \in 1 .. n : \E q \in DOMAIN ReadTree[t] : x = name(k) \o q) /\ Len(x) >= 1 /\ x[1] = calls /\ ~Loose(x)
  <2>1. PICK f \in trees : x \in DOMAIN f
    BY <1>10
  <2>2. PICK k \in 1 .. n : f = tree(k)
    BY <1>8
  <2>3. Fits(f, calls) /\ \E q \in DOMAIN ReadTree[t] : x = name(k) \o q
    BY <1>6, <2>1, <2>2
  <2> QED
    BY <2>1, <2>3 DEF Fits
<1>14. Fits(J, calls)
  BY <1>10, <1>11, <1>13, GrowsFits
<1>15. IsElements(J, t, n)
  BY <1>12, <1>13 DEF IsElements, name, at
<1> QED
  BY <1>5, <1>14, <1>15

-----------------------------------------------------------------------------
(* What a step keeps.                                                      *)

(* No object goes, or those of the section's values do not.                *)
KeepsValues == \A o \in Allocated : o[1] = 0 => o \in Allocated' /\ heap'[o] = heap[o]

LEMMA ValueKept ==
  ASSUME HeapInv, file' = file, KeepsValues, NEW v \in DOMAIN file.signals, file \in Files, IsValue(v)
  PROVE  IsValue(v)'
<1>1. TypeOf(v)' = TypeOf(v) /\ ChunkAt(v)' = ChunkAt(v)
  BY DEF TypeOf, ChunkAt, ValueBytes
<1>2. v \in Nat /\ TypeOf(v) \in TypeIds
  BY FileFacts
<1>3. IsTree(ReadTree[TypeOf(v)])
  BY <1>2, ReadFacts DEF Shape
<1>4. ASSUME NEW q \in DOMAIN ReadTree[TypeOf(v)]
      PROVE  /\ <<0, v>> \o q \in Allocated'
             /\ heap'[<<0, v>> \o q] = Moved(ReadTree[TypeOf(v)][q], <<0, v>>, ChunkAt(v) + HEADER)
  <2>1. q \in Paths
    BY <1>3 DEF IsTree
  <2>2. <<0, v>> \in Paths /\ Len(<<0, v>>) = 2 /\ <<0, v>>[1] = 0
    BY <1>2, Names
  <2>3. 1 \in 1 .. Len(<<0, v>>)
    BY <2>2
  <2>4. (<<0, v>> \o q)[1] = <<0, v>>[1]
    BY <2>1, <2>2, <2>3, PathFacts
  <2>5. <<0, v>> \o q \in Allocated /\ heap[<<0, v>> \o q] = Moved(ReadTree[TypeOf(v)][q], <<0, v>>, ChunkAt(v) + HEADER)
    BY DEF IsValue
  <2> QED
    BY <2>2, <2>4, <2>5 DEF KeepsValues
<1> QED
  BY <1>1, <1>4 DEF IsValue, Allocated

LEMMA ParseKept ==
  ASSUME FileInv, HeapInv, ParseInv, file' = file, KeepsValues, pc # "parse", pc' # "parse",
         pc \in {"failed", "deleted"} => pc' \in {"failed", "deleted"}
  PROVE  ParseInv'
<1>1. ASSUME ~file.swept, pc' \notin {"failed", "deleted"}, NEW v \in DOMAIN file.signals PROVE IsValue(v)'
  <2>1. IsValue(v)
    BY <1>1 DEF ParseInv
  <2> QED
    BY <2>1, ValueKept DEF FileInv
<1> QED
  BY <1>1 DEF ParseInv

(* A handle stays one if its object lives, and no call begins again.       *)
LEMMA HandleKept ==
  ASSUME FileInv, HeapInv, calls' \in {calls, calls + 1}, NEW o, Handle(o), o \in Allocated',
         \A x \in Allocated' : x \in Allocated \/ Len(x) >= 2 \/ x[1] = calls + 1
  PROVE  Handle(o)'
<1>1. PICK c \in 1 .. calls : \E j \in Nat : o = <<c, j>> /\ <<c>> \notin Allocated
  BY DEF Handle
<1>2. PICK j \in Nat : o = <<c, j>>
  BY <1>1
<1>3. calls \in Nat
  BY CallsAssumed DEF FileInv
<1>4. c \in 1 .. calls' /\ c # calls + 1 /\ c \in Nat
  BY <1>3
<1>5. Len(<<c>>) = 1 /\ <<c>>[1] = c
  BY <1>4, Names
<1>6. <<c>> \notin Allocated'
  BY <1>1, <1>4, <1>5
<1> QED
  BY <1>2, <1>4, <1>6 DEF Handle

LEMMA HandlesKept ==
  ASSUME FileInv, HeapInv, HandleInv, client' = client, calls' \in {calls, calls + 1},
         held' \subseteq held, views' \subseteq views, held' \subseteq Allocated', views' \subseteq Allocated',
         \A x \in Allocated' : x \in Allocated \/ Len(x) >= 2 \/ x[1] = calls + 1
  PROVE  HandleInv'
<1>1. \A o \in held' : Handle(o)'
  BY HandleKept DEF HandleInv
<1>2. \A o \in views' : Handle(o)' /\ o[2] = 2
  BY HandleKept DEF HandleInv
<1> QED
  BY <1>1, <1>2 DEF HandleInv

LEMMA LastKept ==
  ASSUME LastInv, pc # "failed", last' # "undefined" \/ last' = last
  PROVE  LastInv'
  BY DEF LastInv, UndefinedOnlyInverted

(* A step that frees objects of one call, from some on that are no kids.   *)
LEMMA FreeKeeps ==
  ASSUME FileInv, HeapInv, HandleInv, NEW c \in Nat, NEW objects, NEW freed, Frees(heap, objects, freed),
         \A y \in freed : y[1] = c, \A x : ~Loose(x) => KidsOf(heap, x) \cap objects = {},
         heap' = Without(heap, freed), calls' = calls
  PROVE  /\ HeapInv'
         /\ Allocated' = Allocated \ freed /\ \A o \in Allocated \ freed : heap'[o] = heap[o]
         /\ c # 0 => KeepsValues
         /\ \A o \in held \cup views : o \notin objects => o \in Allocated'
<1>1. Allocated' = Allocated \ freed /\ \A o \in Allocated \ freed : heap'[o] = heap[o]
  BY WithoutFacts DEF Allocated
<1>2. Sound(heap')
  BY FreeSound DEF HeapInv
<1>3. HeapInv'
  BY <1>1, <1>2 DEF HeapInv
<1>4. c # 0 => KeepsValues
  BY <1>1 DEF KeepsValues
<1>5. ASSUME NEW o \in held \cup views, o \notin objects PROVE o \in Allocated'
  <2>1. Handle(o)
    BY DEF HandleInv
  <2>2. PICK d \in 1 .. calls : \E j \in Nat : o = <<d, j>> /\ <<d>> \notin Allocated
    BY <2>1 DEF Handle
  <2>3. PICK j \in Nat : o = <<d, j>>
    BY <2>2
  <2>4. <<d, j>> \notin freed
    BY <1>5, <2>2, <2>3, ResultStays DEF HeapInv, Allocated
  <2> QED
    BY <1>1, <2>1, <2>3, <2>4 DEF Handle
<1> QED
  BY <1>1, <1>3, <1>4, <1>5

(* A step that makes objects of the running call.                          *)
LEMMA MakeKeeps ==
  ASSUME FileInv, HeapInv, NEW c \in Nat, NEW new, Fits(new, c), \A o \in Allocated : o[1] = c => ~Loose(o),
         heap' = Put(new, heap), calls' \in Nat, calls' >= calls, c <= calls', << 0 >> \notin DOMAIN new
  PROVE  /\ HeapInv'
         /\ Allocated' = DOMAIN new \cup Allocated
         /\ \A o \in DOMAIN new : heap'[o] = new[o]
         /\ \A o \in Allocated \ DOMAIN new : heap'[o] = heap[o]
<1>1. /\ Allocated' = DOMAIN new \cup Allocated
      /\ \A o \in DOMAIN new : heap'[o] = new[o]
      /\ \A o \in Allocated \ DOMAIN new : heap'[o] = heap[o]
  <2>1. IsPut(heap', new, heap)
    BY PutIs
  <2> QED
    BY <2>1 DEF IsPut, Allocated
<1>2. Sound(heap')
  BY PutSound DEF HeapInv, Allocated
<1>3. ASSUME NEW o \in Allocated' PROVE o[1] <= calls'
  <2>1. CASE o \in DOMAIN new
    BY <2>1 DEF Fits
  <2>2. CASE o \in Allocated
    <3>1. o \in Paths /\ Len(o) >= 1
      BY <2>2 DEF HeapInv, Sound, IsTree, Allocated
    <3>2. o[1] \in Nat
      <4>1. Len(o) \in Nat /\ \A i \in 1 .. Len(o) : o[i] \in Nat
        BY <3>1, PathElements
      <4> QED
        BY <3>1, <4>1
    <3>3. calls \in Nat /\ o[1] <= calls
      BY <2>2, CallsAssumed DEF HeapInv, FileInv
    <3> QED
      BY <3>2, <3>3
  <2> QED
    BY <1>1, <2>1, <2>2
<1> QED
  BY <1>1, <1>2, <1>3 DEF HeapInv

-----------------------------------------------------------------------------
(* Every step keeps the invariant.                                         *)

LEMMA InitInv == Init => Inv
<1> SUFFICES ASSUME Init PROVE Inv
  OBVIOUS
<1>1. Allocated = {}
  BY DEF Init, Allocated
<1>2. FileInv
  <2>1. file \in Files /\ Len(file.windows) \in Nat
    BY FileFacts DEF Init
  <2>2. 0 \in 0 .. MaxCalls
    BY CallsAssumed
  <2>3. query.signal = Param /\ query.invert = FALSE
    BY DEF Init
  <2>4. calls = 0 /\ w = 0 /\ buf = 0 /\ m_invertstruct = FALSE /\ client \in Clients /\ pc \in {"idle", "parse"}
    BY DEF Init
  <2>5. w \in 0 .. Len(file.windows) /\ calls \in 0 .. MaxCalls
    BY <2>1, <2>2, <2>4
  <2>6. query.signal \in {Param} \cup DOMAIN file.signals /\ query.invert = FALSE
    BY <2>3
  <2>7. buf \in Nat /\ m_invertstruct \in BOOLEAN /\ pc \in {"parse", "idle", "read", "convert", "failed", "deleted"}
    BY <2>4
  <2> QED
    BY <2>1, <2>4, <2>5, <2>6, <2>7 DEF FileInv
<1>3. HeapInv
  <2>1. IsTree(heap)
    BY DEF Init, IsTree
  <2> QED
    BY <1>1, <2>1 DEF HeapInv, Sound, Allocated
<1>4. HandleInv /\ ReadingInv /\ ConvertInv /\ LastInv
  BY DEF Init, HandleInv, ReadingInv, ConvertInv, LastInv, UndefinedOnlyInverted
<1>5. ParseInv
  <2>1. \A v \in DOMAIN file.signals : ChunkAt(v) \in Nat
    BY <1>2, ChunkFacts, FileFacts DEF FileInv
  <2>2. \A v \in DOMAIN file.signals : ~(ChunkAt(v) < 0)
    BY <2>1
  <2>3. buf = 0 /\ (file.swept => pc = "idle") /\ (~file.swept => pc = "parse") /\ calls = 0 /\ held = {} /\ views = {}
    BY DEF Init
  <2> QED
    BY <2>2, <2>3 DEF ParseInv
<1> QED
  BY <1>2, <1>3, <1>4, <1>5 DEF Inv

LEMMA ParseValueInv == Inv /\ ParseValue => Inv'
<1> SUFFICES ASSUME Inv, ParseValue PROVE Inv'
  OBVIOUS
<1>1. FileInv /\ HeapInv /\ HandleInv /\ ParseInv /\ LastInv
  BY DEF Inv
<1>2. /\ pc = "parse" /\ buf < SubEnd /\ pc' = pc /\ file' = file /\ client' = client
      /\ m_invertstruct' = m_invertstruct /\ calls' = calls /\ query' = query /\ w' = w
      /\ held' = held /\ views' = views /\ last' = last
  BY DEF ParseValue
<1>3. PICK v \in DOMAIN file.signals :
        /\ buf = ChunkAt(v)
        /\ heap' = Put(Placed(ReadTree[TypeOf(v)], <<0, v>>, buf + HEADER), heap)
        /\ buf' = buf + HEADER + Taken[TypeOf(v)] + BlockBytes(v, buf + HEADER + Taken[TypeOf(v)])
  BY Zenon DEF ParseValue
<1> DEFINE t == TypeOf(v)
           p == <<0, v>>
           new == Placed(ReadTree[t], p, buf + HEADER)
<1>4. file \in Files /\ file.swept = FALSE /\ calls = 0 /\ held = {} /\ views = {}
  BY <1>1, <1>2, FileFacts DEF FileInv, ParseInv
<1>5. v \in 1 .. Len(file.signals) /\ v \in Nat /\ t \in TypeIds /\ file.props[v] \in Nat /\ Len(file.signals) \in Nat
  BY <1>4, FileFacts
<1>6. p \in Paths /\ Len(p) = 2 /\ p[1] = 0
  BY <1>5, Names
<1>7. buf \in Nat /\ HEADER \in Nat /\ buf + HEADER \in Nat
  BY <1>1 DEF FileInv, HEADER
<1>8. Taken[t] \in Nat /\ DataSize[t] \in Nat /\ Taken[t] <= DataSize[t] /\ Shape(ReadTree[t], t)
  BY <1>5, ReadFacts
<1>9. Fits(new, 0)
  <2>1. ~Loose(p) /\ Len(p) >= 2
    BY <1>6 DEF Loose
  <2>2. IsTree(ReadTree[t]) /\ Grows(ReadTree[t])
    BY <1>8 DEF Shape
  <2>3. Fits(new, p[1])
    BY <1>6, <1>7, <2>1, <2>2, PlacedFits
  <2> QED
    BY <1>6, <2>3
<1>10. /\ DOMAIN new = {p \o q : q \in DOMAIN ReadTree[t]}
       /\ \A q \in DOMAIN ReadTree[t] : q \in Paths /\ p \o q \in DOMAIN new /\ new[p \o q] = Moved(ReadTree[t][q], p, buf + HEADER)
  <2>1. IsTree(ReadTree[t])
    BY <1>8 DEF Shape
  <2>2. /\ DOMAIN new = {p \o q : q \in DOMAIN ReadTree[t]}
        /\ \A q \in DOMAIN ReadTree[t] : new[p \o q] = Moved(ReadTree[t][q], p, buf + HEADER)
    BY <1>6, <1>7, <2>1, PlacedCells
  <2> QED
    BY <2>1, <2>2 DEF IsTree
<1>11. buf' \in Nat /\ buf' <= ChunkAt(v + 1)
  <2>1. BlockBytes(v, buf + HEADER + Taken[t]) \in {0, file.props[v]}
    BY DEF BlockBytes
  <2>2. ChunkAt(v + 1) = ChunkAt(v) + ValueBytes(v)
    BY <1>4, <1>5, ChunkFacts
  <2>3. ValueBytes(v) = HEADER + DataSize[t] + file.props[v]
    BY DEF ValueBytes
  <2>4. PICK b : b = BlockBytes(v, buf + HEADER + Taken[t])
    OBVIOUS
  <2>5. b \in Nat /\ b <= file.props[v]
    BY <1>5, <2>1, <2>4
  <2>6. buf' = buf + HEADER + Taken[t] + b /\ buf = ChunkAt(v)
    BY <1>3, <2>4
  <2>7. PICK d \in Nat, taken \in Nat, h \in Nat, r \in Nat : d = DataSize[t] /\ taken = Taken[t] /\ h = HEADER /\ r = file.props[v]
    BY <1>5, <1>7, <1>8
  <2>8. taken <= d /\ b <= r
    BY <1>8, <2>5, <2>7
  <2> QED
    BY <1>7, <2>2, <2>3, <2>5, <2>6, <2>7, <2>8
<1>12. heap' = Put(new, heap)
  BY <1>3
<1>13. <<0>> \notin DOMAIN new
  <2>1. ASSUME NEW q \in DOMAIN ReadTree[t] PROVE p \o q # <<0>>
    <3>1. Len(p \o q) = 2 + Len(q) /\ Len(q) \in Nat
      BY <1>6, <1>10, PathFacts
    <3>2. Len(<<0>>) = 1
      OBVIOUS
    <3> QED
      BY <3>1, <3>2
  <2> QED
    BY <1>10, <2>1
<1> HIDE DEF new, p
<1>14. /\ HeapInv' /\ Allocated' = DOMAIN new \cup Allocated
       /\ \A o \in DOMAIN new : heap'[o] = new[o]
       /\ \A o \in Allocated \ DOMAIN new : heap'[o] = heap[o]
  <2>1. \A o \in Allocated : o[1] = 0 => ~Loose(o)
    BY DEF Loose
  <2> QED
    BY <1>1, <1>2, <1>4, <1>9, <1>12, <1>13, <2>1, MakeKeeps
<1>15. FileInv'
  BY <1>1, <1>2, <1>11 DEF FileInv
<1>16. ParseInv'
  <2>1. ASSUME NEW u \in DOMAIN file.signals, ChunkAt(u) < buf' PROVE IsValue(u)'
    <3>1. u \in 1 .. Len(file.signals) /\ u \in Nat /\ TypeOf(u) \in TypeIds
      BY <1>4, FileFacts
    <3>2. TypeOf(u)' = TypeOf(u) /\ ChunkAt(u)' = ChunkAt(u)
      BY <1>2 DEF TypeOf, ChunkAt, ValueBytes
    <3>3. CASE u = v
      <4>1. \A q \in DOMAIN ReadTree[t] : <<0, v>> \o q \in Allocated' /\ heap'[<<0, v>> \o q] = Moved(ReadTree[t][q], <<0, v>>, ChunkAt(v) + HEADER)
        BY <1>3, <1>10, <1>14 DEF p
      <4> QED
        BY <3>2, <3>3, <4>1 DEF IsValue, Allocated
    <3>4. CASE u # v
      <4>1. u < v
        <5>1. CASE u > v
          <6>1. v + 1 \in 1 .. Len(file.signals) + 1 /\ u \in v + 1 .. Len(file.signals) + 1 /\ u \in 1 .. Len(file.signals) + 1
            BY <1>5, <3>1, <5>1
          <6>2. ChunkAt(v + 1) <= ChunkAt(u) /\ ChunkAt(v + 1) \in Nat /\ ChunkAt(u) \in Nat
            BY <1>4, <6>1, ChunkFacts
          <6> QED
            BY <1>11, <2>1, <6>2
        <5> QED
          BY <1>5, <3>1, <3>4, <5>1
      <4>2. ChunkAt(u) < buf
        <5>1. u + 1 \in 1 .. Len(file.signals) + 1 /\ v \in u + 1 .. Len(file.signals) + 1 /\ u \in 1 .. Len(file.signals) + 1
          BY <1>5, <3>1, <4>1
        <5>2. ChunkAt(u + 1) <= ChunkAt(v) /\ ChunkAt(u + 1) \in Nat /\ ChunkAt(u) \in Nat
          BY <1>4, <5>1, ChunkFacts
        <5>3. ChunkAt(u + 1) = ChunkAt(u) + ValueBytes(u) /\ ValueBytes(u) \in Nat /\ ValueBytes(u) >= HEADER
          BY <1>4, <3>1, ChunkFacts
        <5>4. HEADER > 0 /\ HEADER \in Nat
          BY DEF HEADER
        <5> QED
          BY <1>3, <1>7, <5>2, <5>3, <5>4
      <4>3. IsValue(u)
        BY <1>1, <1>2, <1>4, <4>2 DEF ParseInv
      <4>4. ASSUME NEW q \in DOMAIN ReadTree[TypeOf(u)]
            PROVE  /\ <<0, u>> \o q \in Allocated'
                   /\ heap'[<<0, u>> \o q] = Moved(ReadTree[TypeOf(u)][q], <<0, u>>, ChunkAt(u) + HEADER)
        <5>1. <<0, u>> \o q \in Allocated /\ heap[<<0, u>> \o q] = Moved(ReadTree[TypeOf(u)][q], <<0, u>>, ChunkAt(u) + HEADER)
          BY <4>3 DEF IsValue
        <5>2. q \in Paths
          BY <3>1, ReadFacts DEF Shape, IsTree
        <5>3. <<0, u>> \in Paths /\ Len(<<0, u>>) = 2 /\ <<0, u>>[2] = u /\ p \in Paths /\ Len(p) = 2 /\ p[2] = v
          BY <1>5, <3>1, Names DEF p
        <5>4. (<<0, u>> \o q)[2] = u
          <6>1. 2 \in 1 .. Len(<<0, u>>)
            BY <5>3
          <6>2. (<<0, u>> \o q)[2] = <<0, u>>[2]
            BY <5>2, <5>3, <6>1, PathFacts
          <6> QED
            BY <5>3, <6>2
        <5>5. <<0, u>> \o q \notin DOMAIN new
          <6>1. ASSUME NEW r \in DOMAIN ReadTree[t] PROVE (p \o r)[2] = v
            <7>1. 2 \in 1 .. Len(p) /\ r \in Paths
              BY <1>10, <5>3
            <7> QED
              BY <5>3, <7>1, PathFacts
          <6>2. \A x \in DOMAIN new : x[2] = v
            BY <1>10, <6>1
          <6> QED
            BY <3>4, <5>4, <6>2
        <5> QED
          BY <1>14, <5>1, <5>5
      <4> QED
        BY <3>2, <4>4 DEF IsValue, Allocated
    <3> QED
      BY <3>3, <3>4
  <2>2. \A u \in DOMAIN file.signals : ChunkAt(u)' = ChunkAt(u)
    BY <1>2 DEF TypeOf, ChunkAt, ValueBytes
  <2> QED
    BY <1>2, <1>4, <2>1, <2>2 DEF ParseInv
<1>17. HandleInv' /\ ReadingInv' /\ ConvertInv' /\ LastInv'
  BY <1>1, <1>2, <1>4, LastKept DEF HandleInv, ReadingInv, ConvertInv
<1> QED
  BY <1>14, <1>15, <1>16, <1>17 DEF Inv

LEMMA QuietInv ==
  ASSUME Inv, ParseThrows \/ Parsed \/ SetInvertStruct \/ ReadThrows \/ \E v \in views : DropArray(v)
  PROVE  Inv'
<1>1. FileInv /\ HeapInv /\ HandleInv /\ ParseInv /\ ReadingInv /\ ConvertInv /\ LastInv
  BY DEF Inv
<1>2. /\ file' = file /\ client' = client /\ buf' = buf /\ heap' = heap /\ calls' = calls /\ query' = query /\ w' = w
      /\ held' = held /\ views' \subseteq views /\ m_invertstruct' \in BOOLEAN
      /\ pc \in {"parse", "idle", "read", "deleted"} /\ pc' \in {"failed", "idle", "deleted"}
      /\ pc = "parse" => pc' \in {"failed", "idle"}
      /\ pc = "deleted" => pc' = "deleted"
      /\ last' = last \/ last' \in {"IncorrectChunk", "out_of_range"}
  BY <1>1 DEF ParseThrows, Parsed, SetInvertStruct, ReadThrows, DropArray, FileInv
<1>3. FileInv' /\ HeapInv' /\ ReadingInv' /\ ConvertInv' /\ LastInv'
  <2>1. LastInv'
    BY <1>1, <1>2, LastKept
  <2> QED
    BY <1>1, <1>2, <2>1 DEF FileInv, HeapInv, ReadingInv, ConvertInv, Allocated
<1>4. HandleInv'
  <2>1. held' \subseteq Allocated' /\ views' \subseteq Allocated'
    BY <1>1, <1>2 DEF HandleInv, Handle, Allocated
  <2> QED
    BY <1>1, <1>2, <2>1, HandlesKept DEF Allocated
<1>5. ParseInv'
  <2>1. CASE pc # "parse"
    <3>1. KeepsValues
      BY <1>2 DEF KeepsValues, Allocated
    <3> QED
      BY <1>1, <1>2, <2>1, <3>1, ParseKept
  <2>2. CASE pc = "parse" /\ pc' = "failed"
    BY <2>2 DEF ParseInv
  <2>3. CASE pc = "parse" /\ pc' = "idle"
    <3>1. buf >= SubEnd /\ file \in Files
      BY <1>1, <1>2, <2>3 DEF ParseThrows, Parsed, SetInvertStruct, ReadThrows, DropArray, FileInv
    <3>2. ASSUME NEW v \in DOMAIN file.signals PROVE IsValue(v)'
      <4>1. v \in 1 .. Len(file.signals) /\ Len(file.signals) \in Nat
        BY <3>1, FileFacts
      <4>2. v + 1 \in 1 .. Len(file.signals) + 1 /\ v \in 1 .. Len(file.signals) + 1
            /\ Len(file.signals) + 1 \in v + 1 .. Len(file.signals) + 1
        BY <4>1
      <4>3. ChunkAt(v + 1) <= SubEnd /\ ChunkAt(v + 1) \in Nat /\ ChunkAt(v) \in Nat
        BY <3>1, <4>2, ChunkFacts DEF SubEnd
      <4>4. ChunkAt(v + 1) = ChunkAt(v) + ValueBytes(v) /\ ValueBytes(v) \in Nat /\ ValueBytes(v) >= HEADER
        BY <3>1, <4>1, ChunkFacts
      <4>5. HEADER > 0 /\ HEADER \in Nat /\ SubEnd \in Nat /\ buf \in Nat
        <5>1. Len(file.signals) + 1 \in 1 .. Len(file.signals) + 1
          BY <4>1
        <5>2. SubEnd \in Nat
          BY <3>1, <5>1, ChunkFacts DEF SubEnd
        <5> QED
          BY <1>1, <5>2 DEF HEADER, FileInv
      <4>6. ChunkAt(v) < buf
        BY <3>1, <4>3, <4>4, <4>5
      <4>7. IsValue(v)
        BY <1>1, <2>3, <4>6 DEF ParseInv
      <4>8. KeepsValues
        BY <1>2 DEF KeepsValues, Allocated
      <4> QED
        BY <1>1, <1>2, <3>1, <4>7, <4>8, ValueKept
    <3> QED
      BY <1>2, <2>3, <3>2 DEF ParseInv
  <2> QED
    BY <1>2, <2>1, <2>2, <2>3
<1> QED
  BY <1>3, <1>4, <1>5 DEF Inv

(* A new call: its objects are none of those that are allocated.           *)
LEMMA NextCall ==
  ASSUME FileInv, HeapInv, NEW s, NEW invert, Begin(s, invert), s \in {Param} \cup DOMAIN file.signals
  PROVE  /\ calls \in Nat /\ calls' = calls + 1 /\ calls' \in 0 .. MaxCalls /\ calls' \in Nat
         /\ query'.signal = s /\ query'.invert = invert
         /\ \A o \in Allocated : o[1] # calls' /\ o[1] <= calls
         /\ pc = "idle"
<1>1. calls \in Nat /\ MaxCalls \in Nat /\ calls < MaxCalls /\ pc = "idle" /\ calls' = calls + 1
  BY CallsAssumed DEF FileInv, Begin
<1>2. \A o \in Allocated : o[1] # calls' /\ o[1] <= calls
  <2>1. ASSUME NEW o \in Allocated PROVE o[1] \in Nat
    <3>1. o \in Paths /\ Len(o) >= 1
      BY DEF HeapInv, Sound, IsTree, Allocated
    <3>2. Len(o) \in Nat /\ \A i \in 1 .. Len(o) : o[i] \in Nat
      BY <3>1, PathElements
    <3> QED
      BY <3>1, <3>2
  <2> QED
    BY <1>1, <2>1 DEF HeapInv
<1> QED
  BY <1>1, <1>2 DEF Begin

LEMMA NoValuesInv ==
  ASSUME Inv, NEW s \in {Param} \cup DOMAIN file.signals, NoValues(s)
  PROVE  Inv'
<1>1. FileInv /\ HeapInv /\ HandleInv /\ ParseInv /\ LastInv
  BY DEF Inv
<1>2. /\ file' = file /\ client' = client /\ buf' = buf /\ heap' = heap /\ w' = w /\ pc' = pc
      /\ m_invertstruct' = m_invertstruct /\ held' = held /\ views' = views /\ last' = "NULL" /\ Begin(s, FALSE)
  BY DEF NoValues
<1>3. /\ calls \in Nat /\ calls' = calls + 1 /\ calls' \in 0 .. MaxCalls /\ calls' \in Nat
      /\ query'.signal = s /\ query'.invert = FALSE /\ pc = "idle"
      /\ \A o \in Allocated : o[1] # calls' /\ o[1] <= calls
  BY <1>1, <1>2, NextCall
<1>4. FileInv' /\ ReadingInv' /\ ConvertInv'
  BY <1>1, <1>2, <1>3 DEF FileInv, ReadingInv, ConvertInv
<1>5. HeapInv'
  <2>1. ASSUME NEW o \in Allocated PROVE o[1] <= calls'
    <3>1. o \in Paths /\ Len(o) >= 1
      BY <1>1 DEF HeapInv, Sound, IsTree, Allocated
    <3>2. Len(o) \in Nat /\ \A i \in 1 .. Len(o) : o[i] \in Nat
      BY <3>1, PathElements
    <3> QED
      BY <1>3, <3>1, <3>2
  <2> QED
    BY <1>1, <1>2, <2>1 DEF HeapInv, Allocated
<1>6. HandleInv'
  <2>1. held' \subseteq Allocated' /\ views' \subseteq Allocated'
    BY <1>1, <1>2 DEF HandleInv, Handle, Allocated
  <2> QED
    BY <1>1, <1>2, <1>3, <2>1, HandlesKept DEF Allocated
<1>7. ParseInv'
  <2>1. KeepsValues
    BY <1>2 DEF KeepsValues, Allocated
  <2> QED
    BY <1>1, <1>2, <1>3, <2>1, ParseKept
<1>8. LastInv'
  BY <1>1, <1>2, <1>3, LastKept
<1> QED
  BY <1>4, <1>5, <1>6, <1>7, <1>8 DEF Inv

LEMMA NextNames ==
  ASSUME calls' \in Nat
  PROVE  /\ Sv' \in Paths /\ Len(Sv') = 1 /\ Sv'[1] = calls'
         /\ Vec' \in Paths /\ Len(Vec') = 2 /\ Vec'[1] = calls' /\ Vec'[2] = 1
         /\ ParVec' \in Paths /\ Len(ParVec') = 2 /\ ParVec'[1] = calls' /\ ParVec'[2] = 2
         /\ Scalar' \in Paths /\ Len(Scalar') = 2 /\ Scalar'[1] = calls' /\ Scalar'[2] = 4
         /\ Vec' = Append(Sv', 1) /\ ParVec' = Append(Sv', 2)
<1>1. Sv' \in Paths /\ Len(Sv') = 1 /\ Sv'[1] = calls'
  BY Names DEF Sv
<1>2. Vec' \in Paths /\ Len(Vec') = 2 /\ Vec'[1] = calls' /\ Vec'[2] = 1
  BY Names DEF Vec
<1>3. ParVec' \in Paths /\ Len(ParVec') = 2 /\ ParVec'[1] = calls' /\ ParVec'[2] = 2
  BY Names DEF ParVec
<1>4. Scalar' \in Paths /\ Len(Scalar') = 2 /\ Scalar'[1] = calls' /\ Scalar'[2] = 4
  BY Names DEF Scalar
<1>5. Vec' = Append(Sv', 1) /\ ParVec' = Append(Sv', 2)
  BY DEF Vec, ParVec, Sv
<1> QED
  BY <1>1, <1>2, <1>3, <1>4, <1>5

(* The objects that a swept call makes before it reads.                    *)
Begun(s) ==
  LET pars == Vector(ParVec', IF file.windowed THEN 0 ELSE NPoints)
  IN IF s = Param THEN pars ELSE Put(Vector(Vec', NPoints), pars)

SvCell(s) == [o \in {Sv'} |-> Cell(IF s = Param THEN <<ParVec'>> ELSE <<ParVec', Vec'>>, Nowhere)]

LEMMA BegunFacts ==
  ASSUME file \in Files, calls' \in Nat, NEW s
  PROVE  /\ Fits(Begun(s), calls') /\ ParVec' \in DOMAIN Begun(s) /\ \A x \in DOMAIN Begun(s) : Len(x) >= 2
         /\ s # Param => /\ Vec' \in DOMAIN Begun(s)
                         /\ Begun(s)[Vec'].kids = [k \in 1 .. NPoints |-> Append(Vec', k)]
<1> DEFINE n == IF file.windowed THEN 0 ELSE NPoints
           pars == Vector(ParVec', n)
           V == Vector(Vec', NPoints)
<1>1. NPoints \in Nat /\ n \in Nat
  BY WindowFacts
<1>2. /\ ParVec' \in Paths /\ Len(ParVec') = 2 /\ ParVec'[1] = calls' /\ ~Loose(ParVec')
      /\ Vec' \in Paths /\ Len(Vec') = 2 /\ Vec'[1] = calls' /\ ~Loose(Vec')
  BY NextNames DEF Loose
<1> HIDE DEF n
<1>3. IsVector(pars, ParVec', n) /\ Fits(pars, calls')
  <2>1. Len(ParVec') >= 2
    BY <1>2
  <2>2. IsVector(pars, ParVec', n) /\ Fits(pars, ParVec'[1])
    BY <1>1, <1>2, <2>1, VectorBuilt, Zenon
  <2> QED
    BY <1>2, <2>2, Zenon
<1>4. IsVector(V, Vec', NPoints) /\ Fits(V, calls')
  <2>1. Len(Vec') >= 2
    BY <1>2
  <2>2. IsVector(V, Vec', NPoints) /\ Fits(V, Vec'[1])
    BY <1>1, <1>2, <2>1, VectorBuilt, Zenon
  <2> QED
    BY <1>2, <2>2, Zenon
<1>5. Begun(s) = IF s = Param THEN pars ELSE Put(V, pars)
  BY DEF Begun, n
<1> HIDE DEF pars, V
<1>6. \A p \in Paths : \A k \in 1 .. n : Len(p) = 2 => Len(Append(p, k)) >= 2
  <2>1. ASSUME NEW p \in Paths, NEW k \in 1 .. n, Len(p) = 2 PROVE Len(Append(p, k)) >= 2
    <3>1. k \in Nat /\ Len(Append(p, k)) = Len(p) + 1
      BY <1>1, AppendNames
    <3> QED
      BY <2>1, <3>1
  <2> QED
    BY <2>1
<1>7. \A p \in Paths : \A k \in 1 .. NPoints : Len(p) = 2 => Len(Append(p, k)) >= 2
  <2>1. ASSUME NEW p \in Paths, NEW k \in 1 .. NPoints, Len(p) = 2 PROVE Len(Append(p, k)) >= 2
    <3>1. k \in Nat /\ Len(Append(p, k)) = Len(p) + 1
      BY <1>1, AppendNames
    <3> QED
      BY <2>1, <3>1
  <2> QED
    BY <2>1
<1>8. (\A x \in DOMAIN pars : Len(x) >= 2) /\ ParVec' \in DOMAIN pars
  <2>1. DOMAIN pars = {ParVec'} \cup {Append(ParVec', k) : k \in 1 .. n}
    BY <1>3 DEF IsVector
  <2>2. \A k \in 1 .. n : Len(Append(ParVec', k)) >= 2
    BY <1>2, <1>6
  <2> QED
    BY <1>2, <2>1, <2>2
<1>9. (\A x \in DOMAIN V : Len(x) >= 2) /\ Vec' \in DOMAIN V
  <2>1. DOMAIN V = {Vec'} \cup {Append(Vec', k) : k \in 1 .. NPoints}
    BY <1>4 DEF IsVector
  <2>2. \A k \in 1 .. NPoints : Len(Append(Vec', k)) >= 2
    BY <1>2, <1>7
  <2>3. Len(Vec') >= 2
    BY <1>2
  <2> QED
    BY <2>1, <2>2, <2>3, Zenon
<1>10. Fits(Put(V, pars), calls')
  <2>1. \A x \in DOMAIN pars :
          /\ Len(x) >= 1 /\ x[1] = calls' /\ ~Loose(x)
          /\ \A y \in KidsOf(pars, x) : y \in DOMAIN V \cup DOMAIN pars /\ \E j \in Nat : y = Append(x, j)
    BY <1>3 DEF Fits
  <2>2. IsTree(pars)
    BY <1>3 DEF Fits
  <2> QED
    BY <1>4, <2>1, <2>2, PutFits
<1>11. /\ DOMAIN Put(V, pars) = DOMAIN V \cup DOMAIN pars
       /\ Put(V, pars)[Vec'] = V[Vec']
  <2>1. IsPut(Put(V, pars), V, pars)
    BY PutIs
  <2> QED
    BY <1>9, <2>1 DEF IsPut
<1>12. V[Vec'].kids = [k \in 1 .. NPoints |-> Append(Vec', k)]
  BY <1>4 DEF IsVector
<1>13. CASE s = Param
  BY <1>3, <1>5, <1>8, <1>13
<1>14. CASE s # Param
  <2>1. Begun(s) = Put(V, pars)
    BY <1>5, <1>14
  <2>2. Begun(s)[Vec'].kids = [k \in 1 .. NPoints |-> Append(Vec', k)]
    BY <1>11, <1>12, <2>1
  <2> QED
    BY <1>8, <1>9, <1>10, <1>11, <1>14, <2>1, <2>2
<1> QED
  BY <1>13, <1>14

LEMMA SweepValueFits ==
  ASSUME file \in Files, calls' \in Nat, NEW s
  PROVE  /\ Fits(Put(Begun(s), SvCell(s)), calls') /\ Sv' \in DOMAIN Put(Begun(s), SvCell(s))
         /\ ParVec' \in KidsOf(Put(Begun(s), SvCell(s)), Sv')
         /\ DOMAIN Begun(s) \subseteq DOMAIN Put(Begun(s), SvCell(s))
         /\ \A x \in DOMAIN Begun(s) : Put(Begun(s), SvCell(s))[x] = Begun(s)[x]
         /\ \A x \in DOMAIN Put(Begun(s), SvCell(s)) : x = Sv' \/ Len(x) >= 2
         /\ \A x \in DOMAIN Put(Begun(s), SvCell(s)) : x = Sv' \/ x \in DOMAIN Begun(s)
         /\ Sv' \notin DOMAIN Begun(s)
         /\ KidsOf(Put(Begun(s), SvCell(s)), Sv') = IF s = Param THEN {ParVec'} ELSE {ParVec', Vec'}
<1> DEFINE A == Begun(s)
           B == SvCell(s)
           kids == IF s = Param THEN <<ParVec'>> ELSE <<ParVec', Vec'>>
<1>1. Fits(A, calls') /\ ParVec' \in DOMAIN A /\ (s # Param => Vec' \in DOMAIN A) /\ \A x \in DOMAIN A : Len(x) >= 2
  BY BegunFacts
<1>2. /\ Sv' \in Paths /\ Len(Sv') = 1 /\ Sv'[1] = calls'
      /\ ParVec' \in Paths /\ Vec' \in Paths
      /\ Vec' = Append(Sv', 1) /\ ParVec' = Append(Sv', 2)
  BY NextNames
<1>3. kids \in Seq(Paths) /\ ToSet(kids) = IF s = Param THEN {ParVec'} ELSE {ParVec', Vec'}
  <2>1. <<ParVec'>> \in Seq(Paths) /\ <<ParVec', Vec'>> \in Seq(Paths)
    BY <1>2
  <2>2. \A x, y : ToSet(<<x>>) = {x} /\ ToSet(<<x, y>>) = {x, y}
    <3>1. ASSUME NEW x, NEW y, NEW u, NEW v, u = <<x>>, v = <<x, y>> PROVE ToSet(u) = {x} /\ ToSet(v) = {x, y}
      <4>1. DOMAIN u = {1} /\ u[1] = x
        BY <3>1
      <4>2. DOMAIN v = {1, 2} /\ v[1] = x /\ v[2] = y
        BY <3>1
      <4>3. ToSet(u) = {u[i] : i \in DOMAIN u} /\ ToSet(v) = {v[i] : i \in DOMAIN v}
        BY DEF ToSet
      <4> QED
        BY <4>1, <4>2, <4>3
    <3> QED
      BY <3>1
  <2> QED
    BY <2>1, <2>2
<1>4. Nowhere \in Sources
  BY DEF Nowhere, Sources
<1>5. B = [o \in {Sv'} |-> Cell(kids, Nowhere)]
  BY DEF SvCell
<1> HIDE DEF A, B, kids
<1>6. DOMAIN B = {Sv'} /\ B[Sv'] = Cell(kids, Nowhere) /\ IsFcn(B)
  BY <1>5 DEF IsFcn
<1>7. Cell(kids, Nowhere) \in Cells /\ Cell(kids, Nowhere).kids = kids
  BY <1>3, <1>4 DEF Cell, Cells
<1>8. IsTree(B)
  BY <1>2, <1>6, <1>7 DEF IsTree, IsFcn
<1>9. KidsOf(B, Sv') = IF s = Param THEN {ParVec'} ELSE {ParVec', Vec'}
  BY <1>3, <1>6, <1>7 DEF KidsOf
<1>10. ASSUME NEW x \in DOMAIN B
       PROVE  /\ Len(x) >= 1 /\ x[1] = calls' /\ ~Loose(x)
              /\ \A y \in KidsOf(B, x) : y \in DOMAIN A \cup DOMAIN B /\ \E j \in Nat : y = Append(x, j)
  <2>1. x = Sv'
    BY <1>6
  <2>2. Len(Sv') >= 1 /\ Sv'[1] = calls' /\ ~Loose(Sv')
    BY <1>2 DEF Loose
  <2>3. ASSUME NEW y \in KidsOf(B, Sv') PROVE y \in DOMAIN A \cup DOMAIN B /\ \E j \in Nat : y = Append(Sv', j)
    <3>1. y = ParVec' \/ y = Vec'
      BY <1>9, <2>3
    <3>2. y \in DOMAIN A
      BY <1>1, <1>9, <2>3
    <3>3. 1 \in Nat /\ 2 \in Nat
      OBVIOUS
    <3> QED
      BY <1>2, <3>1, <3>2, <3>3
  <2> QED
    BY <2>1, <2>2, <2>3
<1>11. Fits(Put(A, B), calls')
  BY <1>1, <1>8, <1>10, PutFits
<1>12. IsPut(Put(A, B), A, B)
  BY PutIs
<1>13. Sv' \notin DOMAIN A
  <2>1. ~(Len(Sv') >= 2)
    BY <1>2
  <2> QED
    BY <1>1, <2>1
<1>14. KidsOf(Put(A, B), Sv') = KidsOf(B, Sv')
  <2>1. \A o : o \notin DOMAIN A => KidsOf(Put(A, B), o) = KidsOf(B, o)
    BY DEF Put, KidsOf, IsFcn
  <2> QED
    BY <1>13, <2>1
<1> QED
  BY <1>1, <1>6, <1>9, <1>11, <1>12, <1>13, <1>14 DEF IsPut, A, B

LEMMA NewSweepValueInv ==
  ASSUME Inv, NEW s \in {Param} \cup DOMAIN file.signals, NEW invert, s = Param => invert = FALSE,
         NewSweepValue(s, invert)
  PROVE  Inv'
<1>1. FileInv /\ HeapInv /\ HandleInv /\ ParseInv /\ LastInv /\ file \in Files
  BY DEF Inv, FileInv
<1>2. /\ file.swept /\ Begin(s, invert) /\ pc' = "read" /\ w' = 0
      /\ file' = file /\ client' = client /\ buf' = buf
      /\ m_invertstruct' = m_invertstruct /\ held' = held /\ views' = views /\ last' = last
  BY DEF NewSweepValue
<1>3. heap' = Put(Begun(s), Put(SvCell(s), heap))
  BY Zenon DEF NewSweepValue, Begun, SvCell
<1>4. /\ calls \in Nat /\ calls' = calls + 1 /\ calls' \in 0 .. MaxCalls /\ calls' \in Nat
      /\ query'.signal = s /\ query'.invert = invert /\ pc = "idle"
      /\ \A o \in Allocated : o[1] # calls' /\ o[1] <= calls
  BY <1>1, <1>2, NextCall
<1> DEFINE new == Put(Begun(s), SvCell(s))
<1>5. heap' = Put(new, heap)
  BY <1>3, PutPut
<1>6. /\ Fits(new, calls') /\ Sv' \in DOMAIN new /\ ParVec' \in KidsOf(new, Sv') /\ DOMAIN Begun(s) \subseteq DOMAIN new
      /\ \A x \in DOMAIN Begun(s) : new[x] = Begun(s)[x]
      /\ \A x \in DOMAIN new : x = Sv' \/ Len(x) >= 2
  BY <1>1, <1>4, SweepValueFits
<1>7. /\ ParVec' \in DOMAIN Begun(s)
      /\ s # Param => /\ Vec' \in DOMAIN Begun(s)
                      /\ Begun(s)[Vec'].kids = [k \in 1 .. NPoints |-> Append(Vec', k)]
  BY <1>1, <1>4, BegunFacts
<1> HIDE DEF new
<1>8. \A x \in DOMAIN new : x[1] = calls' /\ ~Loose(x)
  BY <1>6 DEF Fits
<1>9. /\ HeapInv' /\ Allocated' = DOMAIN new \cup Allocated
      /\ \A o \in DOMAIN new : heap'[o] = new[o]
      /\ \A o \in Allocated \ DOMAIN new : heap'[o] = heap[o]
  <2>1. <<0>> \notin DOMAIN new
    <3>1. <<0>>[1] = 0
      OBVIOUS
    <3> QED
      BY <1>4, <1>8, <3>1
  <2>2. \A o \in Allocated : o[1] = calls' => ~Loose(o)
    BY <1>4
  <2>3. calls' >= calls /\ calls' <= calls'
    BY <1>4
  <2> QED
    BY <1>1, <1>4, <1>5, <1>6, <2>1, <2>2, <2>3, MakeKeeps
<1>10. FileInv'
  <2>1. w' \in 0 .. Len(file.windows)
    BY <1>1, <1>2, FileFacts
  <2> QED
    BY <1>1, <1>2, <1>4, <2>1 DEF FileInv
<1>11. \A o \in Allocated : o \in Allocated' /\ heap'[o] = heap[o]
  BY <1>4, <1>8, <1>9
<1>12. HandleInv'
  <2>1. held' \subseteq Allocated' /\ views' \subseteq Allocated'
    BY <1>1, <1>2, <1>11 DEF HandleInv, Handle
  <2>2. \A x \in Allocated' : x \in Allocated \/ Len(x) >= 2 \/ x[1] = calls + 1
    BY <1>4, <1>8, <1>9
  <2> QED
    BY <1>1, <1>2, <1>4, <2>1, <2>2, HandlesKept
<1>13. ParseInv'
  <2>1. KeepsValues
    BY <1>11 DEF KeepsValues
  <2> QED
    BY <1>1, <1>2, <1>4, <2>1, ParseKept
<1>14. ReadingInv'
  <2>1. file'.swept /\ calls' >= 1 /\ \A o \in Allocated' : o[1] = calls' => ~Loose(o)
    BY <1>2, <1>4, <1>8, <1>9
  <2>2. Sv' \in Allocated' /\ ParVec' \in Allocated' /\ ParVec' \in KidsOf(heap', Sv')
    BY <1>6, <1>7, <1>9 DEF KidsOf, Allocated
  <2>3. NPoints' = NPoints
    BY <1>2 DEF NPoints
  <2>4. s # Param => Vec' \in Allocated' /\ heap'[Vec'].kids = [k \in 1 .. NPoints' |-> Append(Vec', k)]
    BY <1>6, <1>7, <1>9, <2>3
  <2>5. First' = 0
    BY <1>1, <1>2, WindowFacts DEF First
  <2>6. 1 .. First' = {}
    BY <2>5
  <2> QED
    BY <1>4, <2>1, <2>2, <2>4, <2>6 DEF ReadingInv
<1>15. ConvertInv' /\ LastInv'
  BY <1>1, <1>2, <1>4, LastKept DEF ConvertInv
<1> QED
  BY <1>9, <1>10, <1>12, <1>13, <1>14, <1>15 DEF Inv

(* The clone of a value.                                                   *)
Clone(s) == [q \in DOMAIN ReadTree[TypeOf(s)] |-> [ReadTree[TypeOf(s)][q] EXCEPT !.from = heap[<<0, s>> \o q].from]]

LEMMA CloneFacts ==
  ASSUME file \in Files, HeapInv, NEW s \in DOMAIN file.signals, IsValue(s)
  PROVE  /\ IsTree(Clone(s)) /\ Grows(Clone(s)) /\ << >> \in DOMAIN Clone(s)
         /\ DOMAIN Clone(s) = DOMAIN ReadTree[TypeOf(s)]
         /\ \A q \in DOMAIN ReadTree[TypeOf(s)] : Clone(s)[q].from = heap[<<0, s>> \o q].from
<1> DEFINE T == ReadTree[TypeOf(s)]
           f == Clone(s)
           from(q) == heap[<<0, s>> \o q].from
<1>1. IsTree(T) /\ Grows(T) /\ << >> \in DOMAIN T
  BY FileFacts, ReadFacts DEF Shape
<1>2. f = [q \in DOMAIN T |-> [T[q] EXCEPT !.from = from(q)]]
  BY Zenon DEF Clone
<1>3. ASSUME NEW q \in DOMAIN T PROVE from(q) \in Sources
  <2>1. <<0, s>> \o q \in Allocated
    BY DEF IsValue
  <2>2. heap[<<0, s>> \o q] \in Cells
    BY <2>1 DEF HeapInv, Sound, IsTree, Allocated
  <2> QED
    BY <2>2 DEF Cells
<1> HIDE DEF T, f, from
<1>4. DOMAIN f = DOMAIN T /\ IsFcn(f)
  BY <1>2 DEF IsFcn
<1>5. ASSUME NEW q \in DOMAIN T PROVE f[q] \in Cells /\ f[q].kids = T[q].kids /\ f[q].from = from(q)
  <2>1. T[q] \in Cells
    BY <1>1 DEF IsTree
  <2>2. f[q] = [T[q] EXCEPT !.from = from(q)]
    BY <1>2
  <2> QED
    BY <1>3, <2>1, <2>2 DEF Cells
<1>6. IsTree(f)
  BY <1>1, <1>4, <1>5 DEF IsTree, IsFcn
<1>7. Grows(f)
  BY <1>1, <1>4, <1>5 DEF Grows
<1> QED
  BY <1>1, <1>4, <1>5, <1>6, <1>7 DEF T, f, from

LEMMA GetSignalScalarInv ==
  ASSUME Inv, NEW s \in DOMAIN file.signals, GetSignalScalar(s)
  PROVE  Inv'
<1>1. FileInv /\ HeapInv /\ HandleInv /\ ParseInv /\ LastInv /\ file \in Files
  BY DEF Inv, FileInv
<1>2. /\ ~file.swept /\ Begin(s, FALSE)
      /\ file' = file /\ client' = client /\ buf' = buf
      /\ m_invertstruct' = m_invertstruct /\ w' = w /\ views' = views
      /\ IF client = "cpp" THEN pc' = "idle" /\ held' = held \cup {Scalar'} /\ last' = "scalar"
         ELSE pc' = "convert" /\ held' = held /\ last' = last
  BY DEF GetSignalScalar
<1>3. heap' = Put(Placed(Clone(s), Scalar', 0), heap)
  BY Zenon DEF GetSignalScalar, Clone
<1>4. /\ calls \in Nat /\ calls' = calls + 1 /\ calls' \in 0 .. MaxCalls /\ calls' \in Nat
      /\ query'.signal = s /\ query'.invert = FALSE /\ pc = "idle"
      /\ \A o \in Allocated : o[1] # calls' /\ o[1] <= calls
  BY <1>1, <1>2, NextCall
<1> DEFINE new == Placed(Clone(s), Scalar', 0)
<1>5. /\ Scalar' \in Paths /\ Len(Scalar') = 2 /\ Scalar'[1] = calls' /\ Scalar'[2] = 4 /\ ~Loose(Scalar')
      /\ Sv' \in Paths /\ Len(Sv') = 1 /\ Sv'[1] = calls'
  BY <1>4, NextNames DEF Loose
<1>6. IsValue(s)
  BY <1>1, <1>2, <1>4 DEF ParseInv
<1>7. IsTree(Clone(s)) /\ Grows(Clone(s)) /\ << >> \in DOMAIN Clone(s)
  BY <1>1, <1>6, CloneFacts
<1>8. Fits(new, calls')
  <2>1. Len(Scalar') >= 2 /\ 0 \in Nat
    BY <1>5
  <2>2. Fits(new, Scalar'[1])
    BY <1>5, <1>7, <2>1, PlacedFits, Zenon
  <2> QED
    BY <1>5, <2>2
<1>9. DOMAIN new = {Scalar' \o q : q \in DOMAIN Clone(s)}
  BY <1>5, <1>7, PlacedCells
<1> HIDE DEF new
<1>10. \A x \in DOMAIN new : Len(x) >= 2 /\ x[1] = calls' /\ ~Loose(x)
  <2>1. ASSUME NEW q \in DOMAIN Clone(s) PROVE Len(Scalar' \o q) >= 2
    <3>1. q \in Paths
      BY <1>7 DEF IsTree
    <3>2. Len(Scalar' \o q) = Len(Scalar') + Len(q) /\ Len(q) \in Nat
      BY <1>5, <3>1, PathFacts
    <3> QED
      BY <1>5, <3>2
  <2> QED
    BY <1>8, <1>9, <2>1 DEF Fits
<1>11. Scalar' \in DOMAIN new
  <2>1. Scalar' \o << >> = Scalar'
    BY <1>5, PathFacts
  <2> QED
    BY <1>7, <1>9, <2>1
<1>12. /\ HeapInv' /\ Allocated' = DOMAIN new \cup Allocated
       /\ \A o \in Allocated \ DOMAIN new : heap'[o] = heap[o]
  <2>1. <<0>> \notin DOMAIN new
    <3>1. <<0>>[1] = 0
      OBVIOUS
    <3> QED
      BY <1>4, <1>10, <3>1
  <2>2. \A o \in Allocated : o[1] = calls' => ~Loose(o)
    BY <1>4
  <2>3. calls' >= calls /\ calls' <= calls' /\ heap' = Put(new, heap)
    BY <1>3, <1>4 DEF new
  <2> QED
    BY <1>1, <1>4, <1>8, <2>1, <2>2, <2>3, MakeKeeps
<1>13. \A o \in Allocated : o \in Allocated' /\ heap'[o] = heap[o]
  BY <1>4, <1>10, <1>12
<1>14. client \in {"cpp", "python"}
  BY <1>1, CallsAssumed DEF FileInv
<1>15. FileInv'
  <2>1. pc' \in {"idle", "convert"}
    BY <1>2
  <2> QED
    BY <1>1, <1>2, <1>4, <2>1 DEF FileInv
<1>16. \A x \in Allocated' : x \in Allocated \/ Len(x) >= 2 \/ x[1] = calls + 1
  BY <1>10, <1>12
<1>17. Sv' \notin Allocated'
  <2>1. Sv' \notin DOMAIN new
    BY <1>5, <1>10
  <2>2. Sv' \notin Allocated
    BY <1>4, <1>5
  <2> QED
    BY <1>12, <2>1, <2>2
<1>18. HandleInv'
  <2>1. \A o : o \in held \cup views => Handle(o)'
    <3>1. ASSUME NEW o, o \in held \cup views PROVE Handle(o)'
      <4>1. Handle(o) /\ o \in Allocated'
        BY <1>1, <1>13, <3>1 DEF HandleInv, Handle
      <4>2. calls' \in {calls, calls + 1}
        BY <1>4
      <4> QED
        BY <1>1, <1>16, <4>1, <4>2, HandleKept
    <3> QED
      BY <3>1
  <2>2. \A o : o = Scalar' => Handle(o)'
    <3>1. Scalar' = <<calls', 4>> /\ Sv' = <<calls'>> /\ calls' \in 1 .. calls' /\ 4 \in Nat
      BY <1>4 DEF Scalar, Sv
    <3>2. Scalar' \in Allocated' /\ <<calls'>> \notin Allocated'
      BY <1>11, <1>12, <1>17, <3>1
    <3>3. \E c \in 1 .. calls' : \E j \in Nat : Scalar' = <<c, j>> /\ <<c>> \notin Allocated'
      BY <3>1, <3>2
    <3> QED
      BY <3>2, <3>3 DEF Handle
  <2> QED
    BY <1>1, <1>2, <1>14, <2>1, <2>2 DEF HandleInv
<1>19. ParseInv'
  <2>1. KeepsValues
    BY <1>13 DEF KeepsValues
  <2>2. pc' # "parse"
    BY <1>2
  <2> QED
    BY <1>1, <1>2, <1>4, <2>1, <2>2, ParseKept
<1>20. ConvertInv'
  <2>1. ASSUME pc' = "convert" PROVE client' = "python" /\ calls' >= 1
    BY <1>2, <1>4, <1>14, <2>1
  <2>2. Result' = Scalar'
    BY <1>2 DEF Result
  <2>3. Scalar' # Vs'
    <3>1. Vs' = <<calls', 3>> /\ Scalar' = <<calls', 4>>
      BY DEF Vs, Scalar
    <3> QED
      BY <1>5, <3>1
  <2> QED
    BY <1>11, <1>12, <1>17, <2>1, <2>2, <2>3 DEF ConvertInv
<1>21. ReadingInv' /\ LastInv'
  <2>1. pc' # "read" /\ (last' = "scalar" \/ last' = last) /\ pc # "failed"
    BY <1>2, <1>4
  <2>2. LastInv'
    BY <1>1, <2>1, LastKept
  <2> QED
    BY <2>1, <2>2 DEF ReadingInv
<1> QED
  BY <1>12, <1>15, <1>18, <1>19, <1>20, <1>21 DEF Inv

LEMMA Distributes == \A f, j, d \in Nat : j >= 1 => f * d + (j - 1) * d = (f + j - 1) * d
  OBVIOUS

(* The objects that a window makes anew.                                   *)
Window(n) == Params(IF file.windowed THEN First + n ELSE NPoints, First + n)
NewWindow(n) ==
  IF query.signal = Param THEN Window(n) ELSE Put(Elements(TypeOf(query.signal), n), Window(n))

LEMMA WindowMakes ==
  ASSUME FileInv, calls \in Nat, w < Len(file.windows)
  PROVE  LET n == file.windows[w + 1] IN
         /\ Fits(NewWindow(n), calls) /\ n \in Nat
         /\ \A x \in DOMAIN NewWindow(n) : Len(x) >= 2 /\ x # Vec
         /\ query.signal # Param =>
              LET t == TypeOf(query.signal) IN
              /\ \A x \in DOMAIN NewWindow(n) :
                   x[2] = 2 \/ \E k \in 1 .. n : \E q \in DOMAIN ReadTree[t] : x = Append(Vec, First + k) \o q
              /\ \A k \in 1 .. n : \A q \in DOMAIN ReadTree[t] :
                   /\ Append(Vec, First + k) \o q \in DOMAIN NewWindow(n)
                   /\ NewWindow(n)[Append(Vec, First + k) \o q] =
                        Moved(ReadTree[t][q], Append(Vec, First + k), First * DataSize[t] + (k - 1) * Taken[t])
<1> DEFINE n == file.windows[w + 1]
           t == TypeOf(query.signal)
           size == IF file.windowed THEN First + n ELSE NPoints
           pars == Window(n)
           new == NewWindow(n)
<1>1. file \in Files /\ w \in 0 .. Len(file.windows) - 1 /\ w \in 0 .. Len(file.windows)
  BY FileFacts DEF FileInv
<1>2. n \in Nat /\ First \in Nat /\ NPoints \in Nat /\ size \in Nat
  BY <1>1, WindowFacts
<1>3. /\ Vec \in Paths /\ Len(Vec) = 2 /\ Vec[1] = calls /\ Vec[2] = 1
      /\ ParVec \in Paths /\ Len(ParVec) = 2 /\ ParVec[1] = calls /\ ParVec[2] = 2
  BY CallNames
<1> HIDE DEF n, size
<1>4. Fits(pars, calls) /\ IsVector(pars, ParVec, size)
  BY <1>2, ParamsFacts DEF Window, size
<1> HIDE DEF pars
<1>5. \A x \in DOMAIN pars : Len(x) >= 2 /\ x[2] = 2
  <2>1. ASSUME NEW x \in DOMAIN pars PROVE Len(x) >= 2 /\ x[2] = 2
    <3>1. CASE x = ParVec
      <4>1. Len(ParVec) >= 2 /\ ParVec[2] = 2
        BY <1>3
      <4> QED
        BY <3>1, <4>1
    <3>2. CASE x # ParVec
      <4>1. PICK k \in 1 .. size : x = Append(ParVec, k)
        BY <1>4, <3>2 DEF IsVector
      <4>2. k \in Nat /\ 2 \in 1 .. Len(ParVec)
        BY <1>2, <1>3
      <4>3. Len(x) = Len(ParVec) + 1 /\ x[2] = ParVec[2]
        BY <1>3, <4>1, <4>2, AppendNames
      <4> QED
        BY <1>3, <4>3
    <3> QED
      BY <3>1, <3>2
  <2> QED
    BY <2>1
<1>6. CASE query.signal = Param
  <2>1. new = pars
    BY <1>6 DEF NewWindow, pars
  <2> QED
    BY <1>2, <1>3, <1>4, <1>5, <1>6, <2>1 DEF n
<1>7. CASE query.signal # Param
  <2> DEFINE E == Elements(t, n)
  <2>1. t \in TypeIds
    <3>1. query.signal \in DOMAIN file.signals
      BY <1>7 DEF FileInv
    <3> QED
      BY <1>1, <3>1, FileFacts
  <2> HIDE DEF t
  <2>2. Fits(E, calls) /\ IsElements(E, t, n)
    BY <1>2, <2>1, ElementsFacts
  <2>3. new = Put(E, pars)
    BY <1>7 DEF NewWindow, pars, t
  <2> HIDE DEF E, new
  <2>4. Fits(new, calls)
    <3>1. \A x \in DOMAIN pars :
            /\ Len(x) >= 1 /\ x[1] = calls /\ ~Loose(x)
            /\ \A y \in KidsOf(pars, x) : y \in DOMAIN E \cup DOMAIN pars /\ \E j \in Nat : y = Append(x, j)
      BY <1>4 DEF Fits
    <3>2. IsTree(pars)
      BY <1>4 DEF Fits
    <3> QED
      BY <2>2, <2>3, <3>1, <3>2, PutFits
  <2>5. DOMAIN new = DOMAIN E \cup DOMAIN pars /\ \A x \in DOMAIN E : new[x] = E[x]
    <3>1. IsPut(Put(E, pars), E, pars)
      BY PutIs
    <3> QED
      BY <2>3, <3>1 DEF IsPut
  <2>6. \A x \in DOMAIN E : \E k \in 1 .. n : \E q \in DOMAIN ReadTree[t] : x = Append(Vec, First + k) \o q
    BY <2>2 DEF IsElements
  <2>7. \A x \in DOMAIN E : Len(x) >= 3
    <3>1. ASSUME NEW k \in 1 .. n, NEW q \in DOMAIN ReadTree[t] PROVE Len(Append(Vec, First + k) \o q) >= 3
      <4>1. First + k \in Nat
        BY <1>2
      <4>2. IsTree(ReadTree[t])
        BY <2>1, ReadFacts DEF Shape
      <4>3. q \in Paths
        BY <4>2 DEF IsTree
      <4> QED
        BY <1>3, <4>1, <4>3, BelowFacts
    <3> QED
      BY <2>6, <3>1
  <2>8. \A x \in DOMAIN new : Len(x) >= 2 /\ x # Vec
    <3>1. ASSUME NEW x \in DOMAIN new PROVE Len(x) >= 2 /\ x # Vec
      <4>1. CASE x \in DOMAIN E
        <5>1. Len(x) >= 3 /\ x \in Paths
          BY <2>2, <2>7, <4>1 DEF Fits, IsTree
        <5>2. x = Vec => FALSE
          <6>1. ~(Len(Vec) >= 3)
            BY <1>3
          <6> QED
            BY <5>1, <6>1
        <5>3. Len(x) \in Nat
          BY <5>1, PathFacts
        <5> QED
          BY <5>1, <5>2, <5>3
      <4>2. CASE x \in DOMAIN pars
        BY <1>3, <1>5, <4>2
      <4> QED
        BY <2>5, <4>1, <4>2
    <3> QED
      BY <3>1
  <2>9. \A x \in DOMAIN new : x[2] = 2 \/ \E k \in 1 .. n : \E q \in DOMAIN ReadTree[t] : x = Append(Vec, First + k) \o q
    BY <1>5, <2>5, <2>6
  <2>10. \A k \in 1 .. n : \A q \in DOMAIN ReadTree[t] :
          /\ Append(Vec, First + k) \o q \in DOMAIN new
          /\ new[Append(Vec, First + k) \o q] =
               Moved(ReadTree[t][q], Append(Vec, First + k), First * DataSize[t] + (k - 1) * Taken[t])
    BY <2>2, <2>5 DEF IsElements
  <2> QED
    BY <1>2, <2>4, <2>8, <2>9, <2>10 DEF new, n, t
<1> QED
  BY <1>6, <1>7

LEMMA ReadWindowInv == Inv /\ ReadWindow => Inv'
<1> SUFFICES ASSUME Inv, ReadWindow PROVE Inv'
  OBVIOUS
<1> DEFINE n == file.windows[w + 1]
           t == TypeOf(query.signal)
           new == NewWindow(n)
<1>1. FileInv /\ HeapInv /\ HandleInv /\ ParseInv /\ ReadingInv /\ LastInv /\ file \in Files
  BY DEF Inv, FileInv
<1>2. /\ pc = "read" /\ w < Len(file.windows) /\ w' = w + 1 /\ pc' = pc
      /\ file' = file /\ client' = client /\ buf' = buf /\ m_invertstruct' = m_invertstruct /\ calls' = calls
      /\ query' = query /\ held' = held /\ views' = views /\ last' = last
  BY DEF ReadWindow
<1>3. heap' = Put(new, heap)
  BY Zenon DEF ReadWindow, NewWindow, Window
<1>4. calls \in Nat /\ calls >= 1 /\ w \in 0 .. Len(file.windows) - 1 /\ w + 1 \in 0 .. Len(file.windows)
      /\ Len(file.windows) \in Nat /\ w \in Nat
  BY <1>1, <1>2, CallsAssumed, FileFacts DEF FileInv, ReadingInv
<1>5. /\ Fits(new, calls) /\ n \in Nat
      /\ \A x \in DOMAIN new : Len(x) >= 2 /\ x # Vec
      /\ query.signal # Param =>
           /\ \A x \in DOMAIN new :
                x[2] = 2 \/ \E k \in 1 .. n : \E q \in DOMAIN ReadTree[t] : x = Append(Vec, First + k) \o q
           /\ \A k \in 1 .. n : \A q \in DOMAIN ReadTree[t] :
                /\ Append(Vec, First + k) \o q \in DOMAIN new
                /\ new[Append(Vec, First + k) \o q] =
                     Moved(ReadTree[t][q], Append(Vec, First + k), First * DataSize[t] + (k - 1) * Taken[t])
  BY <1>1, <1>2, <1>4, WindowMakes
<1> HIDE DEF n, new, t
<1>6. \A x \in DOMAIN new : x[1] = calls /\ ~Loose(x)
  BY <1>5 DEF Fits
<1>7. /\ HeapInv' /\ Allocated' = DOMAIN new \cup Allocated
      /\ \A o \in DOMAIN new : heap'[o] = new[o]
      /\ \A o \in Allocated \ DOMAIN new : heap'[o] = heap[o]
  <2>1. <<0>> \notin DOMAIN new
    <3>1. <<0>>[1] = 0
      OBVIOUS
    <3> QED
      BY <1>4, <1>6, <3>1
  <2>2. \A o \in Allocated : o[1] = calls => ~Loose(o)
    BY <1>1, <1>2 DEF ReadingInv
  <2>3. calls' >= calls /\ calls <= calls' /\ calls' \in Nat
    BY <1>2, <1>4
  <2> QED
    BY <1>1, <1>3, <1>4, <1>5, <2>1, <2>2, <2>3, MakeKeeps
<1>8. FileInv'
  BY <1>1, <1>2, <1>4 DEF FileInv
<1>9. HandleInv'
  <2>1. held' \subseteq Allocated' /\ views' \subseteq Allocated'
    BY <1>1, <1>2, <1>7 DEF HandleInv, Handle
  <2>2. \A x \in Allocated' : x \in Allocated \/ Len(x) >= 2 \/ x[1] = calls + 1
    BY <1>5, <1>7
  <2> QED
    BY <1>1, <1>2, <2>1, <2>2, HandlesKept
<1>10. ParseInv'
  <2>1. KeepsValues
    <3>1. ASSUME NEW o \in Allocated, o[1] = 0 PROVE o \in Allocated' /\ heap'[o] = heap[o]
      <4>1. o \notin DOMAIN new
        BY <1>4, <1>6, <3>1
      <4> QED
        BY <1>7, <4>1
    <3> QED
      BY <3>1 DEF KeepsValues
  <2> QED
    BY <1>1, <1>2, <2>1, ParseKept
<1>11. ReadingInv'
  <2>1. file'.swept /\ calls' >= 1 /\ \A o \in Allocated' : o[1] = calls' => ~Loose(o)
    BY <1>1, <1>2, <1>6, <1>7 DEF ReadingInv
  <2>2. Sv' = Sv /\ ParVec' = ParVec /\ Vec' = Vec /\ NPoints' = NPoints /\ TypeOf(query.signal)' = t
    BY <1>2 DEF Sv, ParVec, Vec, NPoints, TypeOf, t
  <2>3. Sv' \in Allocated' /\ ParVec' \in Allocated' /\ ParVec' \in KidsOf(heap', Sv')
    <3>1. Sv \in Allocated /\ ParVec \in Allocated /\ ParVec \in KidsOf(heap, Sv)
      BY <1>1, <1>2 DEF ReadingInv
    <3>2. Len(Sv) = 1
      BY <1>4, CallNames
    <3>3. Sv \notin DOMAIN new
      <4>1. ~(Len(Sv) >= 2)
        BY <3>2
      <4> QED
        BY <1>5, <4>1
    <3> QED
      BY <1>7, <2>2, <3>1, <3>3 DEF KidsOf, Allocated
  <2>4. First' = First + n /\ First \in Nat
    <3>1. Sums(file.windows)[w + 1] = First + file.windows[w + 1] /\ First \in Nat
      BY <1>1, <1>4, WindowFacts
    <3> QED
      BY <1>2, <3>1 DEF First, n
  <2>5. ASSUME query.signal # Param
        PROVE  /\ Vec \in Allocated' /\ heap'[Vec].kids = [k \in 1 .. NPoints |-> Append(Vec, k)]
               /\ \A k \in 1 .. First + n : \A q \in DOMAIN ReadTree[t] :
                    /\ Append(Vec, k) \o q \in Allocated'
                    /\ \E a \in Nat : /\ Taken[t] = DataSize[t] => a = (k - 1) * DataSize[t]
                                      /\ heap'[Append(Vec, k) \o q] = Moved(ReadTree[t][q], Append(Vec, k), a)
    <3>1. /\ Vec \in Allocated /\ heap[Vec].kids = [k \in 1 .. NPoints |-> Append(Vec, k)]
          /\ \A k \in 1 .. First : \A q \in DOMAIN ReadTree[t] : IsElement(t, k, q)
      BY <1>1, <1>2, <2>5 DEF ReadingInv, t
    <3>2. Vec \in Allocated' /\ heap'[Vec].kids = [k \in 1 .. NPoints |-> Append(Vec, k)]
      BY <1>5, <1>7, <3>1
    <3>3. t \in TypeIds /\ Taken[t] \in Nat /\ DataSize[t] \in Nat /\ \A q \in DOMAIN ReadTree[t] : q \in Paths
      <4>1. query.signal \in DOMAIN file.signals
        BY <1>1, <2>5 DEF FileInv
      <4>2. t \in TypeIds
        BY <1>1, <4>1, FileFacts DEF t
      <4> QED
        BY <4>2, ReadFacts DEF Shape, IsTree
    <3>4. Vec \in Paths /\ Len(Vec) = 2 /\ Vec[2] = 1
      BY <1>4, CallNames
    <3>5. ASSUME NEW k \in 1 .. First + n, NEW q \in DOMAIN ReadTree[t]
          PROVE  /\ Append(Vec, k) \o q \in Allocated'
                 /\ \E a \in Nat : /\ Taken[t] = DataSize[t] => a = (k - 1) * DataSize[t]
                                   /\ heap'[Append(Vec, k) \o q] = Moved(ReadTree[t][q], Append(Vec, k), a)
      <4>1. CASE k <= First
        <5>1. k \in 1 .. First /\ k \in Nat
          BY <2>4, <4>1
        <5>2. /\ Append(Vec, k) \o q \in Allocated
              /\ \E a \in Nat : /\ Taken[t] = DataSize[t] => a = (k - 1) * DataSize[t]
                                /\ heap[Append(Vec, k) \o q] = Moved(ReadTree[t][q], Append(Vec, k), a)
          BY <3>1, <5>1 DEF IsElement
        <5>3. (Append(Vec, k) \o q)[2] = 1
          <6>1. (Append(Vec, k) \o q)[2] = Vec[2]
            BY <3>3, <3>4, <5>1, BelowFacts
          <6> QED
            BY <3>4, <6>1
        <5>4. Append(Vec, k) \o q \notin DOMAIN new
          <6>1. ASSUME NEW j \in 1 .. n, NEW r \in DOMAIN ReadTree[t], Append(Vec, k) \o q = Append(Vec, First + j) \o r
                PROVE  FALSE
            <7>1. First + j \in Nat /\ First + j > k
              BY <1>5, <2>4, <4>1, <5>1
            <7>2. Below(Vec, k, q) = Below(Vec, First + j, r)
              BY <6>1 DEF Below
            <7>3. k = First + j
              BY <3>3, <3>4, <5>1, <7>1, <7>2, ElementNames
            <7> QED
              BY <5>1, <7>1, <7>3
          <6> DEFINE x == Append(Vec, k) \o q
          <6>2. \A j \in 1 .. n : \A r \in DOMAIN ReadTree[t] : x # Append(Vec, First + j) \o r
            BY <6>1
          <6>3. x[2] = 1
            BY <5>3
          <6>4. \A y \in DOMAIN new : y[2] = 2 \/ \E j \in 1 .. n : \E r \in DOMAIN ReadTree[t] : y = Append(Vec, First + j) \o r
            BY <1>5, <2>5
          <6> HIDE DEF x
          <6>5. x \notin DOMAIN new
            BY <6>2, <6>3, <6>4
          <6> QED
            BY <6>5 DEF x
        <5> QED
          BY <1>7, <5>2, <5>4
      <4>2. CASE k > First
        <5>1. PICK j \in 1 .. n : k = First + j
          <6>1. k - First \in 1 .. n /\ k = First + (k - First)
            BY <1>5, <2>4, <4>2
          <6> QED
            BY <6>1
        <5>2. /\ Append(Vec, k) \o q \in DOMAIN new
              /\ new[Append(Vec, k) \o q] = Moved(ReadTree[t][q], Append(Vec, k), First * DataSize[t] + (j - 1) * Taken[t])
          BY <1>5, <2>5, <5>1
        <5> DEFINE a == First * DataSize[t] + (j - 1) * Taken[t]
        <5>3. j \in Nat /\ j >= 1 /\ j - 1 \in Nat
          BY <1>5
        <5>4. a \in Nat
          <6>1. First * DataSize[t] \in Nat /\ (j - 1) * Taken[t] \in Nat
            BY <2>4, <3>3, <5>3
          <6> QED
            BY <6>1
        <5>5. Taken[t] = DataSize[t] => a = (k - 1) * DataSize[t]
          <6>1. ASSUME Taken[t] = DataSize[t] PROVE a = (k - 1) * DataSize[t]
            <7>1. First * DataSize[t] + (j - 1) * DataSize[t] = (First + j - 1) * DataSize[t]
              BY <2>4, <3>3, <5>3, Distributes
            <7>2. a = First * DataSize[t] + (j - 1) * DataSize[t]
              BY <6>1
            <7>3. k - 1 = First + j - 1
              BY <2>4, <5>1, <5>3
            <7> QED
              BY <7>1, <7>2, <7>3
          <6> QED
            BY <6>1
        <5>6. /\ Append(Vec, k) \o q \in Allocated'
              /\ heap'[Append(Vec, k) \o q] = Moved(ReadTree[t][q], Append(Vec, k), a)
          BY <1>7, <5>2
        <5> HIDE DEF a
        <5> QED
          BY <5>4, <5>5, <5>6
      <4>3. k \in Int
        OBVIOUS
      <4> QED
        BY <2>4, <4>1, <4>2, <4>3
    <3> QED
      BY <3>2, <3>5
  <2>6. query.signal # Param =>
          /\ Vec' \in Allocated' /\ heap'[Vec'].kids = [k \in 1 .. NPoints' |-> Append(Vec', k)]
          /\ \A k \in 1 .. First' : \A q \in DOMAIN ReadTree[TypeOf(query.signal)'] :
               LET u == TypeOf(query.signal)'
               IN /\ Append(Vec', k) \o q \in Allocated'
                  /\ \E a \in Nat : /\ Taken[u] = DataSize[u] => a = (k - 1) * DataSize[u]
                                    /\ heap'[Append(Vec', k) \o q] = Moved(ReadTree[u][q], Append(Vec', k), a)
    BY <2>2, <2>4, <2>5
  <2> QED
    BY <1>2, <2>1, <2>3, <2>6 DEF ReadingInv, IsElement
<1>12. ConvertInv' /\ LastInv'
  BY <1>1, <1>2, LastKept DEF ConvertInv
<1> QED
  BY <1>7, <1>8, <1>9, <1>10, <1>11, <1>12 DEF Inv

(* The cells that an inversion copies.                                     *)
TwoBelow(p, a, b) == Append(Append(p, a), b)

LEMMA PairPaths ==
  ASSUME NEW p \in Paths, NEW a \in Nat, NEW b \in Nat
  PROVE  Append(p, a) \in Paths /\ TwoBelow(p, a, b) \in Paths
<1> DEFINE e == Append(p, a)
<1>1. e \in Paths
  BY AppendNames
<1> HIDE DEF e
<1>2. Append(e, b) \in Paths
  BY <1>1, AppendNames
<1> QED
  BY <1>1, <1>2 DEF e, TwoBelow

LEMMA PairEnds ==
  ASSUME NEW p \in Paths, NEW a \in Nat, NEW b \in Nat, NEW y, y = TwoBelow(p, a, b)
  PROVE  /\ Len(y) = Len(p) + 2 /\ y[Len(p) + 1] = a /\ y[Len(p) + 2] = b
         /\ \A i \in 1 .. Len(p) : y[i] = p[i]
<1> DEFINE e == Append(p, a)
<1>1. e \in Paths /\ Len(e) = Len(p) + 1 /\ e[Len(p) + 1] = a /\ \A i \in 1 .. Len(p) : e[i] = p[i]
  BY AppendNames
<1>2. y = Append(e, b)
  BY DEF TwoBelow
<1> HIDE DEF e
<1>3. Len(y) = Len(e) + 1 /\ y[Len(e) + 1] = b /\ \A i \in 1 .. Len(e) : y[i] = e[i]
  BY <1>1, <1>2, AppendNames
<1>4. PICK n \in Nat : n = Len(p)
  BY PathFacts
<1> QED
  BY <1>1, <1>3, <1>4

LEMMA PairJoins == \A p \in Paths : \A a, b \in Nat : p \o <<a, b>> = TwoBelow(p, a, b)
<1>1. ASSUME NEW p \in Paths, NEW a \in Nat, NEW b \in Nat
      PROVE  p \o <<a, b>> = TwoBelow(p, a, b)
  <2> DEFINE s == <<a>>
  <2>1. s \in Paths /\ << >> \in Paths /\ <<a, b>> = Append(s, b)
    BY DEF Paths
  <2>2. p \o s = Append(p, a)
    BY <2>1, AppendJoin
  <2> HIDE DEF s
  <2>3. p \o Append(s, b) = Append(p \o s, b)
    BY <2>1, AppendShifts, Zenon
  <2> QED
    BY <2>1, <2>2, <2>3 DEF TwoBelow
<1> QED
  BY <1>1

LEMMA PairNames ==
  ASSUME NEW p \in Paths, NEW a \in Nat, NEW b \in Nat
  PROVE  Len(p) = 2 => \A x : x = TwoBelow(p, a, b) =>
           x \in Paths /\ Len(x) = 4 /\ x[1] = p[1] /\ x[2] = p[2] /\ x[3] = a /\ x[4] = b
<1>1. PICK y : y = TwoBelow(p, a, b)
  OBVIOUS
<1>2. y \in Paths
  BY <1>1, PairPaths
<1>3. /\ Len(y) = Len(p) + 2 /\ y[Len(p) + 1] = a /\ y[Len(p) + 2] = b
      /\ \A i \in 1 .. Len(p) : y[i] = p[i]
  BY <1>1, PairEnds
<1>4. Len(p) = 2 => y \in Paths /\ Len(y) = 4 /\ y[1] = p[1] /\ y[2] = p[2] /\ y[3] = a /\ y[4] = b
  BY <1>2, <1>3
<1> QED
  BY <1>1, <1>4

LEMMA SourceFacts ==
  ASSUME FileInv, HeapInv, ReadingInv, pc = "read", w = Len(file.windows), query.signal # Param,
         IsStruct(TypeOf(query.signal)), NEW k \in Nat, k \in 1 .. NPoints,
         NEW m \in Nat, m \in Members(TypeOf(query.signal))
  PROVE  LET e == Append(Vec, k)
             x == Append(e, m)
         IN /\ e \in Allocated /\ e \in KidsOf(heap, Vec) /\ Len(e) = 3 /\ e[1] = calls /\ e[2] = 1
            /\ x \in Allocated /\ x \in KidsOf(heap, e) /\ x \in Paths
            /\ Len(x) = 4 /\ x[1] = calls /\ x[2] = 1 /\ x[3] = k /\ x[4] = m
            /\ ~IsStruct(Types[TypeOf(query.signal)].members[m]) => heap[x].kids = << >>
<1> DEFINE t == TypeOf(query.signal)
           e == Append(Vec, k)
           x == Append(e, m)
           T == ReadTree[t]
<1>1. file \in Files /\ query.signal \in DOMAIN file.signals /\ t \in TypeIds
  <2>1. file \in Files /\ query.signal \in DOMAIN file.signals
    BY DEF FileInv
  <2> QED
    BY <2>1, FileFacts
<1>2. calls \in Nat
  BY CallsAssumed DEF FileInv
<1>3. k \in 1 .. First
  BY <1>1, WindowFacts
<1>4. Vec \in Paths /\ Len(Vec) = 2 /\ Vec[1] = calls /\ Vec[2] = 1
  BY <1>2, CallNames
<1>5. /\ e \in Paths /\ x \in Paths /\ Len(x) = Len(Vec) + 2 /\ x[Len(Vec) + 1] = k /\ x[Len(Vec) + 2] = m
      /\ \A i \in 1 .. Len(Vec) : x[i] = Vec[i]
  <2>1. PICK y : y = TwoBelow(Vec, k, m)
    OBVIOUS
  <2>2. e \in Paths /\ y \in Paths
    BY <1>4, <2>1, PairPaths
  <2>3. /\ Len(y) = Len(Vec) + 2 /\ y[Len(Vec) + 1] = k /\ y[Len(Vec) + 2] = m
        /\ \A i \in 1 .. Len(Vec) : y[i] = Vec[i]
    <3>1. Vec \in Paths
      BY <1>4
    <3> HIDE DEF Vec
    <3> QED
      BY <2>1, <3>1, PairEnds
  <2>4. x = y
    BY <2>1 DEF TwoBelow
  <2> HIDE DEF x, e
  <2> QED
    BY <2>2, <2>3, <2>4
<1>6. Len(e) = Len(Vec) + 1 /\ \A i \in 1 .. Len(Vec) : e[i] = Vec[i]
  BY <1>3, <1>4, AppendNames
<1>7. e \o << >> = e /\ e \o <<m>> = x
  <2>1. << >> \in Paths /\ m \in Nat
    BY DEF Paths
  <2>2. e \in Paths
    BY <1>5
  <2> HIDE DEF e
  <2>3. e \o << >> = e
    BY <2>1, <2>2, PathFacts
  <2>4. e \o <<m>> = Append(e, m)
    BY <2>1, <2>2, AppendJoin
  <2> QED
    BY <2>3, <2>4
<1>8. /\ <<m>> \in DOMAIN T /\ << >> \in DOMAIN T
      /\ DOMAIN T[<< >>].kids = Members(t) /\ T[<< >>].kids[m] = <<m>>
      /\ ~IsStruct(Types[t].members[m]) => T[<<m>>].kids = << >>
  BY <1>1, MemberCells DEF T, t
<1>9. \A q \in DOMAIN T : T[q] \in Cells
  BY <1>1, ReadFacts DEF Shape, IsTree, T
<1>10. \A q \in DOMAIN T : e \o q \in Allocated /\ \E a \in Nat : heap[e \o q] = Moved(T[q], e, a)
  <2>1. \A q \in DOMAIN T : IsElement(t, k, q)
    BY <1>3 DEF ReadingInv, t, T
  <2> QED
    BY <2>1 DEF IsElement, e, T
<1>11. e \in Allocated /\ x \in Allocated
  BY <1>7, <1>8, <1>10
<1>12. e \in KidsOf(heap, Vec)
  <2>1. Vec \in Allocated /\ heap[Vec].kids = [j \in 1 .. NPoints |-> Append(Vec, j)]
    BY DEF ReadingInv
  <2>2. k \in DOMAIN heap[Vec].kids /\ e = heap[Vec].kids[k]
    BY <2>1 DEF e
  <2> QED
    BY <2>1, <2>2, KidsAre DEF Allocated
<1>13. x \in KidsOf(heap, e)
  <2>1. PICK a \in Nat : heap[e] = Moved(T[<< >>], e, a)
    BY <1>7, <1>8, <1>10
  <2>2. DOMAIN heap[e].kids = DOMAIN T[<< >>].kids /\ \A i \in DOMAIN T[<< >>].kids : heap[e].kids[i] = e \o T[<< >>].kids[i]
    <3> DEFINE c == T[<< >>]
    <3>1. c \in Cells
      BY <1>8, <1>9
    <3> HIDE DEF c
    <3>2. /\ DOMAIN Moved(c, e, a).kids = DOMAIN c.kids
          /\ \A i \in DOMAIN c.kids : Moved(c, e, a).kids[i] = e \o c.kids[i]
      BY <1>5, <3>1, MovedFacts
    <3>3. heap[e] = Moved(c, e, a)
      BY <2>1 DEF c
    <3>4. DOMAIN heap[e].kids = DOMAIN c.kids /\ \A i \in DOMAIN c.kids : heap[e].kids[i] = e \o c.kids[i]
      BY <3>2, <3>3
    <3> QED
      BY <3>4 DEF c
  <2>3. m \in Members(t)
    BY DEF t
  <2>4. m \in DOMAIN heap[e].kids /\ x = heap[e].kids[m]
    BY <1>7, <1>8, <2>2, <2>3
  <2> QED
    BY <1>11, <2>4, KidsAre DEF Allocated
<1>14. ~IsStruct(Types[t].members[m]) => heap[x].kids = << >>
  <2>1. ASSUME ~IsStruct(Types[t].members[m]) PROVE heap[x].kids = << >>
    <3>1. PICK a \in Nat : heap[x] = Moved(T[<<m>>], e, a)
      BY <1>7, <1>8, <1>10
    <3>2. Moved(T[<<m>>], e, a) \in Cells /\ DOMAIN Moved(T[<<m>>], e, a).kids = DOMAIN T[<<m>>].kids
      <4> DEFINE c == T[<<m>>]
      <4>1. c \in Cells
        BY <1>8, <1>9
      <4> HIDE DEF c
      <4>2. Moved(c, e, a) \in Cells /\ DOMAIN Moved(c, e, a).kids = DOMAIN c.kids
        BY <1>5, <4>1, MovedFacts
      <4> QED
        BY <4>2 DEF c
    <3>3. heap[x].kids \in Seq(Paths)
      BY <3>1, <3>2 DEF Cells
    <3>4. DOMAIN heap[x].kids = {}
      BY <1>8, <2>1, <3>1, <3>2
    <3> QED
      BY <3>3, <3>4, NoKids
  <2> QED
    BY <2>1
<1>15. Len(e) = 3 /\ e[1] = calls /\ e[2] = 1 /\ Len(x) = 4 /\ x[1] = calls /\ x[2] = 1 /\ x[3] = k /\ x[4] = m
  BY <1>4, <1>5, <1>6
<1> QED
  BY <1>3, <1>5, <1>11, <1>12, <1>13, <1>14, <1>15 DEF e, x, t

-----------------------------------------------------------------------------
(* The end of a read.                                                      *)

(* What ~SweepValue deletes: itself and, of a signal, the sweep's values.  *)
LEMMA ReleaseFacts ==
  ASSUME HeapInv, ReadingInv, pc = "read", calls \in Nat, NEW v
  PROVE  LET R == Reach(Released(v), {Sv})
         IN /\ Frees(heap, {Sv}, R) /\ Sv \in R /\ \A y \in R : y[1] = calls
            /\ \A y \in R : y = Sv \/ (v # ParVec /\ y[2] = 2 /\ Len(y) >= 2)
<1> DEFINE g == Released(v)
           R == Reach(g, {Sv})
           K == IF v = ParVec THEN << >> ELSE <<ParVec>>
           S == {ParVec} \cup UNION {KidsOf(heap, o) : o \in Allocated}
           T == {y \in S : v # ParVec /\ y[2] = 2 /\ Len(y) >= 2}
           C == {Sv} \cup T
<1>1. /\ Sv \in Allocated /\ ParVec \in KidsOf(heap, Sv)
      /\ Sv[1] = calls /\ ParVec[2] = 2 /\ Len(ParVec) = 2
  BY CallNames DEF ReadingInv
<1>2. Sound(heap) /\ IsFcn(heap) /\ heap[Sv] \in Cells
  BY <1>1 DEF HeapInv, Sound, IsTree, IsFcn, Allocated
<1>3. DOMAIN g = Allocated /\ g[Sv].kids = K /\ \A o \in Allocated : o # Sv => g[o] = heap[o]
  <2>1. g = [heap EXCEPT ![Sv] = [@ EXCEPT !.kids = K]]
    BY Zenon DEF Released
  <2> HIDE DEF g, K
  <2>2. DOMAIN g = Allocated /\ g[Sv] = [heap[Sv] EXCEPT !.kids = K] /\ \A o \in Allocated : o # Sv => g[o] = heap[o]
    BY <1>1, <1>2, <2>1 DEF Allocated, IsFcn
  <2>3. [heap[Sv] EXCEPT !.kids = K].kids = K
    BY <1>2 DEF Cells
  <2> QED
    BY <2>2, <2>3
<1>4. ToSet(K) = IF v = ParVec THEN {} ELSE {ParVec}
  BY DEF ToSet
<1> HIDE DEF g, K
<1>5. KidsOf(g, Sv) = IF v = ParVec THEN {} ELSE {ParVec}
  BY <1>1, <1>3, <1>4 DEF KidsOf
<1>6. \A z : z # Sv => KidsOf(g, z) = KidsOf(heap, z)
  BY <1>3 DEF KidsOf, Allocated
<1>7. \A z : KidsOf(g, z) \subseteq KidsOf(heap, z)
  <2>1. KidsOf(g, Sv) \subseteq KidsOf(heap, Sv)
    BY <1>1, <1>5
  <2> QED
    BY <1>6, <2>1
<1>8. Frees(heap, {Sv}, R)
  BY <1>7, ReachFrees
<1>9. \A y \in R : y[1] = calls
  <2>1. \A x \in {Sv} : x[1] = calls
    BY <1>1
  <2> QED
    BY <1>2, <1>7, <2>1, SameCall
<1>10. Sv \in R
  BY ReachTwoSteps
<1>11. R \subseteq C
  <2>1. ASSUME NEW x \in C, NEW y \in KidsOf(g, x) PROVE y \in C
    <3>1. CASE x = Sv
      <4>1. v # ParVec /\ y = ParVec
        BY <1>5, <2>1, <3>1
      <4>2. ParVec[2] = 2 /\ Len(ParVec) >= 2
        BY <1>1
      <4>3. ParVec \in T
        BY <4>1, <4>2
      <4> QED
        BY <4>1, <4>3
    <3>2. CASE x # Sv
      <4>1. v # ParVec /\ x[2] = 2 /\ Len(x) >= 2 /\ y \in KidsOf(heap, x)
        BY <1>6, <2>1, <3>2
      <4>2. /\ x \in DOMAIN heap /\ Len(x) \in Nat /\ Len(y) = Len(x) + 1
            /\ ~Copied(x) => \A i \in 1 .. Len(x) : y[i] = x[i]
        BY <1>2, <4>1, KidFacts
      <4>3. ~Copied(x) /\ 2 \in 1 .. Len(x)
        BY <4>1, <4>2 DEF Copied, Loose
      <4>4. y[2] = 2 /\ Len(y) >= 2
        BY <4>1, <4>2, <4>3
      <4> QED
        BY <4>1, <4>2, <4>4 DEF Allocated
    <3> QED
      BY <3>1, <3>2
  <2>2. {Sv} \subseteq C /\ \A x \in C : KidsOf(g, x) \subseteq C
    BY <2>1
  <2> HIDE DEF C
  <2> QED
    BY <2>2, ReachWithin
<1>12. \A y \in R : y = Sv \/ (v # ParVec /\ y[2] = 2 /\ Len(y) >= 2)
  <2>1. \A y \in C : y = Sv \/ (v # ParVec /\ y[2] = 2 /\ Len(y) >= 2)
    OBVIOUS
  <2> HIDE DEF C, R
  <2> QED
    BY <1>11, <2>1
<1> QED
  BY <1>8, <1>9, <1>10, <1>12 DEF g

(* The client gets a result, and the SweepValue is no more.                *)
LEMMA Returned ==
  ASSUME Inv, Return, Sound(heap'), Sv \notin Allocated', Result \in Allocated',
         \E j \in Nat : Result = <<calls, j>>,
         \A o \in Allocated : o[1] # calls => o \in Allocated' /\ heap'[o] = heap[o],
         \A o \in Allocated' : o \in Allocated \/ (o[1] = calls /\ Len(o) >= 2),
         Result = Vs =>
           \A m \in Members(TypeOf(query.signal)) :
             /\ Append(Vs, m) \in Allocated'
             /\ heap'[Append(Vs, m)].kids = [k \in 1 .. NPoints |-> Append(Append(Vs, m), k)]
             /\ \A k \in 1 .. NPoints :
                  /\ Vs \o <<m, k>> \in Allocated'
                  /\ ~IsStruct(Types[TypeOf(query.signal)].members[m]) => heap'[Vs \o <<m, k>>].kids = << >>
  PROVE  Inv'
<1>1. FileInv /\ HeapInv /\ HandleInv /\ ParseInv /\ ReadingInv /\ LastInv
  BY DEF Inv
<1>2. /\ pc = "read" /\ file' = file /\ client' = client /\ buf' = buf /\ m_invertstruct' = m_invertstruct
      /\ calls' = calls /\ query' = query /\ w' = w /\ views' = views
      /\ IF client = "cpp" THEN pc' = "idle" /\ held' = held \cup {Result} /\ last' = "values"
         ELSE pc' = "convert" /\ held' = held /\ last' = last
  BY DEF Return
<1>3. calls \in Nat /\ calls >= 1 /\ client \in {"cpp", "python"}
  BY <1>1, <1>2, CallsAssumed DEF FileInv, ReadingInv
<1>4. FileInv'
  <2>1. pc' \in {"idle", "convert"}
    BY <1>2
  <2> QED
    BY <1>1, <1>2, <2>1 DEF FileInv
<1>5. HeapInv'
  <2>1. <<0>> \notin Allocated'
    <3>1. <<0>>[1] = 0
      OBVIOUS
    <3> QED
      BY <1>1, <1>3, <3>1 DEF HeapInv
  <2>2. \A o \in Allocated' : o[1] <= calls'
    BY <1>1, <1>2, <1>3 DEF HeapInv
  <2> QED
    BY <2>1, <2>2 DEF HeapInv
<1>6. \A x \in Allocated' : x \in Allocated \/ Len(x) >= 2 \/ x[1] = calls + 1
  OBVIOUS
<1>7. ASSUME NEW o, Handle(o) PROVE Handle(o)'
  <2>1. PICK c \in 1 .. calls : \E j \in Nat : o = <<c, j>> /\ <<c>> \notin Allocated
    BY <1>7 DEF Handle
  <2>2. PICK j \in Nat : o = <<c, j>>
    BY <2>1
  <2>3. <<c>> # Sv /\ Sv = <<calls>>
    BY <1>1, <1>2, <2>1 DEF ReadingInv, Sv
  <2>4. c # calls /\ c \in Nat /\ <<c, j>>[1] = c
    BY <2>3, Names
  <2>5. o \in Allocated'
    BY <1>7, <2>2, <2>4 DEF Handle
  <2>6. calls' \in {calls, calls + 1}
    BY <1>2
  <2> QED
    BY <1>1, <1>6, <1>7, <2>5, <2>6, HandleKept
<1>8. HandleInv'
  <2>1. Handle(Result)'
    <3>1. PICK j \in Nat : Result = <<calls, j>>
      OBVIOUS
    <3>2. calls \in 1 .. calls' /\ <<calls>> \notin Allocated'
      BY <1>2, <1>3 DEF Sv
    <3>3. Result' = Result
      BY <1>2 DEF Result, Inverts, Scalar, ParVec, Vs, Vec, TypeOf
    <3>4. \E c \in 1 .. calls' : \E i \in Nat : Result' = <<c, i>> /\ <<c>> \notin Allocated'
      BY <3>1, <3>2, <3>3
    <3> QED
      BY <3>3, <3>4 DEF Handle
  <2>2. \A o : o = Result => Handle(o)'
    <3>1. Result' = Result
      BY <1>2 DEF Result, Inverts, Scalar, ParVec, Vs, Vec, TypeOf
    <3> QED
      BY <2>1, <3>1 DEF Handle
  <2> QED
    BY <1>1, <1>2, <1>3, <1>7, <2>2 DEF HandleInv
<1>9. ParseInv'
  <2>1. KeepsValues
    BY <1>3 DEF KeepsValues
  <2>2. pc' # "parse"
    BY <1>2
  <2> QED
    BY <1>1, <1>2, <2>1, <2>2, ParseKept
<1>10. ConvertInv'
  <2>1. /\ Result' = Result /\ Vs' = Vs /\ Sv' = Sv /\ TypeOf(query.signal)' = TypeOf(query.signal) /\ NPoints' = NPoints
    BY <1>2 DEF Result, Inverts, Scalar, ParVec, Vs, Vec, TypeOf, Sv, NPoints
  <2>2. pc' = "convert" => client' = "python" /\ calls' >= 1
    BY <1>2, <1>3
  <2> QED
    BY <2>1, <2>2 DEF ConvertInv
<1>11. ReadingInv' /\ LastInv'
  <2>1. pc' # "read" /\ (last' = "values" \/ last' = last) /\ pc # "failed"
    BY <1>2
  <2>2. LastInv'
    BY <1>1, <2>1, LastKept
  <2> QED
    BY <2>1, <2>2 DEF ReadingInv
<1> QED
  BY <1>4, <1>5, <1>8, <1>9, <1>10, <1>11 DEF Inv

(* What the call returns, if it inverts nothing.                           *)
LEMMA ReturnKeptInv ==
  ASSUME Inv, Return, ~Inverts
  PROVE  Inv'
<1> DEFINE vec == IF query.signal = Param THEN ParVec ELSE Vec
           R == Reach(Released(vec), {Sv})
<1>1. FileInv /\ HeapInv /\ HandleInv /\ ReadingInv /\ file.swept
  BY DEF Inv, ReadingInv, Return
<1>2. pc = "read" /\ calls' = calls /\ heap' = Without(heap, R)
  BY DEF Return
<1>3. calls \in Nat /\ calls >= 1
  BY <1>1, <1>2, CallsAssumed DEF FileInv, ReadingInv
<1>4. /\ Sv \in Paths /\ Len(Sv) = 1 /\ Sv[1] = calls
      /\ Vec[2] = 1 /\ Len(Vec) = 2 /\ ParVec[2] = 2 /\ Len(ParVec) = 2 /\ Vs[2] = 3
  BY <1>3, CallNames
<1>5. /\ Frees(heap, {Sv}, R) /\ Sv \in R /\ \A y \in R : y[1] = calls
      /\ \A y \in R : y = Sv \/ (vec # ParVec /\ y[2] = 2 /\ Len(y) >= 2)
  BY <1>1, <1>2, <1>3, ReleaseFacts
<1>6. Result = vec
  BY <1>1 DEF Result, Inverts
<1> HIDE DEF R
<1>7. \A x : ~Loose(x) => KidsOf(heap, x) \cap {Sv} = {}
  <2>1. \A x : Sv \notin KidsOf(heap, x)
    BY <1>1, <1>3, NoOwner DEF HeapInv, Sv
  <2> QED
    BY <2>1
<1>8. HeapInv' /\ Allocated' = Allocated \ R /\ \A o \in Allocated \ R : heap'[o] = heap[o]
  BY <1>1, <1>2, <1>3, <1>5, <1>7, FreeKeeps
<1>9. vec \in Allocated
  BY <1>1, <1>2 DEF ReadingInv
<1>10. vec \notin R
  <2>1. CASE query.signal = Param
    <3>1. vec = ParVec /\ ParVec # Sv
      BY <1>4, <2>1
    <3> QED
      BY <1>5, <3>1
  <2>2. CASE query.signal # Param
    <3>1. vec = Vec /\ Vec # Sv /\ ~(Vec[2] = 2)
      BY <1>4, <2>2
    <3> QED
      BY <1>5, <3>1
  <2> QED
    BY <2>1, <2>2
<1>11. Sound(heap') /\ Sv \notin Allocated' /\ Result \in Allocated'
  BY <1>5, <1>6, <1>8, <1>9, <1>10 DEF HeapInv
<1>12. \E j \in Nat : Result = <<calls, j>>
  <2>1. Vec = <<calls, 1>> /\ ParVec = <<calls, 2>> /\ 1 \in Nat /\ 2 \in Nat
    BY DEF Vec, ParVec
  <2> QED
    BY <1>6, <2>1
<1>13. \A o \in Allocated : o[1] # calls => o \in Allocated' /\ heap'[o] = heap[o]
  BY <1>5, <1>8
<1>14. \A o \in Allocated' : o \in Allocated \/ (o[1] = calls /\ Len(o) >= 2)
  BY <1>8
<1>15. Result # Vs
  BY <1>4, <1>6
<1> QED
  BY <1>11, <1>12, <1>13, <1>14, <1>15, Returned

(* The vectors of an inversion, and nothing else.                          *)
IsInversion(f, t) ==
  \A x \in DOMAIN f :
    \/ x = Vs
    \/ \E m \in Nat : m \in Members(t) /\ x = Append(Vs, m)
    \/ \E m, k \in Nat : m \in Members(t) /\ k \in 1 .. NPoints /\ x = TwoBelow(Vs, m, k)

InversionOf(f, h, t) ==
  /\ IsInversion(f, t) /\ Vs \in DOMAIN f
  /\ f[Vs] = Cell([m \in Members(t) |-> Append(Vs, m)], Nowhere)
  /\ \A m \in Nat : m \in Members(t) =>
       /\ Append(Vs, m) \in DOMAIN f
       /\ f[Append(Vs, m)] = Cell([k \in 1 .. NPoints |-> Append(Append(Vs, m), k)], Nowhere)
  /\ \A m, k \in Nat : m \in Members(t) /\ k \in 1 .. NPoints =>
       /\ TwoBelow(Vs, m, k) \in DOMAIN f
       /\ f[TwoBelow(Vs, m, k)] = h[TwoBelow(Vec, k, m)]
  /\ IsFcn(f)

LEMMA MemberVectorsFacts ==
  ASSUME calls \in Nat, NPoints \in Nat, NEW h, NEW t \in TypeIds, t = TypeOf(query.signal)
  PROVE  InversionOf(MemberVectors(h), h, t)
<1> DEFINE f == MemberVectors(h)
           M == Members(TypeOf(query.signal))
           name(m, k) == Vs \o <<m, k>>
           D == {Vs} \cup {Append(Vs, m) : m \in M} \cup {name(m, k) : m \in M, k \in 1 .. NPoints}
           root == Cell([m \in M |-> Append(Vs, m)], Nowhere)
           elements(o) == Cell([k \in 1 .. NPoints |-> Append(o, k)], Nowhere)
           copy(o) == h[Vec \o <<o[4], o[3]>>]
           body(o) == CASE Len(o) = 2 -> root [] Len(o) = 3 -> elements(o) [] Len(o) = 4 -> copy(o)
<1>0. Len(Vs) = 2 /\ Len(Vec) = 2
  BY CallNames
<1>1. Vs \in Paths /\ Vec \in Paths
  BY CallNames
<1>2. M \subseteq Nat /\ M = Members(t)
  BY TypeFacts
<1>3. f = [o \in D |-> body(o)]
  BY DEF MemberVectors
<1> HIDE DEF f, M
<1>4. DOMAIN f = D /\ IsFcn(f) /\ \A x \in D : f[x] = body(x)
  <2> HIDE DEF D, body
  <2> QED
    BY <1>3 DEF IsFcn
<1>5. /\ \A x \in D : Len(x) = 2 => f[x] = root
      /\ \A x \in D : Len(x) = 3 => f[x] = elements(x)
      /\ \A x \in D : Len(x) = 4 => f[x] = copy(x)
  <2> HIDE DEF D, root, elements, copy
  <2> QED
    BY <1>4
<1>6. ASSUME NEW m \in Nat, m \in M PROVE Append(Vs, m) \in D /\ Len(Append(Vs, m)) = 3
  <2>1. << >> \in Paths
    BY DEF Paths
  <2>2. Len(Append(Vs, m)) = Len(Vs) + 1
    BY <1>1, <2>1, AppendNames
  <2> QED
    BY <1>0, <1>6, <2>2
<1>7. ASSUME NEW m \in Nat, NEW k \in Nat, m \in M, k \in 1 .. NPoints
      PROVE  TwoBelow(Vs, m, k) \in D /\ f[TwoBelow(Vs, m, k)] = h[TwoBelow(Vec, k, m)]
  <2> DEFINE x == TwoBelow(Vs, m, k)
             y == name(m, k)
  <2>1. y = x
    BY <1>1, PairJoins, Zenon
  <2>2. y \in D
    <3> HIDE DEF name
    <3> QED
      BY <1>7
  <2>3. Vec \o <<k, m>> = TwoBelow(Vec, k, m)
    BY <1>1, PairJoins, Zenon
  <2> HIDE DEF D, y, x
  <2>4. Len(x) = 4 /\ x[3] = m /\ x[4] = k
    BY <1>0, <1>1, PairNames DEF x
  <2>5. copy(x) = h[TwoBelow(Vec, k, m)]
    BY <2>3, <2>4
  <2> HIDE DEF copy
  <2>6. x \in D /\ f[x] = copy(x)
    BY <1>5, <2>1, <2>2, <2>4
  <2> QED
    BY <2>5, <2>6 DEF x
<1>11. \A m, k \in Nat : name(m, k) = TwoBelow(Vs, m, k)
  <2>1. ASSUME NEW m \in Nat, NEW k \in Nat PROVE name(m, k) = TwoBelow(Vs, m, k)
    <3> DEFINE y == name(m, k)
    <3>1. y = TwoBelow(Vs, m, k)
      BY <1>1, PairJoins, Zenon
    <3> QED
      BY <3>1
  <2> QED
    BY <2>1
<1> HIDE DEF name
<1>8. \A x \in D :
        \/ x = Vs
        \/ \E m \in Nat : m \in M /\ x = Append(Vs, m)
        \/ \E m, k \in Nat : m \in M /\ k \in 1 .. NPoints /\ x = TwoBelow(Vs, m, k)
  <2>1. ASSUME NEW x \in D, x # Vs, ~\E m \in Nat : m \in M /\ x = Append(Vs, m)
        PROVE  \E m, k \in Nat : m \in M /\ k \in 1 .. NPoints /\ x = TwoBelow(Vs, m, k)
    <3>1. PICK m \in M, k \in 1 .. NPoints : x = name(m, k)
      BY <1>2, <2>1
    <3>2. m \in Nat /\ k \in Nat
      BY <1>2
    <3> QED
      BY <1>11, <3>1, <3>2
  <2> QED
    BY <2>1
<1>9. Vs \in D /\ f[Vs] = root
  BY <1>0, <1>5
<1>10. \A m \in Nat : m \in M => Append(Vs, m) \in D /\ f[Append(Vs, m)] = elements(Append(Vs, m))
  <2> HIDE DEF D, elements
  <2> QED
    BY <1>5, <1>6
<1> HIDE DEF D, name, body
<1>12. IsInversion(f, t)
  BY <1>2, <1>4, <1>8 DEF IsInversion
<1> QED
  BY <1>2, <1>4, <1>7, <1>8, <1>9, <1>10, <1>12 DEF f, InversionOf

(* Vectors that a structure of vectors is made of join the rest.           *)
LEMMA PutLoose ==
  ASSUME NEW h, Sound(h), NEW new, IsTree(new),
         \A x \in DOMAIN new : Len(x) >= 1 /\ Loose(x) /\ Named(new, x),
         \A x \in DOMAIN new : Copied(x) => Name(x) \notin DOMAIN h
  PROVE  Sound(Put(new, h))
<1> DEFINE n == Put(new, h)
<1>1. /\ DOMAIN n = DOMAIN new \cup DOMAIN h /\ IsFcn(n)
      /\ \A o \in DOMAIN new : n[o] = new[o] /\ KidsOf(n, o) = KidsOf(new, o)
      /\ \A o : o \notin DOMAIN new /\ o \in DOMAIN h => n[o] = h[o]
      /\ \A o : o \notin DOMAIN new => KidsOf(n, o) = KidsOf(h, o)
  BY DEF Put, KidsOf, IsFcn
<1> HIDE DEF n
<1>2. \A o \in DOMAIN n : o \in Paths /\ n[o] \in Cells /\ Len(o) >= 1
  BY <1>1 DEF Sound, IsTree
<1>3. IsTree(n)
  BY <1>1, <1>2 DEF IsTree, IsFcn
<1>4. \A o \in DOMAIN n : Named(n, o)
  BY <1>1 DEF Sound, Named
<1>5. ASSUME NEW o \in DOMAIN n, Copied(o) PROVE Name(o) \notin DOMAIN n
  <2>1. Name(o)[2] = 1
    BY <1>2, <1>5, NameFacts
  <2>2. Name(o) \notin DOMAIN new
    BY <2>1 DEF Loose
  <2>3. Name(o) \notin DOMAIN h
    BY <1>1, <1>5 DEF Sound
  <2> QED
    BY <1>1, <2>2, <2>3
<1>6. \A o \in DOMAIN n : ~Loose(o) => KidsOf(n, o) \subseteq DOMAIN n
  BY <1>1 DEF Sound
<1>7. Sound(n)
  BY <1>2, <1>3, <1>4, <1>5, <1>6 DEF Sound
<1> QED
  BY <1>7 DEF n

(* A vector of a call leads to its own objects only.                       *)
LEMMA SameVector ==
  ASSUME NEW h, Sound(h), NEW o, Len(o) >= 2, o[2] # 3
  PROVE  \A y \in Reach(h, {o}) : y[1] = o[1] /\ y[2] = o[2]
<1> DEFINE S == {o} \cup UNION {KidsOf(h, x) : x \in DOMAIN h}
           C == {y \in S : Len(y) >= 2 /\ y[1] = o[1] /\ y[2] = o[2]}
<1>1. ASSUME NEW x \in C, NEW y \in KidsOf(h, x) PROVE y \in C
  <2>1. Len(x) >= 2 /\ x[1] = o[1] /\ x[2] = o[2]
    OBVIOUS
  <2>2. /\ x \in DOMAIN h /\ Len(x) \in Nat /\ Len(y) = Len(x) + 1 /\ y[1] = x[1]
        /\ ~Copied(x) => \A i \in 1 .. Len(x) : y[i] = x[i]
    BY KidFacts
  <2>3. ~Copied(x) /\ 2 \in 1 .. Len(x)
    BY <2>1, <2>2 DEF Copied, Loose
  <2>4. Len(y) >= 2 /\ y[1] = o[1] /\ y[2] = o[2]
    BY <2>1, <2>2, <2>3
  <2>5. y \in S
    BY <2>2
  <2> QED
    BY <2>4, <2>5
<1>2. {o} \subseteq C /\ \A x \in C : KidsOf(h, x) \subseteq C
  BY <1>1
<1>3. \A y \in C : y[1] = o[1] /\ y[2] = o[2]
  OBVIOUS
<1> HIDE DEF C
<1> QED
  BY <1>2, <1>3, ReachWithin

LEMMA CopyNames ==
  ASSUME calls \in Nat, calls >= 1, NEW m \in Nat, NEW k \in Nat
  PROVE  LET x == TwoBelow(Vs, m, k)
         IN /\ x \in Paths /\ Len(x) = 4 /\ x[1] = calls /\ x[2] = 3 /\ x[3] = m /\ x[4] = k
            /\ Loose(x) /\ Copied(x) /\ Name(x) = TwoBelow(Vec, k, m)
<1> DEFINE x == TwoBelow(Vs, m, k)
           y == TwoBelow(Vec, k, m)
<1>1. /\ Vs \in Paths /\ Len(Vs) = 2 /\ Vs[1] = calls /\ Vs[2] = 3
      /\ Vec \in Paths /\ Len(Vec) = 2 /\ Vec[1] = calls /\ Vec[2] = 1
  BY CallNames
<1>2. \A p \in Paths : \A a, b \in Nat : Len(p) = 2 =>
        LET z == TwoBelow(p, a, b)
        IN z \in Paths /\ Len(z) = 4 /\ z[1] = p[1] /\ z[2] = p[2] /\ z[3] = a /\ z[4] = b
  BY PairNames
<1>3. /\ x \in Paths /\ Len(x) = 4 /\ x[1] = calls /\ x[2] = 3 /\ x[3] = m /\ x[4] = k
      /\ y \in Paths /\ Len(y) = 4 /\ y[1] = calls /\ y[2] = 1 /\ y[3] = k /\ y[4] = m
  BY <1>1, <1>2
<1> HIDE DEF x, y
<1>4. Loose(x) /\ Copied(x)
  BY <1>3 DEF Loose, Copied
<1>5. Name(x) \in Paths /\ Len(Name(x)) = 4 /\ Name(x)[1] = calls /\ Name(x)[2] = 1 /\ Name(x)[3] = k /\ Name(x)[4] = m
  BY <1>3, <1>4, NameFacts
<1>6. Name(x) = y
  <2> DEFINE z == Name(x)
  <2>1. z \in Seq(Nat) /\ y \in Seq(Nat) /\ Len(z) = Len(y)
    BY <1>3, <1>5 DEF Paths
  <2>2. \A i \in 1 .. Len(z) : z[i] = y[i]
    <3>1. \A i \in 1 .. 4 : i = 1 \/ i = 2 \/ i = 3 \/ i = 4
      OBVIOUS
    <3> QED
      BY <1>3, <1>5, <3>1
  <2> HIDE DEF z
  <2>3. z = y
    BY <2>1, <2>2, SeqEqual
  <2> QED
    BY <2>3 DEF z
<1> QED
  BY <1>3, <1>4, <1>6 DEF x, y

Row(p, n) == [k \in 1 .. n |-> Append(p, k)]

LEMMA CellFits ==
  ASSUME NEW p \in Paths, NEW n \in Nat
  PROVE  /\ Cell(Row(p, n), Nowhere) \in Cells /\ Cell(Row(p, n), Nowhere).kids = Row(p, n)
         /\ \A y \in ToSet(Row(p, n)) : \E j \in Nat : y = Append(p, j)
<1> DEFINE seq == Row(p, n)
<1>1. seq = [k \in 1 .. n |-> seq[k]] /\ \A k \in 1 .. n : seq[k] \in Paths
  <2>1. << >> \in Paths
    BY DEF Paths
  <2>2. \A k \in 1 .. n : Append(p, k) \in Paths
    BY <2>1, AppendNames
  <2> QED
    BY <2>2 DEF Row
<1>2. \A y \in ToSet(seq) : \E j \in Nat : y = Append(p, j)
  BY DEF ToSet, Row
<1> HIDE DEF seq
<1>3. Nowhere \in Sources
  BY DEF Nowhere, Sources
<1>4. Cell(seq, Nowhere) \in Cells
  BY <1>1, <1>3, CellIntro
<1>5. Cell(seq, Nowhere).kids = seq
  BY DEF Cell
<1> QED
  BY <1>2, <1>4, <1>5 DEF seq

LEMMA InversionFits ==
  ASSUME calls \in Nat, calls >= 1, NPoints \in Nat, NEW h, Sound(h), NEW t \in TypeIds, t = TypeOf(query.signal),
         \A k, m \in Nat : k \in 1 .. NPoints /\ m \in Members(t) => TwoBelow(Vec, k, m) \in DOMAIN h
  PROVE  /\ IsTree(MemberVectors(h))
         /\ \A x \in DOMAIN MemberVectors(h) :
              /\ Len(x) >= 2 /\ x[1] = calls /\ x[2] = 3 /\ Loose(x) /\ Named(MemberVectors(h), x)
              /\ Copied(x) => \E k, m \in Nat : k \in 1 .. NPoints /\ m \in Members(t) /\ Name(x) = TwoBelow(Vec, k, m)
<1> DEFINE f == MemberVectors(h)
           M == Members(t)
<1>1. /\ \A x \in DOMAIN f :
              \/ x = Vs
              \/ \E m \in Nat : m \in M /\ x = Append(Vs, m)
              \/ \E m, k \in Nat : m \in M /\ k \in 1 .. NPoints /\ x = TwoBelow(Vs, m, k)
      /\ f[Vs] = Cell([m \in M |-> Append(Vs, m)], Nowhere)
      /\ \A m \in Nat : m \in M =>
           /\ Append(Vs, m) \in DOMAIN f
           /\ f[Append(Vs, m)] = Cell([k \in 1 .. NPoints |-> Append(Append(Vs, m), k)], Nowhere)
      /\ \A m, k \in Nat : m \in M /\ k \in 1 .. NPoints =>
           /\ TwoBelow(Vs, m, k) \in DOMAIN f
           /\ f[TwoBelow(Vs, m, k)] = h[TwoBelow(Vec, k, m)]
      /\ IsFcn(f)
  <2>1. InversionOf(f, h, t)
    BY MemberVectorsFacts
  <2> HIDE DEF f
  <2> QED
    BY <2>1 DEF InversionOf, IsInversion
<1>2. Vs \in Paths /\ Len(Vs) = 2 /\ Vs[1] = calls /\ Vs[2] = 3
  BY CallNames
<1>3. M = 1 .. Len(Types[t].members) /\ Len(Types[t].members) \in Nat
  BY TypeFacts
<1> HIDE DEF f, M
<1> DEFINE Good(x) ==
             /\ x \in Paths /\ f[x] \in Cells /\ Len(x) >= 2 /\ x[1] = calls /\ x[2] = 3 /\ Loose(x)
             /\ \A y \in ToSet(f[x].kids) : \E j \in Nat : y = Append(Name(x), j)
             /\ Copied(x) => \E k, m \in Nat : k \in 1 .. NPoints /\ m \in M /\ Name(x) = TwoBelow(Vec, k, m)
<1>4. Good(Vs)
  <2>1. Loose(Vs) /\ ~Copied(Vs) /\ Name(Vs) = Vs
    BY <1>2 DEF Loose, Copied, Name
  <2>2. f[Vs] \in Cells /\ \A y \in ToSet(f[Vs].kids) : \E j \in Nat : y = Append(Vs, j)
    <3> DEFINE n == Len(Types[t].members)
    <3>1. f[Vs] = Cell([m \in 1 .. n |-> Append(Vs, m)], Nowhere) /\ n \in Nat
      BY <1>1, <1>3
    <3> HIDE DEF n
    <3>2. f[Vs] = Cell(Row(Vs, n), Nowhere)
      BY <3>1, Zenon DEF Row
    <3>3. Vs \in Paths
      BY <1>2
    <3>4. /\ Cell(Row(Vs, n), Nowhere) \in Cells /\ Cell(Row(Vs, n), Nowhere).kids = Row(Vs, n)
          /\ \A y \in ToSet(Row(Vs, n)) : \E j \in Nat : y = Append(Vs, j)
      BY <3>1, <3>3, CellFits
    <3> QED
      BY <3>2, <3>4
  <2> QED
    BY <1>2, <2>1, <2>2
<1>5. ASSUME NEW m \in Nat, m \in M PROVE Good(Append(Vs, m))
  <2> DEFINE x == Append(Vs, m)
  <2>1. /\ x \in Paths /\ Len(x) = Len(Vs) + 1 /\ \A i \in 1 .. Len(Vs) : x[i] = Vs[i]
    <3>1. << >> \in Paths
      BY DEF Paths
    <3> QED
      BY <1>2, <3>1, AppendNames
  <2>2. f[x] = Cell([k \in 1 .. NPoints |-> Append(x, k)], Nowhere)
    BY <1>1, <1>5
  <2> HIDE DEF x
  <2>3. Len(x) = 3 /\ x[1] = calls /\ x[2] = 3
    BY <1>2, <2>1
  <2>4. Loose(x) /\ ~Copied(x) /\ Name(x) = x
    BY <2>3 DEF Loose, Copied, Name
  <2>5. f[x] \in Cells /\ \A y \in ToSet(f[x].kids) : \E j \in Nat : y = Append(x, j)
    <3>1. f[x] = Cell(Row(x, NPoints), Nowhere)
      BY <2>2, Zenon DEF Row
    <3> QED
      BY <2>1, <3>1, CellFits
  <2>6. Good(x)
    BY <2>1, <2>3, <2>4, <2>5
  <2> QED
    BY <2>6 DEF x
<1>6. ASSUME NEW m \in Nat, NEW k \in Nat, m \in M, k \in 1 .. NPoints PROVE Good(TwoBelow(Vs, m, k))
  <2> DEFINE x == TwoBelow(Vs, m, k)
             y == TwoBelow(Vec, k, m)
  <2>1. /\ x \in Paths /\ Len(x) = 4 /\ x[1] = calls /\ x[2] = 3 /\ Loose(x) /\ Copied(x) /\ Name(x) = y
    BY CopyNames
  <2>2. f[x] = h[y] /\ y \in DOMAIN h
    BY <1>1, <1>6 DEF M
  <2> HIDE DEF x, y
  <2>3. y[2] = 1 /\ Name(y) = y
    <3>1. y[2] = 1
      BY <2>1, NameFacts
    <3> QED
      BY <3>1 DEF Name, Copied, Loose
  <2>4. f[x] \in Cells
    BY <2>2 DEF Sound, IsTree
  <2>5. \A z \in ToSet(f[x].kids) : \E j \in Nat : z = Append(y, j)
    BY <2>2, <2>3 DEF Sound, Named, KidsOf
  <2>6. \E i, n \in Nat : i \in 1 .. NPoints /\ n \in M /\ y = TwoBelow(Vec, i, n)
    BY <1>6 DEF y
  <2>7. Good(x)
    BY <2>1, <2>4, <2>5, <2>6
  <2> QED
    BY <2>7 DEF x
<1> HIDE DEF Good
<1>7. ASSUME NEW x \in DOMAIN f PROVE Good(x)
  <2>1. CASE x = Vs
    BY <1>4, <2>1, Zenon
  <2>2. ASSUME NEW m \in Nat, m \in M, x = Append(Vs, m) PROVE Good(x)
    BY <1>5, <2>2, Zenon
  <2>3. ASSUME NEW m \in Nat, NEW k \in Nat, m \in M, k \in 1 .. NPoints, x = TwoBelow(Vs, m, k) PROVE Good(x)
    BY <1>6, <2>3, Zenon
  <2> QED
    BY <1>1, <2>1, <2>2, <2>3, Zenon
<1>8. IsTree(f)
  BY <1>1, <1>7 DEF IsTree, IsFcn, Good
<1>9. \A x \in DOMAIN f : Named(f, x)
  BY <1>7 DEF Named, KidsOf, Good
<1> QED
  BY <1>7, <1>8, <1>9 DEF Good, f, M

LEMMA ReturnInvertedInv ==
  ASSUME Inv, Return, Inverts
  PROVE  Inv'
<1> DEFINE t == TypeOf(query.signal)
           R == Reach(Released(Vec), {Sv})
           h == Without(heap, R)
           F == Reach(h, {Vec})
           rest == Without(h, F)
           f == MemberVectors(h)
<1>1. FileInv /\ HeapInv /\ HandleInv /\ ReadingInv /\ file.swept
  BY DEF Inv, ReadingInv, Return
<1>2. /\ pc = "read" /\ w = Len(file.windows) /\ calls' = calls /\ query.signal # Param /\ IsStruct(t)
      /\ query.signal \in DOMAIN file.signals
  BY <1>1 DEF Return, Inverts, FileInv
<1>3. heap' = Without(Put(f, h), F)
  <2>1. heap' = Inverted(Without(heap, Reach(Released(IF query.signal = Param THEN ParVec ELSE Vec), {Sv})))
    BY DEF Return
  <2>2. heap' = Inverted(h)
    BY <1>2, <2>1
  <2> QED
    BY <2>2, Zenon DEF Inverted
<1>4. calls \in Nat /\ calls >= 1 /\ file \in Files /\ t \in TypeIds /\ NPoints \in Nat
  BY <1>1, <1>2, CallsAssumed, FileFacts, WindowFacts DEF FileInv, ReadingInv
<1>5. /\ Sv \in Paths /\ Len(Sv) = 1 /\ Sv[1] = calls
      /\ Vec[2] = 1 /\ Len(Vec) = 2 /\ Vec[1] = calls /\ Vs[2] = 3
  BY <1>4, CallNames
<1>6. /\ Frees(heap, {Sv}, R) /\ Sv \in R /\ \A y \in R : y[1] = calls
      /\ \A y \in R : y = Sv \/ y[2] = 2
  BY <1>1, <1>2, <1>4, ReleaseFacts
<1> HIDE DEF R
<1>7. /\ DOMAIN h = Allocated \ R
      /\ \A o \in Allocated \ R : h[o] = heap[o] /\ KidsOf(h, o) = KidsOf(heap, o)
  BY WithoutFacts DEF Allocated
<1>8. Sound(h)
  <2>1. \A x : ~Loose(x) => KidsOf(heap, x) \cap {Sv} = {}
    <3>1. \A x : Sv \notin KidsOf(heap, x)
      BY <1>1, <1>4, NoOwner DEF HeapInv, Sv
    <3> QED
      BY <3>1
  <2> QED
    BY <1>1, <1>6, <2>1, FreeSound DEF HeapInv
<1> HIDE DEF h
<1>9. Frees(h, {Vec}, F) /\ \A y \in F : y[1] = calls /\ y[2] = 1
  <2>1. Frees(h, {Vec}, F)
    BY ReachFrees
  <2>2. Len(Vec) >= 2 /\ Vec[2] # 3
    BY <1>5
  <2>3. \A y \in F : y[1] = Vec[1] /\ y[2] = Vec[2]
    BY <1>8, <2>2, SameVector
  <2> QED
    BY <1>5, <2>1, <2>3
<1>10. Sound(rest)
  <2>1. Sv \notin DOMAIN h
    BY <1>6, <1>7
  <2>2. \A x : Vec \notin KidsOf(h, x)
    BY <1>4, <1>8, <2>1, NoOwner DEF Sv, Vec
  <2>3. \A x : ~Loose(x) => KidsOf(h, x) \cap {Vec} = {}
    BY <2>2
  <2> QED
    BY <1>8, <1>9, <2>3, FreeSound
<1>11. DOMAIN rest = DOMAIN h \ F /\ IsFcn(rest) /\ \A o \in DOMAIN h \ F : rest[o] = h[o]
  BY WithoutFacts
<1>12. ASSUME NEW k \in Nat, NEW m \in Nat, k \in 1 .. NPoints, m \in Members(t)
       PROVE  LET x == TwoBelow(Vec, k, m)
              IN /\ x \in DOMAIN h /\ x \in F
                 /\ ~IsStruct(Types[t].members[m]) => h[x].kids = << >>
  <2> DEFINE e == Append(Vec, k)
             x == Append(e, m)
  <2>1. /\ e \in Allocated /\ e \in KidsOf(heap, Vec) /\ e[2] = 1 /\ Len(e) = 3
        /\ x \in Allocated /\ x \in KidsOf(heap, e) /\ x[2] = 1 /\ Len(x) = 4
        /\ ~IsStruct(Types[t].members[m]) => heap[x].kids = << >>
    BY <1>1, <1>2, <1>12, SourceFacts
  <2>2. x = TwoBelow(Vec, k, m)
    BY DEF TwoBelow
  <2> HIDE DEF e, x
  <2>3. Vec \in Allocated
    BY <1>1, <1>2 DEF ReadingInv
  <2>4. Vec \notin R /\ e \notin R /\ x \notin R
    BY <1>5, <1>6, <2>1
  <2>5. e \in KidsOf(h, Vec) /\ x \in KidsOf(h, e) /\ x \in DOMAIN h /\ h[x] = heap[x]
    BY <1>7, <2>1, <2>3, <2>4
  <2>6. x \in F
    <3>1. \A z \in {Vec} : \A y \in KidsOf(h, z) : KidsOf(h, y) \subseteq F
      BY ReachTwoSteps
    <3> QED
      BY <2>5, <3>1
  <2> QED
    BY <2>1, <2>2, <2>5, <2>6
<1> HIDE DEF F, rest, t
<1>13. /\ IsTree(f)
       /\ \A x \in DOMAIN f :
            /\ Len(x) >= 2 /\ x[1] = calls /\ x[2] = 3 /\ Loose(x) /\ Named(f, x)
            /\ Copied(x) => \E k, m \in Nat : k \in 1 .. NPoints /\ m \in Members(t) /\ Name(x) = TwoBelow(Vec, k, m)
  <2>1. \A k, m \in Nat : k \in 1 .. NPoints /\ m \in Members(t) => TwoBelow(Vec, k, m) \in DOMAIN h
    BY <1>12
  <2> QED
    BY <1>4, <1>8, <2>1, InversionFits DEF t
<1>14. /\ Vs \in DOMAIN f
       /\ \A m \in Nat : m \in Members(t) =>
            /\ Append(Vs, m) \in DOMAIN f
            /\ f[Append(Vs, m)] = Cell([k \in 1 .. NPoints |-> Append(Append(Vs, m), k)], Nowhere)
       /\ \A m, k \in Nat : m \in Members(t) /\ k \in 1 .. NPoints =>
            /\ TwoBelow(Vs, m, k) \in DOMAIN f
            /\ f[TwoBelow(Vs, m, k)] = h[TwoBelow(Vec, k, m)]
  <2>1. InversionOf(f, h, t)
    BY <1>4, MemberVectorsFacts DEF t
  <2> HIDE DEF f, t
  <2> QED
    BY <2>1 DEF InversionOf, IsInversion
<1> HIDE DEF f
<1>15. heap' = Put(f, rest)
  <2> DEFINE a == Put(f, h)
             l == Without(a, F)
             r == Put(f, rest)
  <2>1. IsPut(a, f, h) /\ IsPut(r, f, rest)
    BY PutIs
  <2>2. DOMAIN l = DOMAIN a \ F /\ IsFcn(l) /\ \A o \in DOMAIN a \ F : l[o] = a[o]
    BY WithoutFacts
  <2>3. l = heap'
    BY <1>3
  <2> HIDE DEF a, l, r
  <2>4. DOMAIN f \cap F = {}
    <3>1. \A x \in DOMAIN f : x[2] = 3
      BY <1>13
    <3>2. \A x \in F : x[2] = 1
      BY <1>9
    <3> QED
      BY <3>1, <3>2
  <2>5. DOMAIN l = DOMAIN r
    BY <1>11, <2>1, <2>2, <2>4 DEF IsPut
  <2>6. \A o \in DOMAIN l : l[o] = r[o]
    BY <1>11, <2>1, <2>2, <2>4 DEF IsPut
  <2>7. l = r
    BY <2>1, <2>2, <2>5, <2>6, Zenon DEF IsFcn, IsPut
  <2> QED
    BY <2>3, <2>7 DEF r
<1>16. /\ Allocated' = DOMAIN f \cup (DOMAIN h \ F)
       /\ \A o \in DOMAIN f : heap'[o] = f[o]
       /\ \A o \in DOMAIN h \ F : o \notin DOMAIN f => heap'[o] = h[o]
  <2>1. IsPut(heap', f, rest)
    BY <1>15, PutIs
  <2> QED
    BY <1>11, <2>1 DEF IsPut, Allocated
<1>17. Sound(heap')
  <2>1. \A x \in DOMAIN f : Copied(x) => Name(x) \notin DOMAIN rest
    BY <1>11, <1>12, <1>13
  <2>2. \A x \in DOMAIN f : Len(x) >= 1 /\ Loose(x) /\ Named(f, x)
    <3>1. ASSUME NEW x \in DOMAIN f PROVE Len(x) >= 1 /\ Loose(x) /\ Named(f, x)
      <4>1. x \in Paths /\ Len(x) >= 2 /\ Loose(x) /\ Named(f, x)
        BY <1>13 DEF IsTree
      <4> QED
        BY <4>1, PathFacts
    <3> QED
      BY <3>1
  <2> QED
    BY <1>10, <1>13, <1>15, <2>1, <2>2, PutLoose
<1>18. Result = Vs
  BY <1>1, <1>2 DEF Result
<1>19. Sv \notin Allocated' /\ Result \in Allocated'
  <2>1. ~(Len(Sv) >= 2)
    BY <1>5
  <2> QED
    BY <1>6, <1>7, <1>13, <1>14, <1>16, <1>18, <2>1
<1>20. \E j \in Nat : Result = <<calls, j>>
  <2>1. Vs = <<calls, 3>> /\ 3 \in Nat
    BY DEF Vs
  <2> QED
    BY <1>18, <2>1
<1>21. \A o \in Allocated : o[1] # calls => o \in Allocated' /\ heap'[o] = heap[o]
  BY <1>6, <1>7, <1>9, <1>13, <1>16
<1>22. \A o \in Allocated' : o \in Allocated \/ (o[1] = calls /\ Len(o) >= 2)
  BY <1>7, <1>13, <1>16
<1>23. ASSUME NEW m \in Nat, m \in Members(t)
       PROVE  /\ Append(Vs, m) \in Allocated'
              /\ heap'[Append(Vs, m)].kids = [k \in 1 .. NPoints |-> Append(Append(Vs, m), k)]
              /\ \A k \in Nat : k \in 1 .. NPoints =>
                   /\ TwoBelow(Vs, m, k) \in Allocated'
                   /\ ~IsStruct(Types[t].members[m]) => heap'[TwoBelow(Vs, m, k)].kids = << >>
  <2>1. Append(Vs, m) \in Allocated' /\ heap'[Append(Vs, m)] = Cell([k \in 1 .. NPoints |-> Append(Append(Vs, m), k)], Nowhere)
    BY <1>14, <1>16, <1>23
  <2>2. heap'[Append(Vs, m)].kids = [k \in 1 .. NPoints |-> Append(Append(Vs, m), k)]
    BY <2>1 DEF Cell
  <2>3. \A k \in Nat : k \in 1 .. NPoints =>
          /\ TwoBelow(Vs, m, k) \in Allocated' /\ heap'[TwoBelow(Vs, m, k)] = h[TwoBelow(Vec, k, m)]
          /\ ~IsStruct(Types[t].members[m]) => h[TwoBelow(Vec, k, m)].kids = << >>
    BY <1>12, <1>14, <1>16, <1>23
  <2> QED
    BY <2>1, <2>2, <2>3
<1>24. \A m \in Members(t) :
         /\ Append(Vs, m) \in Allocated'
         /\ heap'[Append(Vs, m)].kids = [k \in 1 .. NPoints |-> Append(Append(Vs, m), k)]
         /\ \A k \in 1 .. NPoints :
              /\ Vs \o <<m, k>> \in Allocated'
              /\ ~IsStruct(Types[t].members[m]) => heap'[Vs \o <<m, k>>].kids = << >>
  <2>1. Members(t) \subseteq Nat
    BY <1>4, TypeFacts
  <2>2. Vs \in Paths
    BY <1>4, CallNames
  <2>3. ASSUME NEW m \in Nat, NEW k \in Nat PROVE Vs \o <<m, k>> = TwoBelow(Vs, m, k)
    BY <2>2, PairJoins, Zenon
  <2> DEFINE name(m, k) == Vs \o <<m, k>>
  <2>4. \A m, k \in Nat : name(m, k) = TwoBelow(Vs, m, k)
    BY <2>3
  <2> HIDE DEF name
  <2>5. ASSUME NEW m \in Members(t)
        PROVE  /\ Append(Vs, m) \in Allocated'
               /\ heap'[Append(Vs, m)].kids = [k \in 1 .. NPoints |-> Append(Append(Vs, m), k)]
               /\ \A k \in 1 .. NPoints :
                    /\ name(m, k) \in Allocated'
                    /\ ~IsStruct(Types[t].members[m]) => heap'[name(m, k)].kids = << >>
    <3>1. m \in Nat /\ m \in Members(t)
      BY <2>1
    <3>2. /\ Append(Vs, m) \in Allocated'
          /\ heap'[Append(Vs, m)].kids = [k \in 1 .. NPoints |-> Append(Append(Vs, m), k)]
      BY <1>23, <3>1
    <3>3. \A k \in Nat : k \in 1 .. NPoints =>
            /\ TwoBelow(Vs, m, k) \in Allocated'
            /\ ~IsStruct(Types[t].members[m]) => heap'[TwoBelow(Vs, m, k)].kids = << >>
      BY <1>23, <3>1
    <3>4. ASSUME NEW k \in 1 .. NPoints
          PROVE  /\ name(m, k) \in Allocated'
                 /\ ~IsStruct(Types[t].members[m]) => heap'[name(m, k)].kids = << >>
      <4>1. k \in Nat
        BY <1>4
      <4>2. name(m, k) = TwoBelow(Vs, m, k)
        BY <2>4, <3>1, <4>1
      <4> QED
        BY <3>3, <4>1, <4>2
    <3> QED
      BY <3>2, <3>4
  <2> QED
    BY <2>5 DEF name
<1> QED
  BY <1>17, <1>19, <1>20, <1>21, <1>22, <1>24, Returned DEF t

(* The end of a conversion, which frees some of the call's objects and may *)
(* leave an array over the vector of the sweep parameter.                  *)
LEMMA ConvertedInv ==
  ASSUME Inv, pc = "convert", NEW outcome, NEW objects, Converted(outcome, objects),
         views' = views \/ (views' = views \cup {ParVec} /\ Result = ParVec /\ ParVec \notin objects),
         \A o \in objects : o[1] = calls /\ o[2] # 2,
         \A x : ~Loose(x) => KidsOf(heap, x) \cap objects = {},
         outcome = "undefined" =>
           /\ Inverts
           /\ \E m \in Members(TypeOf(query.signal)) :
                Types[Types[TypeOf(query.signal)].members[m]].kind \in {"int8", "int32", "struct"}
  PROVE  Inv'
<1> DEFINE R == Reach(heap, objects)
<1>1. FileInv /\ HeapInv /\ HandleInv /\ ParseInv /\ ConvertInv
  BY DEF Inv
<1>2. /\ file' = file /\ client' = client /\ buf' = buf /\ m_invertstruct' = m_invertstruct /\ calls' = calls
      /\ query' = query /\ w' = w /\ held' = held /\ heap' = Without(heap, R) /\ last' = outcome
      /\ pc' = IF outcome = "undefined" THEN "failed" ELSE "idle"
  BY DEF Converted
<1>3. client = "python" /\ calls >= 1 /\ calls \in Nat /\ Sv \notin Allocated /\ Result \in Allocated /\ held = {}
  BY <1>1, CallsAssumed DEF ConvertInv, FileInv, HandleInv
<1>4. pc' \in {"idle", "failed"}
  BY <1>2
<1>5. Frees(heap, objects, R)
  BY ReachFrees
<1>6. \A y \in R : y[1] = calls
  BY <1>1, SameCall DEF HeapInv
<1> HIDE DEF R
<1>7. /\ HeapInv' /\ KeepsValues
      /\ Allocated' = Allocated \ R /\ \A o \in Allocated \ R : heap'[o] = heap[o]
      /\ \A o \in held \cup views : o \notin objects => o \in Allocated'
  BY <1>1, <1>2, <1>3, <1>5, <1>6, FreeKeeps
<1>8. FileInv' /\ ReadingInv' /\ ConvertInv'
  BY <1>1, <1>2, <1>4 DEF FileInv, ReadingInv, ConvertInv
<1>9. ParseInv'
  BY <1>1, <1>2, <1>4, <1>7, ParseKept
<1>10. ASSUME NEW o \in views PROVE o \in Allocated' /\ Handle(o)' /\ o[2] = 2
  <2>1. Handle(o) /\ o[2] = 2
    BY <1>1 DEF HandleInv
  <2>2. o \in Allocated'
    BY <1>7, <2>1
  <2>3. \A x \in Allocated' : x \in Allocated \/ Len(x) >= 2 \/ x[1] = calls + 1
    BY <1>7
  <2>4. Handle(o)'
    BY <1>1, <1>2, <2>1, <2>2, <2>3, HandleKept
  <2> QED
    BY <2>1, <2>2, <2>4
<1>11. ASSUME Result = ParVec, ParVec \notin objects
       PROVE  \A o : o = ParVec => Handle(o)' /\ o[2] = 2
  <2>1. ParVec = <<calls, 2>> /\ ParVec[2] = 2 /\ Sv = <<calls>>
    BY DEF ParVec, Sv
  <2>2. ParVec \notin R
    <3>1. \A x : ParVec \notin KidsOf(heap, x)
      BY <1>1, <1>3, <2>1, NoOwner DEF HeapInv, Allocated
    <3> QED
      BY <1>5, <1>11, <3>1 DEF Frees
  <2>3. ParVec \in Allocated' /\ <<calls>> \notin Allocated'
    BY <1>3, <1>7, <1>11, <2>1, <2>2
  <2>4. calls \in 1 .. calls'
    BY <1>2, <1>3
  <2>5. \A o : o = ParVec => o \in Allocated' /\ \E c \in 1 .. calls' : \E j \in Nat : o = <<c, j>> /\ <<c>> \notin Allocated'
    BY <2>1, <2>3, <2>4
  <2> QED
    BY <2>1, <2>5 DEF Handle
<1>12. HandleInv'
  <2>1. \A o \in views' : Handle(o)' /\ o[2] = 2
    BY <1>10, <1>11
  <2>2. held' = {} /\ client' = "python"
    BY <1>2, <1>3
  <2> QED
    BY <2>1, <2>2 DEF HandleInv
<1>13. LastInv'
  <2>1. Inverts' = Inverts /\ \A m : TypeOf(query.signal)' = TypeOf(query.signal)
    BY <1>2 DEF Inverts, TypeOf
  <2>2. last' = "undefined" => outcome = "undefined" /\ pc' = "failed" /\ client' = "python"
    BY <1>2, <1>3
  <2> QED
    BY <2>1, <2>2 DEF LastInv, UndefinedOnlyInverted
<1> QED
  BY <1>7, <1>8, <1>9, <1>12, <1>13 DEF Inv

LEMMA ConvertScalarInv == Inv /\ ConvertScalar => Inv'
<1> SUFFICES ASSUME Inv, ConvertScalar PROVE Inv'
  OBVIOUS
<1> DEFINE outcome == IF Unconvertible(TypeOf(query.signal)) THEN "NotImplemented" ELSE "scalar"
<1>1. pc = "convert" /\ Converted(outcome, {}) /\ views' = views
  BY DEF ConvertScalar
<1>2. outcome # "undefined"
  OBVIOUS
<1> HIDE DEF outcome
<1> QED
  BY <1>1, <1>2, ConvertedInv

LEMMA ConvertSweepInv == Inv /\ ConvertSweep => Inv'
<1> SUFFICES ASSUME Inv, ConvertSweep PROVE Inv'
  OBVIOUS
<1>1. CASE NPoints = 0
  <2>1. pc = "convert" /\ Converted("out_of_range", {}) /\ views' = views
    BY <1>1 DEF ConvertSweep
  <2> QED
    BY <2>1, ConvertedInv
<1>2. CASE NPoints # 0
  <2>1. pc = "convert" /\ Converted("array", {}) /\ views' = views \cup {ParVec} /\ Result = ParVec
    BY <1>2 DEF ConvertSweep
  <2> QED
    BY <2>1, ConvertedInv
<1> QED
  BY <1>1, <1>2

(* What a vector that lives is converted into.                             *)
LEMMA OutcomeFacts ==
  ASSUME NEW t \in TypeIds, NEW vec
  PROVE  /\ Dangles(heap, vec) => Outcome(vec, t) = "undefined"
         /\ ~Dangles(heap, vec) => Outcome(vec, t) # "undefined"
         /\ Outcome(vec, t) = "no result" => Types[t].kind \in {"int8", "int32"}
<1>1. Types[t].kind \in {"int8", "int32", "double", "complex", "struct"}
  BY TypeFacts DEF LeafKinds
<1>2. CASE Dangles(heap, vec)
  BY <1>2 DEF Outcome
<1>3. CASE ~Dangles(heap, vec) /\ Types[t].kind \in {"int8", "int32"}
  BY <1>3 DEF Outcome, IsStruct
<1>4. CASE ~Dangles(heap, vec) /\ Types[t].kind \in {"double", "complex"}
  BY <1>4 DEF Outcome, IsStruct
<1>5. CASE ~Dangles(heap, vec) /\ Types[t].kind = "struct"
  BY <1>5 DEF Outcome, IsStruct
<1> QED
  BY <1>1, <1>2, <1>3, <1>4, <1>5

LEMMA ConvertVectorInv == Inv /\ ConvertVector => Inv'
<1> SUFFICES ASSUME Inv, ConvertVector PROVE Inv'
  OBVIOUS
<1> DEFINE outcome == Outcome(Vec, TypeOf(query.signal))
           freed == IF Deletes(outcome) THEN {Vec} ELSE {}
<1>1. pc = "convert" /\ Converted(outcome, freed) /\ views' = views /\ Result = Vec
  BY DEF ConvertVector
<1>2. FileInv /\ HeapInv /\ ConvertInv
  BY DEF Inv
<1>3. Sv \notin Allocated /\ Vec \in Allocated /\ calls \in Nat
  BY <1>1, <1>2, CallsAssumed DEF ConvertInv, FileInv
<1>4. Vec = <<calls, 1>> /\ Vec[1] = calls /\ Vec[2] = 1 /\ Len(Vec) = 2 /\ Sv = <<calls>>
  BY DEF Vec, Sv
<1>5. ~Dangles(heap, Vec)
  <2>1. ~Loose(Vec) /\ Len(Vec) >= 2 /\ Vec \in DOMAIN heap
    BY <1>3, <1>4 DEF Loose, Allocated
  <2> QED
    BY <1>2, <2>1, Lives DEF HeapInv
<1>6. outcome # "undefined"
  <2>1. query.signal # Param
    <3>1. ParVec # Vec /\ Scalar # Vec
      BY <1>4 DEF ParVec, Scalar
    <3> QED
      BY <1>1, <3>1 DEF Result, Inverts
  <2>2. query.signal \in DOMAIN file.signals /\ file \in Files
    BY <1>2, <2>1 DEF FileInv
  <2> QED
    BY <1>5, <2>2, FileFacts, OutcomeFacts
<1>7. \A x : Vec \notin KidsOf(heap, x)
  BY <1>2, <1>3, <1>4, NoOwner DEF HeapInv, Allocated
<1>8. freed \subseteq {Vec}
  OBVIOUS
<1> HIDE DEF outcome, freed
<1> QED
  BY <1>1, <1>4, <1>6, <1>7, <1>8, ConvertedInv

LEMMA MinFacts ==
  ASSUME NEW S, S \subseteq Nat, S # {}
  PROVE  Min(S) \in S /\ \A y \in S : Min(S) <= y
<1> DEFINE None == Nat \ S
<1>1. PICK x \in S : \A y \in S : x <= y
  <2>1. SUFFICES ASSUME ~\E x \in S : \A y \in S : x <= y PROVE FALSE
    OBVIOUS
  <2>2. ASSUME NEW n \in Nat, \A m \in Nat : m < n => m \in None PROVE n \in None
    <3>1. \A y \in S : n <= y
      BY <2>2
    <3> QED
      BY <2>1, <3>1
  <2>3. Nat \subseteq None
    <3> HIDE DEF None
    <3> QED
      BY <2>2, StrongSetInduction
  <2> QED
    BY <2>3
<1> QED
  BY <1>1 DEF Min

(* The vector of a member whose values lead to nothing lives.              *)
LEMMA FlatLives ==
  ASSUME FileInv, HeapInv, ConvertInv, pc = "convert", Result = Vs,
         NEW m \in Members(TypeOf(query.signal)), TypeOf(query.signal) \in TypeIds,
         ~IsStruct(Types[TypeOf(query.signal)].members[m])
  PROVE  ~Dangles(heap, Append(Vs, m))
<1>1. calls \in Nat /\ m \in Nat /\ Vs \in Paths
  <2>1. calls \in Nat
    BY CallsAssumed DEF FileInv
  <2>2. m \in Nat
    BY TypeFacts
  <2> QED
    BY <2>1, <2>2, CallNames
<1>2. NPoints \in Nat
  BY WindowFacts DEF FileInv
<1> DEFINE x == Append(Vs, m)
           copies == {Vs \o <<m, k>> : k \in 1 .. NPoints}
           C == {x} \cup copies
<1>3. /\ x \in Allocated /\ heap[x].kids = [k \in 1 .. NPoints |-> Append(x, k)]
      /\ \A y \in copies : y \in Allocated /\ heap[y].kids = << >>
  BY DEF ConvertInv
<1>4. ASSUME NEW k \in Nat PROVE Vs \o <<m, k>> = Append(x, k)
  BY <1>1, PairJoins DEF TwoBelow
<1>5. KidsOf(heap, x) \subseteq copies
  <2>1. ASSUME NEW y \in KidsOf(heap, x) PROVE y \in copies
    <3>1. PICK k \in DOMAIN heap[x].kids : y = heap[x].kids[k]
      BY KidsAre
    <3>2. k \in 1 .. NPoints /\ y = Append(x, k) /\ k \in Nat
      BY <1>2, <1>3, <3>1
    <3> QED
      BY <1>4, <3>2
  <2> QED
    BY <2>1
<1>6. \A y \in copies : KidsOf(heap, y) = {}
  <2>1. ASSUME NEW y \in copies, NEW z \in KidsOf(heap, y) PROVE FALSE
    <3>1. PICK k \in DOMAIN heap[y].kids : z = heap[y].kids[k]
      BY KidsAre
    <3>2. heap[y].kids = << >>
      BY <1>3
    <3> QED
      BY <3>1, <3>2
  <2> QED
    BY <2>1
<1> HIDE DEF copies, x
<1>7. Reach(heap, {x}) \subseteq C
  <2>1. {x} \subseteq C /\ \A y \in C : KidsOf(heap, y) \subseteq C
    BY <1>5, <1>6
  <2> HIDE DEF C
  <2> QED
    BY <2>1, ReachWithin
<1>8. ~Dangles(heap, x)
  BY <1>3, <1>7 DEF Dangles, Allocated
<1> QED
  BY <1>8 DEF x

LEMMA ConvertVectorStructInv == Inv /\ ConvertVectorStruct => Inv'
<1> SUFFICES ASSUME Inv, ConvertVectorStruct PROVE Inv'
  OBVIOUS
<1> DEFINE t == TypeOf(query.signal)
           types == Types[t].members
           outcome == [m \in DOMAIN types |-> Outcome(Append(Vs, m), types[m])]
           bad == {m \in DOMAIN types : outcome[m] # "array"}
           done == {m \in DOMAIN types : \A b \in bad : m < b}
           end == IF bad = {} THEN "array" ELSE outcome[Min(bad)]
           ended == IF end = "no result" THEN "undefined" ELSE end
           freed == {Append(Vs, m) : m \in done}
<1>1. pc = "convert" /\ Result = Vs /\ Converted(ended, freed) /\ views' = views
  BY DEF ConvertVectorStruct
<1>2. FileInv /\ HeapInv /\ ConvertInv
  BY DEF Inv
<1>3. calls \in Nat /\ calls >= 1
  <2>1. calls >= 1
    BY <1>1, <1>2, Zenon DEF ConvertInv
  <2> QED
    BY <1>2, <2>1, CallsAssumed DEF FileInv
<1>4. Vs \in Paths /\ Len(Vs) = 2 /\ Vs[1] = calls /\ Vs[2] = 3
  BY <1>3, CallNames
<1>5. file.swept /\ query.signal # Param /\ Inverts
  <2>1. ParVec # Vs /\ Scalar # Vs /\ Vec # Vs
    <3>1. ParVec[2] = 2 /\ Scalar[2] = 4 /\ Vec[2] = 1
      BY <1>3, CallNames
    <3> QED
      BY <1>4, <3>1
  <2>2. file.swept \in BOOLEAN
    BY <1>2, FileFacts DEF FileInv
  <2> QED
    BY <1>1, <2>1, <2>2 DEF Result
<1>6. t \in TypeIds /\ IsStruct(t)
  <2>1. query.signal \in DOMAIN file.signals /\ file \in Files
    BY <1>2, <1>5 DEF FileInv
  <2> QED
    BY <1>5, <2>1, FileFacts DEF Inverts
<1>7. \A m \in DOMAIN types : m \in Nat /\ types[m] \in TypeIds /\ m \in Members(t)
  BY <1>6, TypeFacts DEF Members
<1>8. ASSUME ended = "undefined"
      PROVE  \E m \in Members(t) : Types[Types[t].members[m]].kind \in {"int8", "int32", "struct"}
  <2>1. bad # {} /\ outcome[Min(bad)] \in {"no result", "undefined"}
    BY <1>8
  <2>2. Min(bad) \in bad
    <3>1. bad \subseteq Nat
      BY <1>7
    <3> HIDE DEF bad
    <3> QED
      BY <2>1, <3>1, MinFacts
  <2>3. PICK m \in DOMAIN types : outcome[m] \in {"no result", "undefined"}
    BY <2>1, <2>2
  <2>4. Outcome(Append(Vs, m), types[m]) \in {"no result", "undefined"} /\ types[m] \in TypeIds /\ m \in Members(t)
    BY <1>7, <2>3
  <2> HIDE DEF outcome, bad, ended, end
  <2>5. CASE Outcome(Append(Vs, m), types[m]) = "no result"
    <3>1. Types[types[m]].kind \in {"int8", "int32"}
      BY <2>4, <2>5, OutcomeFacts
    <3> QED
      BY <2>4, <3>1
  <2>6. CASE Outcome(Append(Vs, m), types[m]) = "undefined"
    <3>1. Dangles(heap, Append(Vs, m))
      BY <2>4, <2>6, OutcomeFacts
    <3>2. IsStruct(Types[t].members[m])
      BY <1>1, <1>2, <1>6, <2>4, <3>1, FlatLives
    <3> QED
      BY <2>4, <3>2 DEF IsStruct
  <2> QED
    BY <2>4, <2>5, <2>6
<1>9. ASSUME NEW o \in freed
      PROVE  o \in Paths /\ Len(o) = 3 /\ o[1] = calls /\ o[2] = 3
  <2>1. PICK m \in done : o = Append(Vs, m)
    OBVIOUS
  <2>2. m \in Nat
    BY <1>7, <2>1
  <2>3. << >> \in Paths
    BY DEF Paths
  <2> HIDE DEF done
  <2>4. Append(Vs, m) \in Paths /\ Len(Append(Vs, m)) = 2 + 1 /\ \A i \in 1 .. 2 : Append(Vs, m)[i] = Vs[i]
    <3>1. Append(Vs, m) \in Paths /\ Len(Append(Vs, m)) = Len(Vs) + 1 /\ \A i \in 1 .. Len(Vs) : Append(Vs, m)[i] = Vs[i]
      BY <1>4, <2>2, <2>3, AppendNames
    <3> QED
      BY <1>4, <3>1
  <2>5. o[1] = Vs[1] /\ o[2] = Vs[2]
    BY <2>1, <2>4
  <2> QED
    BY <1>4, <2>1, <2>4, <2>5
<1> HIDE DEF freed, ended
<1>10. ASSUME NEW x, ~Loose(x), NEW o \in KidsOf(heap, x), o \in freed PROVE FALSE
  <2>1. /\ Len(x) \in Nat /\ Len(o) = Len(x) + 1 /\ o[1] = x[1]
        /\ ~Copied(x) => \A i \in 1 .. Len(x) : o[i] = x[i]
    BY <1>2, KidFacts DEF HeapInv
  <2>2. Len(o) = 3 /\ o[1] = calls /\ o[2] = 3
    BY <1>9, <1>10
  <2>3. Len(x) = 2 /\ ~Copied(x)
    <3>1. PICK n \in Nat : n = Len(x)
      BY <2>1
    <3>2. n + 1 = 3
      BY <2>1, <2>2, <3>1
    <3> QED
      BY <3>1, <3>2 DEF Copied
  <2>4. x[1] = calls /\ x[2] = 3
    BY <2>1, <2>2, <2>3
  <2> QED
    BY <1>3, <1>10, <2>3, <2>4 DEF Loose
<1>11. \A o \in freed : o[1] = calls /\ o[2] # 2
  BY <1>9
<1>12. \A x : ~Loose(x) => KidsOf(heap, x) \cap freed = {}
  BY <1>10
<1> QED
  BY <1>1, <1>5, <1>8, <1>11, <1>12, ConvertedInv

LEMMA DeleteSetInv == Inv /\ DeleteSet => Inv'
<1> SUFFICES ASSUME Inv, DeleteSet PROVE Inv'
  OBVIOUS
<1> DEFINE objects == SectionValues
           R == Reach(heap, objects)
<1>1. FileInv /\ HeapInv /\ HandleInv /\ LastInv
  BY DEF Inv
<1>2. /\ pc = "idle" /\ pc' = "deleted" /\ last' = "deleted" /\ heap' = Without(heap, R)
      /\ file' = file /\ client' = client /\ buf' = buf /\ m_invertstruct' = m_invertstruct /\ calls' = calls
      /\ query' = query /\ w' = w /\ held' = held /\ views' = views
  BY DEF DeleteSet
<1>3. \A o \in objects : \E v \in Nat : o = <<0, v>>
  BY <1>1, FileFacts DEF SectionValues, FileInv
<1>4. ASSUME NEW o \in objects PROVE o[1] = 0 /\ \A x : o \notin KidsOf(heap, x)
  <2>1. PICK v \in Nat : o = <<0, v>>
    BY <1>3
  <2>2. \A x : <<0, v>> \notin KidsOf(heap, x)
    BY <1>1, NoOwner DEF HeapInv, Allocated
  <2> QED
    BY <2>1, <2>2
<1> HIDE DEF objects
<1>5. Frees(heap, objects, R) /\ \A y \in R : y[1] = 0
  <2>1. \A y \in R : y[1] = 0
    BY <1>1, <1>4, SameCall DEF HeapInv
  <2> QED
    BY <2>1, ReachFrees
<1> HIDE DEF R
<1>6. \A x : ~Loose(x) => KidsOf(heap, x) \cap objects = {}
  BY <1>4
<1>7. HeapInv' /\ Allocated' = Allocated \ R /\ \A o \in held \cup views : o \notin objects => o \in Allocated'
  BY <1>1, <1>2, <1>5, <1>6, FreeKeeps
<1>8. ASSUME NEW o \in held \cup views PROVE o \notin objects
  <2>1. Handle(o)
    BY <1>1 DEF HandleInv
  <2>2. PICK c \in 1 .. calls : \E j \in Nat : o = <<c, j>>
    BY <2>1 DEF Handle
  <2>3. o[1] = c /\ c # 0
    BY <2>2
  <2> QED
    BY <1>4, <2>3
<1>9. HandleInv'
  <2>1. held' \subseteq Allocated' /\ views' \subseteq Allocated'
    BY <1>2, <1>7, <1>8
  <2> QED
    BY <1>1, <1>2, <1>7, <2>1, HandlesKept
<1>10. FileInv' /\ ParseInv' /\ ReadingInv' /\ ConvertInv'
  BY <1>1, <1>2 DEF FileInv, ParseInv, ReadingInv, ConvertInv
<1>11. LastInv'
  BY <1>1, <1>2, LastKept
<1> QED
  BY <1>7, <1>9, <1>10, <1>11 DEF Inv

(* What the client deletes lives, so that no destructor meets a dead object. *)
LEMMA HandleLives ==
  ASSUME FileInv, HeapInv, NEW o, Handle(o)
  PROVE  /\ o \in Allocated /\ Len(o) = 2 /\ o[1] \in 1 .. calls
         /\ \A x : o \notin KidsOf(heap, x)
         /\ ~IsVectorStruct(o) => ~Dangles(heap, o)
<1>1. PICK c \in 1 .. calls : \E j \in Nat : o = <<c, j>> /\ <<c>> \notin Allocated
  BY DEF Handle
<1>2. PICK j \in Nat : o = <<c, j>>
  BY <1>1
<1>3. c \in Nat /\ calls \in Nat
  BY CallsAssumed DEF FileInv
<1>4. Len(o) = 2 /\ o[1] = c /\ o[2] = j
  BY <1>2, <1>3, Pair
<1>5. \A x : o \notin KidsOf(heap, x)
  BY <1>1, <1>2, <1>3, NoOwner DEF HeapInv, Allocated
<1>6. ASSUME ~IsVectorStruct(o) PROVE ~Dangles(heap, o)
  <2>1. ~Loose(o) /\ Len(o) >= 2 /\ o \in DOMAIN heap
    BY <1>4, <1>6 DEF Loose, IsVectorStruct, Handle, Allocated
  <2> QED
    BY <2>1, Lives DEF HeapInv
<1> QED
  BY <1>4, <1>5, <1>6 DEF Handle

LEMMA DeleteInv ==
  ASSUME Inv, NEW o \in held, Delete(o)
  PROVE  Inv'
<1> DEFINE freed == IF IsVectorStruct(o) THEN {o} ELSE Reach(heap, {o})
<1>1. FileInv /\ HeapInv /\ HandleInv /\ ParseInv /\ LastInv
  BY DEF Inv
<1>2. Handle(o)
  BY <1>1 DEF HandleInv
<1>3. /\ o \in Allocated /\ Len(o) = 2 /\ o[1] \in 1 .. calls
      /\ \A x : o \notin KidsOf(heap, x)
      /\ ~IsVectorStruct(o) => ~Dangles(heap, o)
  BY <1>1, <1>2, HandleLives
<1>4. freed \subseteq Allocated
  BY <1>3 DEF Dangles, Allocated
<1>5. Frees(heap, {o}, freed)
  <2>1. CASE IsVectorStruct(o)
    BY <2>1 DEF Frees
  <2>2. CASE ~IsVectorStruct(o)
    BY <2>2, ReachFrees
  <2> QED
    BY <2>1, <2>2
<1>6. \A y \in freed : y[1] = o[1]
  <2>1. \A y \in Reach(heap, {o}) : y[1] = o[1]
    BY <1>1, SameCall DEF HeapInv
  <2> QED
    BY <2>1
<1>7. /\ pc \in {"idle", "deleted"} /\ pc' = pc /\ last' = "deleted" /\ heap' = Without(heap, freed)
      /\ file' = file /\ client' = client /\ buf' = buf /\ m_invertstruct' = m_invertstruct /\ calls' = calls
      /\ query' = query /\ w' = w /\ held' = held \ {o} /\ views' = views
  BY <1>4 DEF Delete
<1> HIDE DEF freed
<1>8. o[1] \in Nat /\ o[1] # 0 /\ \A x : ~Loose(x) => KidsOf(heap, x) \cap {o} = {}
  BY <1>1, <1>3, CallsAssumed DEF FileInv
<1>9. /\ HeapInv' /\ Allocated' = Allocated \ freed /\ KeepsValues
      /\ \A x \in held \cup views : x \notin {o} => x \in Allocated'
  BY <1>1, <1>5, <1>6, <1>7, <1>8, FreeKeeps
<1>10. HandleInv'
  <2>1. views = {}
    <3>1. client \in {"cpp", "python"}
      BY <1>1, CallsAssumed DEF FileInv
    <3> QED
      BY <1>1, <3>1 DEF HandleInv
  <2>2. held' \subseteq Allocated' /\ views' \subseteq Allocated'
    BY <1>7, <1>9, <2>1
  <2> QED
    BY <1>1, <1>7, <1>9, <2>2, HandlesKept
<1>11. FileInv' /\ ReadingInv' /\ ConvertInv'
  BY <1>1, <1>7 DEF FileInv, ReadingInv, ConvertInv
<1>12. ParseInv'
  BY <1>1, <1>7, <1>9, ParseKept
<1>13. LastInv'
  BY <1>1, <1>7, LastKept
<1> QED
  BY <1>9, <1>10, <1>11, <1>12, <1>13 DEF Inv

LEMMA CallInv == Inv /\ Call => Inv'
<1> SUFFICES ASSUME Inv, Call PROVE Inv'
  OBVIOUS
<1>1. CASE GetSweepValues
  <2>1. CASE NewSweepValue(Param, FALSE)
    BY <2>1, NewSweepValueInv DEF Param
  <2>2. CASE NoValues(Param)
    BY <2>2, NoValuesInv
  <2> QED
    BY <1>1, <2>1, <2>2 DEF GetSweepValues
<1>2. ASSUME NEW s \in DOMAIN file.signals, GetSignal(s) \/ GetSignalVector(s) PROVE Inv'
  <2>1. s # Param /\ m_invertstruct \in BOOLEAN
    BY FileFacts DEF Inv, FileInv, Param
  <2>2. CASE GetSignalScalar(s)
    BY <2>2, GetSignalScalarInv
  <2>3. ASSUME NEW invert \in BOOLEAN, NewSweepValue(s, invert) PROVE Inv'
    BY <2>1, <2>3, NewSweepValueInv
  <2>4. CASE NoValues(s)
    BY <2>4, NoValuesInv
  <2> QED
    BY <1>2, <2>1, <2>2, <2>3, <2>4 DEF GetSignal, GetSignalSwept, GetSignalVector
<1> QED
  BY <1>1, <1>2 DEF Call

LEMMA StutterInv == Inv /\ UNCHANGED vars => Inv'
<1> SUFFICES ASSUME Inv, UNCHANGED vars PROVE Inv'
  OBVIOUS
<1>1. FileInv /\ HeapInv /\ HandleInv /\ ParseInv /\ ReadingInv /\ ConvertInv /\ LastInv
  BY DEF Inv
<1>2. FileInv'
  BY <1>1 DEF vars, FileInv
<1>3. HeapInv'
  BY <1>1 DEF vars, HeapInv, Allocated
<1>4. HandleInv'
  BY <1>1 DEF vars, HandleInv, Handle, Allocated
<1>5. ParseInv'
  BY <1>1 DEF vars, ParseInv, IsValue, TypeOf, ChunkAt, ValueBytes, Allocated
<1>6. ReadingInv'
  BY <1>1 DEF vars, ReadingInv, IsElement, Sv, Vec, ParVec, TypeOf, NPoints, First, Allocated
<1>7. ConvertInv'
  <2>1. /\ Allocated' = Allocated /\ NPoints' = NPoints /\ TypeOf(query.signal)' = TypeOf(query.signal)
        /\ Sv' = Sv /\ Vs' = Vs
    BY DEF vars, Sv, Vs, TypeOf, NPoints, Allocated
  <2>2. Result' = Result
    BY DEF vars, Result, Inverts, Vec, Vs, ParVec, Scalar, TypeOf
  <2>3. pc' = pc /\ client' = client /\ calls' = calls /\ heap' = heap
    BY DEF vars
  <2> QED
    BY <1>1, <2>1, <2>2, <2>3, ZenonT(30) DEF ConvertInv
<1>8. LastInv'
  BY <1>1 DEF vars, LastInv, UndefinedOnlyInverted, Inverts, TypeOf
<1> QED
  BY <1>2, <1>3, <1>4, <1>5, <1>6, <1>7, <1>8 DEF Inv

LEMMA NextInv == Inv /\ [Next]_vars => Inv'
<1> SUFFICES ASSUME Inv, [Next]_vars PROVE Inv'
  OBVIOUS
<1>1. CASE Parse
  BY <1>1, ParseValueInv, QuietInv DEF Parse
<1>2. CASE Call
  BY <1>2, CallInv
<1>3. CASE Read
  <2>1. CASE Return
    BY <2>1, ReturnKeptInv, ReturnInvertedInv
  <2> QED
    BY <1>3, <2>1, ReadWindowInv, QuietInv DEF Read
<1>4. CASE Convert
  BY <1>4, ConvertScalarInv, ConvertSweepInv, ConvertVectorInv, ConvertVectorStructInv DEF Convert
<1>5. CASE SetInvertStruct \/ DeleteSet
  BY <1>5, QuietInv, DeleteSetInv
<1>6. CASE \E o \in held : Delete(o)
  BY <1>6, DeleteInv
<1>7. CASE \E v \in views : DropArray(v)
  BY <1>7, QuietInv
<1>8. CASE UNCHANGED vars
  BY <1>8, StutterInv
<1> QED
  BY <1>1, <1>2, <1>3, <1>4, <1>5, <1>6, <1>7, <1>8 DEF Next

LEMMA Invariance == Spec => []Inv
<1>1. Init => Inv
  BY InitInv
<1>2. Inv /\ [Next]_vars => Inv'
  BY NextInv
<1> QED
  BY <1>1, <1>2, PTL DEF Spec

-----------------------------------------------------------------------------
(* The theorems.                                                           *)

(* No object belongs to two others: what one destructor deletes, no other  *)
(* meets, whichever signals were read, cloned, inverted and deleted.       *)
THEOREM NothingTwice == Spec => []OwnedOnce
<1>1. Inv => OwnedOnce
  <2> SUFFICES ASSUME Inv, NEW a \in Allocated, NEW b \in Allocated, a # b,
                      NEW y \in ToSet(heap[a].kids), y \in ToSet(heap[b].kids)
               PROVE  FALSE
    BY DEF OwnedOnce
  <2>1. y \in KidsOf(heap, a) /\ y \in KidsOf(heap, b)
    BY DEF KidsOf, Allocated
  <2> QED
    BY <2>1, OneOwner DEF Inv, HeapInv
<1> QED
  BY <1>1, Invariance, PTL

(* What the client holds lives until the client deletes it, down to its    *)
(* last member, whatever else was deleted; but for a VectorStruct, whose   *)
(* copies may share members that were deleted with the vector.             *)
THEOREM HeldLives == Spec => []HeldIsLive
<1>1. Inv => HeldIsLive
  <2> SUFFICES ASSUME Inv, NEW o \in held PROVE o \in Allocated /\ (Dangles(heap, o) => IsVectorStruct(o))
    BY DEF HeldIsLive
  <2>1. Handle(o) /\ FileInv /\ HeapInv
    BY DEF Inv, HandleInv
  <2> QED
    BY <2>1, HandleLives
<1> QED
  BY <1>1, Invariance, PTL

(* An array of Python never shows memory that was freed: the vector of the *)
(* sweep parameter outlives the SweepValue it was read with.               *)
THEOREM ArraysLive == Spec => []ViewsLive
<1>1. Inv => ViewsLive
  <2> SUFFICES ASSUME Inv, NEW v \in views PROVE v \in Allocated /\ ~Dangles(heap, v)
    BY DEF ViewsLive
  <2>1. Handle(v) /\ v[2] = 2 /\ FileInv /\ HeapInv
    BY DEF Inv, HandleInv
  <2>2. ~IsVectorStruct(v)
    BY <2>1 DEF IsVectorStruct
  <2> QED
    BY <2>1, <2>2, HandleLives
<1> QED
  BY <1>1, Invariance, PTL

(* Python meets undefined behaviour nowhere but in converting an inverted  *)
(* structure that has an integer or a structure for a member.              *)
THEOREM UndefinedNamed == Spec => []UndefinedOnlyInverted
<1>1. Inv => UndefinedOnlyInverted
  BY DEF Inv, LastInv
<1> QED
  BY <1>1, Invariance, PTL

(* The state of the objects and of the call has its type.                  *)
THEOREM TypeCorrect == Spec => []TypeOK
<1>1. Inv => TypeOK
  <2> SUFFICES ASSUME Inv PROVE TypeOK
    OBVIOUS
  <2>1. FileInv /\ HeapInv /\ HandleInv
    BY DEF Inv
  <2>2. heap \in [Allocated -> [kids : Seq(Seq(Nat)), from : [at : Nat, bytes : Nat]]]
    BY <2>1 DEF HeapInv, Sound, IsTree, Cells, Paths, Sources, Allocated
  <2>3. held \subseteq Allocated /\ (client = "python" => held = {})
    BY <2>1 DEF HandleInv, Handle
  <2> QED
    BY <2>1, <2>2, <2>3 DEF TypeOK, FileInv
<1> QED
  BY <1>1, Invariance, PTL

-----------------------------------------------------------------------------
(* Opening a file that is not swept: if no structure has a complex member, *)
(* the reader stands at a value's chunk or at the end.                     *)

Plain == \A s \in DOMAIN file.signals : ~ComplexMember(TypeOf(s))

AtChunk == pc = "parse" /\ Plain => \E v \in 1 .. Len(file.signals) + 1 : buf = ChunkAt(v)

LEMMA AtChunkInit == Init => AtChunk
<1> SUFFICES ASSUME Init PROVE AtChunk
  OBVIOUS
<1>1. file \in Files /\ buf = 0
  BY DEF Init
<1>2. 1 \in 1 .. Len(file.signals) + 1 /\ ChunkAt(1) = 0
  BY <1>1, FileFacts, ChunkFacts
<1> QED
  BY <1>1, <1>2 DEF AtChunk

LEMMA AtChunkParse == Inv /\ AtChunk /\ ParseValue => AtChunk'
<1> SUFFICES ASSUME Inv, AtChunk, ParseValue, Plain' PROVE \E v \in 1 .. Len(file.signals) + 1 : buf' = ChunkAt(v)'
  BY DEF AtChunk, ParseValue
<1>1. file \in Files /\ file' = file
  BY DEF Inv, FileInv, ParseValue
<1>2. Plain
  BY <1>1 DEF Plain, TypeOf
<1>3. PICK v \in DOMAIN file.signals :
        /\ buf = ChunkAt(v)
        /\ buf' = buf + HEADER + Taken[TypeOf(v)] + BlockBytes(v, buf + HEADER + Taken[TypeOf(v)])
  BY DEF ParseValue
<1>4. TypeOf(v) \in TypeIds /\ v \in 1 .. Len(file.signals) /\ file.props[v] \in Nat
  BY <1>1, FileFacts
<1>5. Taken[TypeOf(v)] = DataSize[TypeOf(v)]
  BY <1>2, <1>4, ReadFacts DEF Plain
<1>6. buf + HEADER + Taken[TypeOf(v)] = PropsAt(v)
  BY <1>3, <1>5 DEF PropsAt
<1>7. buf' = ChunkAt(v) + HEADER + DataSize[TypeOf(v)] + file.props[v]
  BY <1>3, <1>5, <1>6 DEF BlockBytes
<1>8. ChunkAt(v + 1) = ChunkAt(v) + ValueBytes(v) /\ ChunkAt(v) \in Nat
  <2>1. v \in 1 .. Len(file.signals) + 1
    BY <1>4
  <2> QED
    BY <1>1, <1>4, <2>1, ChunkFacts
<1>9. buf' = ChunkAt(v + 1)
  <2>1. DataSize[TypeOf(v)] \in Nat /\ HEADER \in Nat
    BY <1>4, ReadFacts DEF HEADER
  <2> QED
    BY <1>4, <1>7, <1>8, <2>1 DEF ValueBytes
<1>10. v + 1 \in 1 .. Len(file.signals) + 1
  BY <1>1, <1>4, FileFacts
<1>11. ChunkAt(v + 1)' = ChunkAt(v + 1)
  BY <1>1 DEF ChunkAt, ValueBytes, TypeOf
<1> QED
  BY <1>1, <1>9, <1>10, <1>11

LEMMA PlainOpens == Inv /\ AtChunk /\ Plain => ~ParseThrows
<1> SUFFICES ASSUME Inv, AtChunk, Plain, ParseThrows PROVE FALSE
  OBVIOUS
<1>1. file \in Files
  BY DEF Inv, FileInv
<1>2. pc = "parse" /\ buf < SubEnd /\ \A v \in DOMAIN file.signals : buf # ChunkAt(v)
  BY DEF ParseThrows
<1>3. PICK v \in 1 .. Len(file.signals) + 1 : buf = ChunkAt(v)
  BY <1>2 DEF AtChunk
<1>4. v # Len(file.signals) + 1
  <2>1. ChunkAt(v) \in Nat
    BY <1>1, ChunkFacts
  <2> QED
    BY <1>2, <1>3, <2>1 DEF SubEnd
<1>5. v \in DOMAIN file.signals
  BY <1>1, <1>4, FileFacts
<1> QED
  BY <1>2, <1>3, <1>5

OpenInv == AtChunk /\ OpensUnlessComplex

LEMMA OpenStep == Inv /\ OpenInv /\ [Next]_vars => OpenInv'
<1> SUFFICES ASSUME Inv, OpenInv, [Next]_vars PROVE OpenInv'
  OBVIOUS
<1>1. AtChunk /\ OpensUnlessComplex
  BY DEF OpenInv
<1>2. CASE ParseValue
  <2>1. AtChunk'
    BY <1>1, <1>2, AtChunkParse
  <2>2. OpensUnlessComplex'
    BY <1>1, <1>2 DEF ParseValue, OpensUnlessComplex, TypeOf
  <2> QED
    BY <2>1, <2>2 DEF OpenInv
<1>3. CASE ParseThrows
  <2>1. ~Plain /\ file' = file /\ pc' # "parse"
    BY <1>1, <1>3, PlainOpens DEF ParseThrows
  <2>2. \E s \in DOMAIN file.signals : ComplexMember(TypeOf(s))
    BY <2>1 DEF Plain
  <2> QED
    BY <2>1, <2>2 DEF OpenInv, AtChunk, OpensUnlessComplex, TypeOf
<1>4. CASE file' = file /\ pc' # "parse" /\ (pc' = "failed" => last' = "undefined")
  BY <1>4 DEF OpenInv, AtChunk, OpensUnlessComplex
<1>5. CASE Parsed \/ SetInvertStruct \/ Call \/ Read \/ DeleteSet
  <2>1. CASE Parsed \/ SetInvertStruct \/ DeleteSet
    BY <1>4, <2>1 DEF Parsed, SetInvertStruct, DeleteSet
  <2>2. CASE Read
    BY <1>4, <2>2 DEF Read, ReadWindow, ReadThrows, Return
  <2>3. CASE Call
    BY <1>4, <2>3 DEF Call, GetSweepValues, GetSignal, GetSignalVector, GetSignalSwept, GetSignalScalar,
                      NewSweepValue, NoValues, Begin
  <2> QED
    BY <1>5, <2>1, <2>2, <2>3
<1>6. CASE Convert
  <2>1. ASSUME NEW outcome, NEW freed, Converted(outcome, freed)
        PROVE  file' = file /\ pc' # "parse" /\ (pc' = "failed" => last' = "undefined")
    BY <2>1 DEF Converted
  <2> QED
    BY <1>4, <1>6, <2>1 DEF Convert, ConvertScalar, ConvertSweep, ConvertVector, ConvertVectorStruct
<1>7. ASSUME NEW o \in held, Delete(o) PROVE OpenInv'
  BY <1>4, <1>7 DEF Delete
<1>8. ASSUME NEW v \in views, DropArray(v) PROVE OpenInv'
  BY <1>4, <1>8 DEF DropArray
<1>9. CASE UNCHANGED vars
  BY <1>1, <1>9 DEF vars, OpenInv, AtChunk, OpensUnlessComplex, Plain, TypeOf, ChunkAt, ValueBytes
<1> QED
  BY <1>2, <1>3, <1>5, <1>6, <1>7, <1>8, <1>9 DEF Next, Parse

(* A file that is not swept opens, unless one of its structures has a      *)
(* complex member: the bytes that NonSweepValue::deserialize takes of any  *)
(* other value end where its properties begin.                             *)
THEOREM PlainFilesOpen == Spec => []OpensUnlessComplex
<1>1. Init => OpenInv
  BY AtChunkInit DEF Init, OpenInv, OpensUnlessComplex
<1>2. Inv /\ OpenInv /\ [Next]_vars => OpenInv'
  BY OpenStep
<1>3. OpenInv => OpensUnlessComplex
  BY DEF OpenInv
<1> QED
  BY <1>1, <1>2, <1>3, Invariance, PTL DEF Spec

-----------------------------------------------------------------------------
(* Where values are read from.  It is enough to know of each object that   *)
(* lives that, if it is a leaf of a value of the running call, it has the  *)
(* bytes that leaf was stored in.                                          *)

Leaf(t, q) == q \in DOMAIN StoredTree[t] /\ StoredTree[t][q].from # Nowhere

OfElement(o) ==
  LET t == TypeOf(query.signal)
  IN \A k \in Nat : \A q :
       k \in 1 .. NPoints /\ Leaf(t, q) /\ o = Below(Vec, k, q) /\ heap[o].from # Nowhere =>
         heap[o].from = Stored(t, q, k)

OfCopy(o) ==
  LET t == TypeOf(query.signal)
  IN \A m, k \in Nat :
       m \in Members(t) /\ k \in 1 .. NPoints /\ Leaf(t, <<m>>) /\ o = TwoBelow(Vs, m, k) =>
         heap[o].from = Stored(t, <<m>>, k)

OfClone(o) ==
  LET t == TypeOf(query.signal)
  IN \A q :
       Leaf(t, q) /\ o = Scalar \o q =>
         heap[o].from = [Stored(t, q, 1) EXCEPT !.at = @ + (ChunkAt(query.signal) + HEADER)]

RightSource(o) == OfElement(o) /\ OfCopy(o) /\ OfClone(o)

StoredInv ==
  /\ pc = "parse" => query.signal = Param
  /\ query.signal # Param /\ ~ComplexMember(TypeOf(query.signal)) => \A o \in Allocated : RightSource(o)

LEMMA LeafPaths == \A t \in TypeIds : \A q : Leaf(t, q) => q \in Paths /\ StoredTree[t][q] \in Cells
  BY ReadFacts DEF Leaf, Shape, IsTree

LEMMA StoredGives == Inv /\ StoredInv => ReadAsStored
<1> SUFFICES ASSUME Inv, StoredInv, query.signal # Param, ~ComplexMember(TypeOf(query.signal)) PROVE ReadAsStored
  BY DEF ReadAsStored
<1> DEFINE t == TypeOf(query.signal)
           leaves == {q \in DOMAIN StoredTree[t] : StoredTree[t][q].from # Nowhere}
<1>1. \A o \in Allocated : RightSource(o)
  BY DEF StoredInv
<1>2. FileInv /\ calls \in Nat /\ file \in Files
  BY CallsAssumed DEF Inv, FileInv
<1>3. t \in TypeIds /\ NPoints \in Nat
  <2>1. query.signal \in DOMAIN file.signals
    BY <1>2 DEF FileInv
  <2> QED
    BY <1>2, <2>1, FileFacts, WindowFacts
<1>4. Vec \in Paths /\ Vs \in Paths
  BY <1>2, CallNames
<1> HIDE DEF t
<1>10. ASSUME NEW i \in Nat, NEW j \in Nat PROVE Vs \o <<i, j>> = TwoBelow(Vs, i, j)
  BY <1>4, PairJoins, Zenon
<1>5. ASSUME NEW q \in leaves, NEW k \in 1 .. NPoints, NEW o, o = Vec \o <<k>> \o q,
             o \in Allocated, heap[o].from # Nowhere
      PROVE  heap[o].from = Stored(t, q, k)
  <2>1. Leaf(t, q) /\ k \in Nat
    BY <1>3 DEF Leaf
  <2>2. q \in Paths
    BY <1>3, <2>1, LeafPaths
  <2>3. Vec \o <<k>> = Append(Vec, k)
    BY <1>4, <2>1, <2>2, AppendJoin
  <2>4. o = Below(Vec, k, q)
    BY <1>5, <2>3 DEF Below
  <2>5. RightSource(o)
    BY <1>1, <1>5
  <2> QED
    BY <1>5, <2>1, <2>4, <2>5 DEF RightSource, OfElement, t
<1>6. ASSUME NEW m \in Members(t), NEW k \in 1 .. NPoints, NEW o, o = Vs \o <<m, k>>,
             o \in Allocated, <<m>> \in leaves
      PROVE  heap[o].from = Stored(t, <<m>>, k)
  <2>0. m \in Nat
    BY <1>3, TypeFacts
  <2>1. Leaf(t, <<m>>) /\ k \in Nat /\ m \in Nat
    BY <1>3, <1>6, <2>0 DEF Leaf
  <2>3. o = TwoBelow(Vs, m, k)
    BY <1>6, <1>10, <2>1
  <2>4. RightSource(o)
    BY <1>1, <1>6
  <2> QED
    BY <2>1, <2>3, <2>4 DEF RightSource, OfCopy, t
<1>7. ASSUME NEW q \in leaves, NEW o, o = Scalar \o q, o \in Allocated
      PROVE  heap[o].from = [Stored(t, q, 1) EXCEPT !.at = @ + (ChunkAt(query.signal) + HEADER)]
  <2>1. Leaf(t, q)
    BY DEF Leaf
  <2>2. RightSource(o)
    BY <1>1, <1>7
  <2> QED
    BY <1>7, <2>1, <2>2 DEF RightSource, OfClone, t
<1> QED
  BY <1>5, <1>6, <1>7 DEF ReadAsStored, t

(* An object that stays has its source as long as the call lasts.          *)
LEMMA SourceKept ==
  ASSUME file' = file, calls' = calls, query' = query, NEW o, RightSource(o), heap'[o] = heap[o]
  PROVE  RightSource(o)'
<1>1. /\ Vec' = Vec /\ Vs' = Vs /\ Scalar' = Scalar /\ NPoints' = NPoints
      /\ TypeOf(query.signal)' = TypeOf(query.signal) /\ ChunkAt(query.signal)' = ChunkAt(query.signal)
  BY DEF Vec, Vs, Scalar, NPoints, TypeOf, ChunkAt, ValueBytes
<1> QED
  BY <1>1, Zenon DEF RightSource, OfElement, OfCopy, OfClone

LEMMA StoredKept ==
  ASSUME StoredInv, file' = file, calls' = calls, query' = query, pc' = "parse" => pc = "parse",
         \A o \in Allocated' : o \in Allocated /\ heap'[o] = heap[o]
  PROVE  StoredInv'
<1>1. ASSUME query'.signal # Param, ~ComplexMember(TypeOf(query.signal)'), NEW o \in Allocated' PROVE RightSource(o)'
  <2>1. ~ComplexMember(TypeOf(query.signal)) /\ query.signal # Param
    BY <1>1 DEF TypeOf
  <2>2. RightSource(o)
    BY <2>1 DEF StoredInv
  <2> QED
    BY <2>2, SourceKept
<1> QED
  BY <1>1 DEF StoredInv

LEMMA StoredFreed ==
  ASSUME StoredInv, file' = file, calls' = calls, query' = query, pc' = "parse" => pc = "parse",
         NEW freed, heap' = Without(heap, freed)
  PROVE  StoredInv'
<1>1. Allocated' = Allocated \ freed /\ \A o \in Allocated \ freed : heap'[o] = heap[o]
  BY WithoutFacts DEF Allocated
<1> QED
  BY <1>1, StoredKept

(* Where leaves of a call's values lie.                                    *)
LEMMA PlaceNames ==
  ASSUME NEW p \in Paths, Len(p) = 2, NEW o
  PROVE  /\ \A k \in Nat : \A q \in Paths : o = Below(p, k, q) => Len(o) >= 3 /\ o[1] = p[1] /\ o[2] = p[2]
         /\ \A m, k \in Nat : o = TwoBelow(p, m, k) => Len(o) >= 2 /\ o[1] = p[1] /\ o[2] = p[2]
         /\ \A q \in Paths : o = p \o q => Len(o) >= 2 /\ o[1] = p[1] /\ o[2] = p[2]
<1>1. ASSUME NEW k \in Nat, NEW q \in Paths, o = Below(p, k, q) PROVE Len(o) >= 3 /\ o[1] = p[1] /\ o[2] = p[2]
  BY <1>1, BelowFacts DEF Below
<1>2. ASSUME NEW m \in Nat, NEW k \in Nat, o = TwoBelow(p, m, k) PROVE Len(o) >= 2 /\ o[1] = p[1] /\ o[2] = p[2]
  BY <1>2, PairNames
<1>3. ASSUME NEW q \in Paths, o = p \o q PROVE Len(o) >= 2 /\ o[1] = p[1] /\ o[2] = p[2]
  <2>1. Len(p \o q) = Len(p) + Len(q) /\ Len(q) \in Nat /\ \A i \in 1 .. Len(p) : (p \o q)[i] = p[i]
    BY PathFacts
  <2>2. Len(p) + Len(q) >= 2 /\ 1 \in 1 .. Len(p) /\ 2 \in 1 .. Len(p)
    BY <2>1
  <2> QED
    BY <1>3, <2>1, <2>2
<1> QED
  BY <1>1, <1>2, <1>3

LEMMA SourceIntro ==
  ASSUME calls' \in Nat, TypeOf(query.signal)' \in TypeIds, NEW o,
         o[1] = calls' /\ Len(o) >= 3 /\ o[2] = 1 => OfElement(o)',
         o[1] = calls' /\ Len(o) >= 2 /\ o[2] = 3 => OfCopy(o)',
         o[1] = calls' /\ Len(o) >= 2 /\ o[2] = 4 => OfClone(o)'
  PROVE  RightSource(o)'
<1>1. /\ Vec' \in Paths /\ Len(Vec') = 2 /\ Vec'[1] = calls' /\ Vec'[2] = 1
      /\ Scalar' \in Paths /\ Len(Scalar') = 2 /\ Scalar'[1] = calls' /\ Scalar'[2] = 4
  BY NextNames
<1>2. Vs' \in Paths /\ Len(Vs') = 2 /\ Vs'[1] = calls' /\ Vs'[2] = 3
  BY Names DEF Vs
<1>3. \A q : Leaf(TypeOf(query.signal)', q) => q \in Paths
  BY LeafPaths
<1>4. ASSUME ~OfElement(o)' PROVE FALSE
  <2>1. PICK k \in Nat : \E q : Leaf(TypeOf(query.signal)', q) /\ o = Below(Vec', k, q)
    BY <1>4 DEF OfElement
  <2>2. \E q \in Paths : o = Below(Vec', k, q)
    BY <1>3, <2>1
  <2>3. Len(o) >= 3 /\ o[1] = Vec'[1] /\ o[2] = Vec'[2]
    BY <1>1, <2>2, PlaceNames
  <2> QED
    BY <1>1, <1>4, <2>3
<1>5. ASSUME ~OfCopy(o)' PROVE FALSE
  <2>1. \E m, k \in Nat : o = TwoBelow(Vs', m, k)
    BY <1>5 DEF OfCopy
  <2>2. Len(o) >= 2 /\ o[1] = Vs'[1] /\ o[2] = Vs'[2]
    BY <1>2, <2>1, PlaceNames
  <2> QED
    BY <1>2, <1>5, <2>2
<1>6. ASSUME ~OfClone(o)' PROVE FALSE
  <2>1. \E q : Leaf(TypeOf(query.signal)', q) /\ o = Scalar' \o q
    BY <1>6 DEF OfClone
  <2>2. \E q \in Paths : o = Scalar' \o q
    BY <1>3, <2>1
  <2>3. Len(o) >= 2 /\ o[1] = Scalar'[1] /\ o[2] = Scalar'[2]
    BY <1>1, <2>2, PlaceNames
  <2> QED
    BY <1>1, <1>6, <2>3
<1> QED
  BY <1>4, <1>5, <1>6 DEF RightSource

(* The bytes that a leaf of an element, of a copy and of a clone gets.     *)
LEMMA MovedSource ==
  ASSUME NEW t \in TypeIds, ~ComplexMember(t), NEW q, Leaf(t, q), NEW p, NEW a \in Nat
  PROVE  /\ q \in DOMAIN ReadTree[t] /\ Taken[t] = DataSize[t] /\ DataSize[t] \in Nat
         /\ Moved(ReadTree[t][q], p, a).from = [StoredTree[t][q].from EXCEPT !.at = @ + a]
         /\ Moved(ReadTree[t][q], p, a).from # Nowhere
<1>1. ReadTree[t] = StoredTree[t] /\ Taken[t] = DataSize[t] /\ DataSize[t] \in Nat
  BY ReadFacts
<1>2. q \in DOMAIN ReadTree[t] /\ ReadTree[t][q].from # Nowhere
  BY <1>1 DEF Leaf
<1>3. ReadTree[t][q].from \in Sources
  BY <1>1, LeafPaths DEF Cells
<1>4. Moved(ReadTree[t][q], p, a).from = [ReadTree[t][q].from EXCEPT !.at = @ + a]
  BY <1>2 DEF Moved, Cell
<1>5. [ReadTree[t][q].from EXCEPT !.at = @ + a] # Nowhere
  BY <1>2, <1>3 DEF Sources, Nowhere
<1> QED
  BY <1>1, <1>2, <1>4, <1>5

LEMMA VectorNames ==
  ASSUME NEW v \in Paths, Len(v) = 2, NEW n \in Nat, NEW f, IsVector(f, v, n), NEW x \in DOMAIN f
  PROVE  x[2] = v[2] /\ (Len(x) >= 3 => \E k \in 1 .. n : x = Append(v, k))
<1>1. x = v \/ \E k \in 1 .. n : x = Append(v, k)
  BY DEF IsVector
<1>2. ASSUME NEW k \in 1 .. n, x = Append(v, k) PROVE x[2] = v[2]
  <2>1. << >> \in Paths /\ k \in Nat /\ 2 \in 1 .. Len(v)
    BY DEF Paths
  <2>2. Append(v, k)[2] = v[2]
    BY <2>1, AppendNames
  <2> QED
    BY <1>2, <2>2
<1>3. ~(Len(v) >= 3)
  OBVIOUS
<1> QED
  BY <1>1, <1>2, <1>3

(* Nothing was read into a vector that was made.                           *)
LEMMA BegunEmpty ==
  ASSUME file \in Files, calls' \in Nat, NEW s, s # Param, NEW o \in DOMAIN Begun(s)
  PROVE  o[2] \in {1, 2} /\ (Len(o) >= 3 /\ o[2] = 1 => Begun(s)[o].from = Nowhere)
<1> DEFINE n == IF file.windowed THEN 0 ELSE NPoints
           pars == Vector(ParVec', n)
           V == Vector(Vec', NPoints)
<1>1. NPoints \in Nat /\ n \in Nat
  BY WindowFacts
<1>2. /\ Vec' \in Paths /\ Len(Vec') = 2 /\ Vec'[2] = 1 /\ ~Loose(Vec')
      /\ ParVec' \in Paths /\ Len(ParVec') = 2 /\ ParVec'[2] = 2 /\ ~Loose(ParVec')
  BY NextNames DEF Loose
<1>3. IsVector(V, Vec', NPoints) /\ \A k \in 1 .. NPoints : V[Append(Vec', k)] = Cell(<< >>, Nowhere)
  <2>1. Len(Vec') >= 2
    BY <1>2
  <2> QED
    BY <1>1, <1>2, <2>1, VectorFacts, Zenon
<1>4. IsVector(pars, ParVec', n)
  <2> HIDE DEF n
  <2>1. Len(ParVec') >= 2
    BY <1>2
  <2> QED
    BY <1>1, <1>2, <2>1, VectorBuilt, Zenon
<1>5. Begun(s) = Put(V, pars)
  BY DEF Begun
<1> HIDE DEF V, pars, n
<1>6. IsPut(Begun(s), V, pars)
  BY <1>5, PutIs
<1>7. CASE o \in DOMAIN V
  <2>1. o[2] = 1 /\ (Len(o) >= 3 => \E k \in 1 .. NPoints : o = Append(Vec', k))
    BY <1>1, <1>2, <1>3, <1>7, VectorNames
  <2>2. Begun(s)[o] = V[o]
    BY <1>6, <1>7 DEF IsPut
  <2>3. ASSUME Len(o) >= 3 PROVE V[o].from = Nowhere
    <3>1. PICK k \in 1 .. NPoints : o = Append(Vec', k)
      BY <2>1, <2>3
    <3>2. V[o] = Cell(<< >>, Nowhere)
      BY <1>3, <3>1
    <3> QED
      BY <3>2 DEF Cell
  <2> QED
    BY <2>1, <2>2, <2>3
<1>8. CASE o \in DOMAIN pars
  <2>1. o[2] = 2
    BY <1>1, <1>2, <1>4, <1>8, VectorNames
  <2> QED
    BY <2>1
<1> QED
  BY <1>6, <1>7, <1>8 DEF IsPut

LEMMA NewSweepValueStored ==
  ASSUME Inv, NEW s \in {Param} \cup DOMAIN file.signals, NEW invert, NewSweepValue(s, invert)
  PROVE  StoredInv'
<1>1. FileInv /\ HeapInv /\ file \in Files
  BY DEF Inv, FileInv
<1>2. /\ Begin(s, invert) /\ pc' = "read" /\ file' = file
  BY DEF NewSweepValue
<1>3. heap' = Put(Begun(s), Put(SvCell(s), heap))
  BY Zenon DEF NewSweepValue, Begun, SvCell
<1>4. /\ calls' \in Nat /\ query'.signal = s /\ \A o \in Allocated : o[1] # calls'
  BY <1>1, <1>2, NextCall
<1>5. CASE s = Param
  BY <1>2, <1>4, <1>5 DEF StoredInv
<1>6. CASE s # Param
  <2>1. TypeOf(query.signal)' \in TypeIds
    <3>1. TypeOf(query.signal)' = TypeOf(s) /\ s \in DOMAIN file.signals
      BY <1>2, <1>4, <1>6 DEF TypeOf
    <3> QED
      BY <1>1, <3>1, FileFacts
  <2>2. /\ IsPut(heap', Begun(s), Put(SvCell(s), heap))
        /\ IsPut(Put(SvCell(s), heap), SvCell(s), heap)
    BY <1>3, PutIs
  <2>3. DOMAIN SvCell(s) = {Sv'} /\ Len(Sv') = 1
    BY <1>4, NextNames DEF SvCell
  <2>4. ASSUME NEW o \in Allocated' PROVE RightSource(o)'
    <3>1. CASE o \in DOMAIN Begun(s)
      <4>1. o[2] \in {1, 2} /\ (Len(o) >= 3 /\ o[2] = 1 => Begun(s)[o].from = Nowhere)
        BY <1>1, <1>4, <1>6, <3>1, BegunEmpty
      <4>2. heap'[o] = Begun(s)[o]
        BY <2>2, <3>1 DEF IsPut
      <4>3. Len(o) >= 3 /\ o[2] = 1 => OfElement(o)'
        BY <4>1, <4>2 DEF OfElement
      <4>4. o[2] # 3 /\ o[2] # 4
        BY <4>1
      <4> QED
        BY <1>4, <2>1, <4>3, <4>4, SourceIntro
    <3>2. CASE o = Sv'
      <4>0. Len(o) = 1
        BY <2>3, <3>2, Zenon
      <4>1. ~(Len(o) >= 2) /\ ~(Len(o) >= 3)
        BY <4>0
      <4> QED
        BY <1>4, <2>1, <4>1, SourceIntro
    <3>3. CASE o \in Allocated
      BY <1>4, <2>1, <3>3, SourceIntro
    <3>4. o \in DOMAIN Begun(s) \/ o = Sv' \/ o \in Allocated
      BY <2>2, <2>3 DEF IsPut, Allocated
    <3> QED
      BY <3>1, <3>2, <3>3, <3>4
  <2> QED
    BY <1>2, <2>4 DEF StoredInv
<1> QED
  BY <1>5, <1>6

LEMMA NoValuesStored ==
  ASSUME Inv, NEW s \in {Param} \cup DOMAIN file.signals, NoValues(s)
  PROVE  StoredInv'
<1>1. FileInv /\ HeapInv /\ file \in Files
  BY DEF Inv, FileInv
<1>2. Begin(s, FALSE) /\ file' = file /\ heap' = heap /\ pc' = pc
  BY DEF NoValues
<1>3. /\ calls' \in Nat /\ query'.signal = s /\ pc = "idle" /\ \A o \in Allocated : o[1] # calls'
  BY <1>1, <1>2, NextCall
<1>4. ASSUME s # Param, NEW o \in Allocated' PROVE RightSource(o)'
  <2>1. TypeOf(query.signal)' = TypeOf(s) /\ s \in DOMAIN file.signals
    BY <1>2, <1>3, <1>4 DEF TypeOf
  <2>2. TypeOf(query.signal)' \in TypeIds /\ o[1] # calls'
    BY <1>1, <1>2, <1>3, <2>1, FileFacts DEF Allocated
  <2> QED
    BY <1>3, <2>2, SourceIntro
<1> QED
  BY <1>2, <1>3, <1>4 DEF StoredInv

LEMMA PlusNothing ==
  ASSUME NEW from \in Sources, NEW a \in Nat, NEW c, c = [from EXCEPT !.at = @ + a]
  PROVE  [c EXCEPT !.at = @ + 0] = c
<1>1. c \in Sources
  BY DEF Sources
<1>2. c.at + 0 = c.at
  BY <1>1 DEF Sources
<1> QED
  BY <1>1, <1>2 DEF Sources

LEMMA GetSignalScalarStored ==
  ASSUME Inv, NEW s \in DOMAIN file.signals, GetSignalScalar(s)
  PROVE  StoredInv'
<1> DEFINE t == TypeOf(s)
           new == Placed(Clone(s), Scalar', 0)
           place == ChunkAt(s) + HEADER
<1>1. FileInv /\ HeapInv /\ ParseInv /\ file \in Files
  BY DEF Inv, FileInv
<1>2. ~file.swept /\ Begin(s, FALSE) /\ file' = file /\ pc' \in {"idle", "convert"}
  BY DEF GetSignalScalar
<1>3. heap' = Put(new, heap)
  BY Zenon DEF GetSignalScalar, Clone
<1>4. /\ calls' \in Nat /\ query'.signal = s /\ pc = "idle" /\ \A o \in Allocated : o[1] # calls'
  BY <1>1, <1>2, NextCall
<1>5. IsValue(s)
  BY <1>1, <1>2, <1>4 DEF ParseInv
<1>6. t \in TypeIds /\ place \in Nat
  <2>1. s \in 1 .. Len(file.signals) + 1 /\ t \in TypeIds
    BY <1>1, FileFacts
  <2> QED
    BY <1>1, <2>1, ChunkFacts DEF HEADER
<1>7. /\ IsTree(Clone(s)) /\ DOMAIN Clone(s) = DOMAIN ReadTree[t]
      /\ \A q \in DOMAIN ReadTree[t] : Clone(s)[q].from = heap[<<0, s>> \o q].from
  BY <1>1, <1>5, CloneFacts
<1>8. Scalar' \in Paths /\ Len(Scalar') = 2 /\ Scalar'[1] = calls' /\ Scalar'[2] = 4
  BY <1>4, NextNames
<1>9. /\ DOMAIN new = {Scalar' \o q : q \in DOMAIN Clone(s)}
      /\ \A q \in DOMAIN Clone(s) : new[Scalar' \o q] = Moved(Clone(s)[q], Scalar', 0)
  BY <1>7, <1>8, PlacedFacts
<1>10. IsPut(heap', new, heap)
  BY <1>3, PutIs
<1>11. TypeOf(query.signal)' = t /\ ChunkAt(query.signal)' = ChunkAt(s)
  BY <1>2, <1>4 DEF TypeOf, ChunkAt, ValueBytes
<1> HIDE DEF new, t, place
<1>12. ASSUME ~ComplexMember(t), NEW q, Leaf(t, q)
       PROVE  heap'[Scalar' \o q].from = [Stored(t, q, 1) EXCEPT !.at = @ + place]
  <2> DEFINE from == StoredTree[t][q].from
  <2>1. q \in DOMAIN ReadTree[t] /\ DataSize[t] \in Nat
    BY <1>6, <1>12, MovedSource
  <2>2. heap[<<0, s>> \o q].from = [from EXCEPT !.at = @ + place]
    <3>1. heap[<<0, s>> \o q] = Moved(ReadTree[t][q], <<0, s>>, place)
      BY <1>5, <2>1 DEF IsValue, t, place
    <3>2. Moved(ReadTree[t][q], <<0, s>>, place).from = [from EXCEPT !.at = @ + place]
      BY <1>6, <1>12, MovedSource
    <3> QED
      BY <3>1, <3>2
  <2>3. from \in Sources
    BY <1>6, <1>12, LeafPaths DEF Cells
  <2>4. from # Nowhere
    BY <1>12 DEF Leaf
  <2> HIDE DEF from
  <2>5. Clone(s)[q].from = [from EXCEPT !.at = @ + place]
    BY <1>7, <2>1, <2>2
  <2>6. heap'[Scalar' \o q] = Moved(Clone(s)[q], Scalar', 0)
    BY <1>7, <1>9, <1>10, <2>1 DEF IsPut
  <2>7. Clone(s)[q].from # Nowhere
    BY <1>6, <2>3, <2>4, <2>5 DEF Sources, Nowhere
  <2>8. Moved(Clone(s)[q], Scalar', 0).from = [Clone(s)[q].from EXCEPT !.at = @ + 0]
    BY <2>7 DEF Moved, Cell
  <2>9. [Clone(s)[q].from EXCEPT !.at = @ + 0] = [from EXCEPT !.at = @ + place]
    BY <1>6, <2>3, <2>5, PlusNothing
  <2>10. Stored(t, q, 1) = from
    <3>1. Stored(t, q, 1) = [from EXCEPT !.at = @ + (1 - 1) * DataSize[t]]
      BY DEF Stored, from
    <3>2. (1 - 1) * DataSize[t] = 0
      BY <2>1
    <3> QED
      BY <2>3, <3>1, <3>2 DEF Sources
  <2> QED
    BY <2>6, <2>8, <2>9, <2>10
<1>13. ASSUME ~ComplexMember(t), NEW o \in Allocated' PROVE RightSource(o)'
  <2>1. CASE o \in DOMAIN new
    <3>1. PICK r \in DOMAIN Clone(s) : o = Scalar' \o r
      BY <1>9, <2>1
    <3>2. r \in Paths
      BY <1>7 DEF IsTree
    <3>3. o[2] = 4
      BY <1>8, <3>1, <3>2, PlaceNames
    <3>4. OfClone(o)'
      BY <1>11, <1>12, <1>13 DEF OfClone, place
    <3> QED
      BY <1>4, <1>6, <1>11, <3>3, <3>4, SourceIntro
  <2>2. CASE o \in Allocated
    BY <1>4, <1>6, <1>11, <2>2, SourceIntro
  <2> QED
    BY <1>10, <2>1, <2>2 DEF IsPut, Allocated
<1> QED
  BY <1>2, <1>11, <1>13 DEF StoredInv

LEMMA ReadWindowStored ==
  ASSUME Inv, StoredInv, ReadWindow
  PROVE  StoredInv'
<1> DEFINE n == file.windows[w + 1]
           t == TypeOf(query.signal)
           new == NewWindow(n)
<1>1. FileInv /\ HeapInv /\ file \in Files
  BY DEF Inv, FileInv
<1>2. /\ pc = "read" /\ w < Len(file.windows) /\ pc' = pc
      /\ file' = file /\ calls' = calls /\ query' = query
  BY DEF ReadWindow
<1>3. heap' = Put(new, heap)
  BY Zenon DEF ReadWindow, NewWindow, Window
<1>4. calls \in Nat /\ w \in 0 .. Len(file.windows) - 1 /\ w \in 0 .. Len(file.windows)
  BY <1>1, <1>2, CallsAssumed, FileFacts DEF FileInv
<1>5. query.signal = Param \/ ComplexMember(t) => StoredInv'
  BY <1>2 DEF StoredInv, TypeOf
<1> SUFFICES ASSUME query.signal # Param, ~ComplexMember(t) PROVE StoredInv'
  BY <1>5
<1>6. /\ n \in Nat
      /\ \A x \in DOMAIN new :
           x[2] = 2 \/ \E k \in 1 .. n : \E q \in DOMAIN ReadTree[t] : x = Append(Vec, First + k) \o q
      /\ \A k \in 1 .. n : \A q \in DOMAIN ReadTree[t] :
           new[Append(Vec, First + k) \o q] =
             Moved(ReadTree[t][q], Append(Vec, First + k), First * DataSize[t] + (k - 1) * Taken[t])
  BY <1>1, <1>2, <1>4, WindowMakes
<1>7. t \in TypeIds
  <2>1. query.signal \in DOMAIN file.signals
    BY <1>1 DEF FileInv
  <2> QED
    BY <1>1, <2>1, FileFacts
<1>8. First \in Nat /\ Vec \in Paths /\ Len(Vec) = 2 /\ Vec[2] = 1
  BY <1>1, <1>4, WindowFacts, CallNames
<1>9. IsPut(heap', new, heap)
  BY <1>3, PutIs
<1>10. TypeOf(query.signal)' = t /\ Vec' = Vec
  BY <1>2 DEF TypeOf, Vec
<1> HIDE DEF n, t, new
<1>11. IsTree(ReadTree[t]) /\ Taken[t] = DataSize[t] /\ DataSize[t] \in Nat
  BY <1>7, ReadFacts DEF Shape
<1>12. ASSUME NEW o \in DOMAIN new, o[2] = 1 PROVE OfElement(o)'
  <2>1. PICK i \in 1 .. n : \E r \in DOMAIN ReadTree[t] : o = Append(Vec, First + i) \o r
    BY <1>6, <1>12
  <2>2. PICK r \in DOMAIN ReadTree[t] : o = Append(Vec, First + i) \o r
    BY <2>1
  <2>3. i \in Nat /\ i >= 1 /\ First + i \in Nat /\ r \in Paths
    BY <1>6, <1>8, <1>11 DEF IsTree
  <2> DEFINE a == First * DataSize[t] + (i - 1) * Taken[t]
  <2>4. a \in Nat /\ a = (First + i - 1) * DataSize[t]
    <3>1. First * DataSize[t] + (i - 1) * DataSize[t] = (First + i - 1) * DataSize[t]
      BY <1>8, <1>11, <2>3, Distributes
    <3>2. a = First * DataSize[t] + (i - 1) * DataSize[t]
      BY <1>11
    <3>3. First * DataSize[t] \in Nat /\ (i - 1) * DataSize[t] \in Nat
      BY <1>8, <1>11, <2>3
    <3> HIDE DEF a
    <3> QED
      BY <3>1, <3>2, <3>3
  <2>5. heap'[o] = Moved(ReadTree[t][r], Append(Vec, First + i), a)
    BY <1>6, <1>9, <2>2 DEF IsPut
  <2> HIDE DEF a
  <2>6. ASSUME NEW k \in Nat, NEW q, Leaf(t, q), o = Below(Vec, k, q)
        PROVE  heap'[o].from = Stored(t, q, k)
    <3>1. q \in Paths
      BY <1>7, <2>6, LeafPaths
    <3>2. Below(Vec, First + i, r) = Below(Vec, k, q)
      BY <2>2, <2>6 DEF Below
    <3>3. k = First + i /\ q = r
      BY <1>8, <2>3, <3>1, <3>2, ElementNames
    <3>4. Moved(ReadTree[t][q], Append(Vec, First + i), a).from = [StoredTree[t][q].from EXCEPT !.at = @ + a]
      BY <1>7, <2>4, <2>6, MovedSource
    <3>5. Stored(t, q, k) = [StoredTree[t][q].from EXCEPT !.at = @ + a]
      <4>1. k - 1 = First + i - 1
        BY <1>8, <2>3, <3>3
      <4>2. a = (k - 1) * DataSize[t]
        BY <2>4, <4>1
      <4> QED
        BY <4>2 DEF Stored
    <3> QED
      BY <2>5, <3>3, <3>4, <3>5
  <2> QED
    BY <1>10, <2>6 DEF OfElement
<1>13. ASSUME NEW o \in Allocated' PROVE RightSource(o)'
  <2>1. CASE o \in DOMAIN new
    <3>1. o[2] \in {1, 2}
      <4>1. ASSUME NEW k \in 1 .. n, NEW q \in DOMAIN ReadTree[t], o = Append(Vec, First + k) \o q PROVE o[2] = 1
        <5>1. First + k \in Nat /\ q \in Paths
          BY <1>6, <1>8, <1>11 DEF IsTree
        <5> QED
          BY <1>8, <4>1, <5>1, BelowFacts
      <4> QED
        BY <1>6, <2>1, <4>1
    <3>2. o[2] = 1 => OfElement(o)'
      BY <1>12, <2>1
    <3>3. calls' \in Nat /\ TypeOf(query.signal)' \in TypeIds /\ o[2] # 3 /\ o[2] # 4
      BY <1>2, <1>4, <1>7, <1>10, <3>1
    <3> QED
      BY <3>2, <3>3, SourceIntro
  <2>2. CASE o \notin DOMAIN new
    <3>1. o \in Allocated /\ heap'[o] = heap[o]
      BY <1>9, <2>2 DEF IsPut, Allocated
    <3>2. RightSource(o)
      BY <3>1 DEF StoredInv, t
    <3> QED
      BY <1>2, <3>1, <3>2, SourceKept
  <2> QED
    BY <2>1, <2>2
<1> QED
  BY <1>2, <1>13 DEF StoredInv

LEMMA InversionNames ==
  ASSUME calls \in Nat, NPoints \in Nat, NEW h, NEW t \in TypeIds, t = TypeOf(query.signal)
  PROVE  IsInversion(MemberVectors(h), t)
  BY MemberVectorsFacts DEF InversionOf

(* What an inversion leaves: what it was, and copies of members.           *)
LEMMA InversionSources ==
  ASSUME Inv, Return, Inverts, NEW o \in Allocated'
  PROVE  \/ o \in Allocated /\ heap'[o] = heap[o]
         \/ /\ o[2] = 3
            /\ \A m, k \in Nat :
                 m \in Members(TypeOf(query.signal)) /\ k \in 1 .. NPoints /\ o = TwoBelow(Vs, m, k) =>
                   heap'[o] = heap[TwoBelow(Vec, k, m)]
<1> DEFINE t == TypeOf(query.signal)
           R == Reach(Released(Vec), {Sv})
           h == Without(heap, R)
           F == Reach(h, {Vec})
           f == MemberVectors(h)
<1>1. FileInv /\ HeapInv /\ HandleInv /\ ReadingInv /\ file.swept
  BY DEF Inv, ReadingInv, Return
<1>2. /\ pc = "read" /\ w = Len(file.windows) /\ query.signal # Param /\ IsStruct(t)
      /\ query.signal \in DOMAIN file.signals
  BY <1>1 DEF Return, Inverts, FileInv
<1>3. heap' = Without(Put(f, h), F)
  <2>1. heap' = Inverted(Without(heap, Reach(Released(IF query.signal = Param THEN ParVec ELSE Vec), {Sv})))
    BY DEF Return
  <2>2. heap' = Inverted(h)
    BY <1>2, <2>1
  <2> QED
    BY <2>2, Zenon DEF Inverted
<1>4. calls \in Nat /\ calls >= 1 /\ file \in Files /\ t \in TypeIds /\ NPoints \in Nat
  BY <1>1, <1>2, CallsAssumed, FileFacts, WindowFacts DEF FileInv, ReadingInv
<1>5. Len(Sv) = 1 /\ Vs \in Paths /\ Len(Vs) = 2 /\ Vs[1] = calls /\ Vs[2] = 3
  BY <1>4, CallNames
<1>6. \A y \in R : y = Sv \/ y[2] = 2
  BY <1>1, <1>2, <1>4, ReleaseFacts
<1> HIDE DEF R
<1>7. DOMAIN h = Allocated \ R /\ \A x \in Allocated \ R : h[x] = heap[x]
  BY WithoutFacts DEF Allocated
<1> HIDE DEF h
<1> DEFINE p == Put(f, h)
<1>8. DOMAIN Without(p, F) = DOMAIN p \ F /\ \A x \in DOMAIN p \ F : Without(p, F)[x] = p[x]
  BY WithoutFacts
<1>9. IsPut(p, f, h)
  BY PutIs
<1>10. heap' = Without(p, F)
  BY <1>3
<1> HIDE DEF p, F, t
<1>11. CASE o \notin DOMAIN f
  <2>1. o \in DOMAIN h /\ heap'[o] = h[o]
    BY <1>8, <1>9, <1>10, <1>11 DEF IsPut, Allocated
  <2> QED
    BY <1>7, <2>1
<1>12. CASE o \in DOMAIN f
  <2>1. heap'[o] = f[o]
    BY <1>8, <1>9, <1>10, <1>12 DEF IsPut, Allocated
  <2>2. /\ \/ o = Vs
           \/ \E m \in Nat : o = Append(Vs, m)
           \/ \E m, k \in Nat : o = TwoBelow(Vs, m, k)
        /\ \A m, k \in Nat : m \in Members(t) /\ k \in 1 .. NPoints => f[TwoBelow(Vs, m, k)] = h[TwoBelow(Vec, k, m)]
    <3>0. PICK u \in TypeIds : u = TypeOf(query.signal)
      BY <1>4 DEF t
    <3>1. IsInversion(f, u)
      BY <1>4, <3>0, InversionNames
    <3>2. \A m, k \in Nat : m \in Members(t) /\ k \in 1 .. NPoints =>
            /\ TwoBelow(Vs, m, k) \in DOMAIN f
            /\ f[TwoBelow(Vs, m, k)] = h[TwoBelow(Vec, k, m)]
      <4>1. InversionOf(f, h, t)
        BY <1>4, MemberVectorsFacts DEF t
      <4> HIDE DEF f, t
      <4> QED
        BY <4>1 DEF InversionOf
    <3> HIDE DEF f
    <3> QED
      BY <1>12, <3>1, <3>2 DEF IsInversion
  <2> HIDE DEF f
  <2>3. o[2] = 3
    <3>1. ASSUME NEW m \in Nat, o = Append(Vs, m) PROVE o[2] = 3
      <4>1. << >> \in Paths /\ 2 \in 1 .. Len(Vs)
        BY <1>5 DEF Paths
      <4>2. Append(Vs, m)[2] = Vs[2]
        BY <1>5, <4>1, AppendNames
      <4> QED
        BY <1>5, <3>1, <4>2
    <3>2. ASSUME NEW m \in Nat, NEW k \in Nat, o = TwoBelow(Vs, m, k) PROVE o[2] = 3
      <4>1. o[2] = Vs[2]
        BY <1>5, <3>2, PlaceNames
      <4> QED
        BY <1>5, <4>1
    <3> QED
      BY <1>5, <1>12, <2>2, <3>1, <3>2
  <2>4. ASSUME NEW m \in Nat, NEW k \in Nat, m \in Members(t), k \in 1 .. NPoints, o = TwoBelow(Vs, m, k)
        PROVE  heap'[o] = heap[TwoBelow(Vec, k, m)]
    <3> DEFINE x == Append(Append(Vec, k), m)
    <3>1. x \in Allocated /\ Len(x) = 4 /\ x[2] = 1
      BY <1>1, <1>2, <2>4, SourceFacts DEF t
    <3>2. x = TwoBelow(Vec, k, m)
      BY DEF TwoBelow
    <3> HIDE DEF x
    <3>3. x \notin R
      BY <1>5, <1>6, <3>1
    <3>4. h[x] = heap[x]
      BY <1>7, <3>1, <3>3
    <3>5. f[o] = h[x]
      BY <2>2, <2>4, <3>2
    <3> QED
      BY <2>1, <3>2, <3>4, <3>5
  <2> QED
    BY <2>3, <2>4 DEF t
<1> QED
  BY <1>11, <1>12

LEMMA ReturnStored ==
  ASSUME Inv, StoredInv, Return
  PROVE  StoredInv'
<1> DEFINE t == TypeOf(query.signal)
<1>1. FileInv /\ HeapInv /\ ReadingInv /\ file \in Files
  BY DEF Inv, FileInv
<1>2. /\ pc = "read" /\ w = Len(file.windows) /\ pc' \in {"idle", "convert"}
      /\ file' = file /\ calls' = calls /\ query' = query
  BY DEF Return
<1>3. CASE ~Inverts
  <2>1. heap' = Without(heap, Reach(Released(IF query.signal = Param THEN ParVec ELSE Vec), {Sv}))
    BY <1>3 DEF Return
  <2>2. pc' # "parse"
    BY <1>2
  <2> QED
    BY <1>2, <2>1, <2>2, StoredFreed
<1>4. CASE Inverts
  <2>1. query.signal = Param \/ ComplexMember(t) => StoredInv'
    BY <1>2 DEF StoredInv, TypeOf
  <2> SUFFICES ASSUME query.signal # Param, ~ComplexMember(t) PROVE StoredInv'
    BY <2>1
  <2>2. calls \in Nat /\ t \in TypeIds /\ NPoints \in Nat
    <3>1. query.signal \in DOMAIN file.signals
      BY <1>1 DEF FileInv
    <3> QED
      BY <1>1, <3>1, CallsAssumed, FileFacts, WindowFacts DEF FileInv
  <2>3. Vs \in Paths /\ Len(Vs) = 2 /\ Vec \in Paths
    BY <2>2, CallNames
  <2>4. /\ TypeOf(query.signal)' = t /\ Vs' = Vs /\ NPoints' = NPoints
    BY <1>2 DEF TypeOf, Vs, NPoints
  <2>5. First = NPoints
    BY <1>1, <1>2, WindowFacts
  <2> HIDE DEF t
  <2>6. ASSUME NEW m \in Nat, NEW k \in Nat, m \in Members(t), k \in 1 .. NPoints, Leaf(t, <<m>>)
        PROVE  heap[TwoBelow(Vec, k, m)].from = Stored(t, <<m>>, k)
    <3>1. <<m>> \in DOMAIN ReadTree[t] /\ Taken[t] = DataSize[t] /\ DataSize[t] \in Nat
      BY <2>2, <2>6, MovedSource
    <3>2. IsElement(t, k, <<m>>)
      BY <1>1, <1>2, <2>5, <2>6, <3>1 DEF ReadingInv, t
    <3>3. PICK a \in Nat : a = (k - 1) * DataSize[t] /\ heap[Append(Vec, k) \o <<m>>] = Moved(ReadTree[t][<<m>>], Append(Vec, k), a)
      BY <3>1, <3>2 DEF IsElement
    <3>4. Append(Vec, k) \o <<m>> = TwoBelow(Vec, k, m)
      <4>1. Append(Vec, k) \in Paths
        BY <2>3, PairPaths
      <4>2. \A e \in Paths : e \o <<m>> = Append(e, m)
        <5>1. << >> \in Paths
          BY DEF Paths
        <5> QED
          BY <5>1, AppendJoin
      <4> QED
        BY <4>1, <4>2 DEF TwoBelow
    <3>5. Moved(ReadTree[t][<<m>>], Append(Vec, k), a).from = [StoredTree[t][<<m>>].from EXCEPT !.at = @ + a]
      BY <2>2, <2>6, MovedSource
    <3> QED
      BY <3>3, <3>4, <3>5 DEF Stored
  <2>7. ASSUME NEW o \in Allocated' PROVE RightSource(o)'
    <3>1. CASE o \in Allocated /\ heap'[o] = heap[o]
      <4>1. RightSource(o)
        BY <3>1 DEF StoredInv, t
      <4> QED
        BY <1>2, <3>1, <4>1, SourceKept
    <3>2. CASE /\ o[2] = 3
               /\ \A m, k \in Nat :
                    m \in Members(t) /\ k \in 1 .. NPoints /\ o = TwoBelow(Vs, m, k) =>
                      heap'[o] = heap[TwoBelow(Vec, k, m)]
      <4>1. OfCopy(o)'
        BY <2>4, <2>6, <3>2 DEF OfCopy
      <4>2. calls' \in Nat /\ TypeOf(query.signal)' \in TypeIds /\ o[2] # 1 /\ o[2] # 4
        BY <1>2, <2>2, <2>4, <3>2
      <4> QED
        BY <4>1, <4>2, SourceIntro
    <3> QED
      BY <1>4, <3>1, <3>2, InversionSources DEF t
  <2> QED
    BY <1>2, <2>7 DEF StoredInv
<1> QED
  BY <1>3, <1>4

LEMMA StoredStep == Inv /\ StoredInv /\ [Next]_vars => StoredInv'
<1> SUFFICES ASSUME Inv, StoredInv, [Next]_vars PROVE StoredInv'
  OBVIOUS
<1>1. CASE ParseValue
  BY <1>1 DEF ParseValue, StoredInv
<1>2. CASE ParseThrows \/ Parsed \/ SetInvertStruct \/ ReadThrows \/ \E v \in views : DropArray(v)
  <2>1. \A o \in Allocated' : o \in Allocated /\ heap'[o] = heap[o]
    BY <1>2 DEF Allocated, ParseThrows, Parsed, SetInvertStruct, ReadThrows, DropArray
  <2>2. file' = file /\ calls' = calls /\ query' = query /\ (pc' = "parse" => pc = "parse")
    BY <1>2 DEF ParseThrows, Parsed, SetInvertStruct, ReadThrows, DropArray
  <2> QED
    BY <2>1, <2>2, StoredKept
<1>3. CASE Call
  <2>1. ASSUME NEW s \in {Param} \cup DOMAIN file.signals, NEW invert, NewSweepValue(s, invert) PROVE StoredInv'
    BY <2>1, NewSweepValueStored
  <2>2. ASSUME NEW s \in {Param} \cup DOMAIN file.signals, NoValues(s) PROVE StoredInv'
    BY <2>2, NoValuesStored
  <2>3. ASSUME NEW s \in DOMAIN file.signals, GetSignalScalar(s) PROVE StoredInv'
    BY <2>3, GetSignalScalarStored
  <2> QED
    BY <1>3, <2>1, <2>2, <2>3 DEF Call, GetSweepValues, GetSignal, GetSignalSwept, GetSignalVector
<1>4. CASE ReadWindow \/ Return
  BY <1>4, ReadWindowStored, ReturnStored
<1>5. CASE Convert
  <2>1. ASSUME NEW outcome, NEW freed, Converted(outcome, freed) PROVE StoredInv'
    <3>1. /\ file' = file /\ calls' = calls /\ query' = query /\ pc' # "parse"
          /\ heap' = Without(heap, Reach(heap, freed))
      BY <2>1 DEF Converted
    <3> QED
      BY <3>1, StoredFreed
  <2> QED
    BY <1>5, <2>1 DEF Convert, ConvertScalar, ConvertSweep, ConvertVector, ConvertVectorStruct
<1>6. CASE DeleteSet
  <2>1. /\ file' = file /\ calls' = calls /\ query' = query /\ pc' # "parse"
        /\ heap' = Without(heap, Reach(heap, SectionValues))
    BY <1>6 DEF DeleteSet
  <2> QED
    BY <2>1, StoredFreed
<1>7. ASSUME NEW o \in held, Delete(o) PROVE StoredInv'
  <2>1. file' = file /\ calls' = calls /\ query' = query /\ pc' # "parse"
    BY <1>7 DEF Delete
  <2>2. heap' = heap \/ \E freed : heap' = Without(heap, freed)
    BY <1>7 DEF Delete
  <2>3. CASE heap' = heap
    <3>1. \A x \in Allocated' : x \in Allocated /\ heap'[x] = heap[x]
      BY <2>3 DEF Allocated
    <3> QED
      BY <2>1, <3>1, StoredKept
  <2> QED
    BY <2>1, <2>2, <2>3, StoredFreed
<1>8. CASE UNCHANGED vars
  <2>1. file' = file /\ calls' = calls /\ query' = query /\ heap' = heap /\ pc' = pc
    BY <1>8 DEF vars
  <2>2. \A x \in Allocated' : x \in Allocated /\ heap'[x] = heap[x]
    BY <2>1 DEF Allocated
  <2> QED
    BY <2>1, <2>2, StoredKept
<1> QED
  BY <1>1, <1>2, <1>3, <1>4, <1>5, <1>6, <1>7, <1>8 DEF Next, Parse, Read

(* A value is read from the bytes the simulator wrote it to, member by     *)
(* member, and keeps them through clones (NonSweepValue::get_value) and    *)
(* inversions (VectorStruct), for structures of any depth; but for those   *)
(* with a complex member, of which PSFScalarT::deserialize takes half.     *)
THEOREM ReadsWhatIsStored == Spec => []ReadAsStored
<1>1. Init => StoredInv
  BY DEF Init, StoredInv
<1>2. Inv /\ StoredInv /\ [Next]_vars => StoredInv'
  BY StoredStep
<1>3. Inv /\ StoredInv => ReadAsStored
  BY StoredGives
<1> QED
  BY <1>1, <1>2, <1>3, Invariance, PTL DEF Spec

-----------------------------------------------------------------------------
(* What is lost.  An object hangs on the object its name continues, down   *)
(* from the handle of its call or from a value of the section: so the      *)
(* name tells whether some root still leads to it.                         *)

Top(o) == <<o[1], o[2]>>

Hangs(h) ==
  \A o \in DOMAIN h : ~Loose(o) /\ Len(o) >= 3 =>
    Len(o) <= Len(Types) + 2 /\ \E a \in DOMAIN h : ~Loose(a) /\ o \in KidsOf(h, a)

(* The points that the vector of the sweep parameter has room for.         *)
Room == IF file.windowed THEN First ELSE NPoints

OnSweepValue(h) == \A o \in DOMAIN h : Len(o) = 2 /\ ~Loose(o) /\ <<o[1]>> \in DOMAIN h => o \in KidsOf(h, <<o[1]>>)

ValueNames ==
  \A o \in Allocated : o[1] = 0 =>
    /\ ~file.swept /\ pc # "deleted" /\ Len(o) >= 2 /\ o[2] \in DOMAIN file.signals
    /\ pc = "parse" => ChunkAt(o[2]) < buf

(* What is read next has no members yet.                                   *)
Unread(o) == o[1] = calls /\ Len(o) >= 3 /\ (o[2] = 2 \/ o[3] > First)

ReadNames ==
  pc = "read" =>
    /\ KidsOf(heap, Sv) = IF query.signal = Param THEN {ParVec} ELSE {ParVec, Vec}
    /\ KidsOf(heap, ParVec) \subseteq {Append(ParVec, k) : k \in 1 .. Room}
    /\ \A o \in Allocated : Unread(o) => KidsOf(heap, o) = {}

HangInv == Hangs(heap) /\ OnSweepValue(heap) /\ ValueNames /\ ReadNames

(* A root leads to the object.                                             *)
Kept(o) == (Len(o) >= 2 /\ Top(o) \in Roots) \/ (pc = "read" /\ o[1] = calls)

GarbageFact == \A o \in Allocated : ~Loose(o) => (o \in Garbage <=> ~Kept(o))

(* One step up: from an object to the one it hangs on.                     *)
LEMMA HangsOn ==
  ASSUME NEW h, Sound(h), Hangs(h), NEW o \in DOMAIN h, ~Loose(o), Len(o) >= 3
  PROVE  \E a \in DOMAIN h : /\ ~Loose(a) /\ o \in KidsOf(h, a) /\ Len(o) <= Len(Types) + 2
                             /\ Len(a) \in Nat /\ Len(a) >= 2 /\ Len(o) = Len(a) + 1 /\ a[1] = o[1] /\ a[2] = o[2]
<1>1. PICK a \in DOMAIN h : ~Loose(a) /\ o \in KidsOf(h, a) /\ Len(o) <= Len(Types) + 2
  BY DEF Hangs
<1>2. /\ Len(a) \in Nat /\ Len(a) >= 1 /\ Len(o) = Len(a) + 1
      /\ ~Copied(a) => \A i \in 1 .. Len(a) : o[i] = a[i]
  BY <1>1, KidFacts
<1>3. ~Copied(a) /\ Len(a) >= 2 /\ 1 \in 1 .. Len(a) /\ 2 \in 1 .. Len(a)
  BY <1>1, <1>2 DEF Copied
<1>4. a[1] = o[1] /\ a[2] = o[2]
  BY <1>2, <1>3
<1> QED
  BY <1>1, <1>2, <1>3, <1>4

LEMMA HeapNames ==
  ASSUME NEW h, Sound(h), NEW o \in DOMAIN h
  PROVE  o \in Paths /\ Len(o) \in Nat /\ Len(o) >= 1 /\ o[1] \in Nat /\ (Len(o) >= 2 => o[2] \in Nat)
<1>1. o \in Paths /\ Len(o) >= 1
  BY DEF Sound, IsTree
<1>2. Len(o) \in Nat /\ \A i \in 1 .. Len(o) : o[i] \in Nat
  BY <1>1, PathElements
<1>3. 1 \in 1 .. Len(o) /\ (Len(o) >= 2 => 2 \in 1 .. Len(o))
  BY <1>1, <1>2
<1> QED
  BY <1>1, <1>2, <1>3

LEMMA TopNames ==
  ASSUME NEW o \in Paths, Len(o) >= 2
  PROVE  /\ Top(o) \in Paths /\ Len(Top(o)) = 2 /\ Top(o)[1] = o[1] /\ Top(o)[2] = o[2]
         /\ Len(o) = 2 => Top(o) = o
         /\ Loose(Top(o)) <=> Loose(o)
<1> DEFINE p == Top(o)
<1>1. Len(o) \in Nat /\ \A i \in 1 .. Len(o) : o[i] \in Nat
  BY PathElements
<1>2. 1 \in 1 .. Len(o) /\ 2 \in 1 .. Len(o)
  BY <1>1
<1>3. o[1] \in Nat /\ o[2] \in Nat
  BY <1>1, <1>2
<1>4. p \in Paths /\ Len(p) = 2 /\ p[1] = o[1] /\ p[2] = o[2]
  BY <1>3, Pair DEF Top
<1> HIDE DEF p
<1>5. ASSUME Len(o) = 2 PROVE p = o
  <2>1. \A i \in 1 .. 2 : i = 1 \/ i = 2
    OBVIOUS
  <2>2. Len(p) = Len(o) /\ \A i \in 1 .. Len(o) : p[i] = o[i]
    BY <1>4, <1>5, <2>1
  <2> QED
    BY <1>4, <2>2, SeqEqual DEF Paths
<1>6. Loose(p) <=> Loose(o)
  BY <1>4 DEF Loose
<1> QED
  BY <1>4, <1>5, <1>6 DEF p

(* The names of length two of objects that the objects lead to.            *)
Tops(h, objects) == objects \cup UNION {KidsOf(h, r) : r \in objects}

(* Down from the top of its name, an object is reached.                    *)
LEMMA ReachedDown ==
  ASSUME NEW h, Sound(h), Hangs(h), NEW objects, NEW o \in DOMAIN h, ~Loose(o), Len(o) >= 2,
         Top(o) \in Tops(h, objects)
  PROVE  o \in Reach(h, objects)
<1> DEFINE Like(x) == x \in DOMAIN h /\ ~Loose(x) /\ x[1] = o[1] /\ x[2] = o[2]
<1>1. PICK reach : IsReach(h, objects, reach)
  BY ReachSteps
<1> DEFINE Good == {d \in Nat : d + 1 <= Depth => \A x : Like(x) /\ Len(x) = d + 2 => x \in reach[d + 1]}
<1>2. Depth \in Nat /\ Depth = Len(Types) + 2 /\ Len(Types) \in Nat
  BY DepthFacts, TypeFacts DEF Depth
<1>3. 0 \in Good
  <2>1. reach[1] = Kids(h, objects)
    <3>1. 1 \in 1 .. Depth /\ 1 - 1 = 0
      BY <1>2
    <3>2. reach[1] = Kids(h, reach[1 - 1]) /\ reach[0] = objects
      BY <1>1, <3>1 DEF IsReach
    <3> QED
      BY <3>1, <3>2
  <2>2. Tops(h, objects) \subseteq reach[1]
    BY <2>1 DEF Tops, Kids
  <2>3. ASSUME NEW x, Like(x), Len(x) = 2 PROVE x \in reach[1]
    <3>1. x = Top(x)
      BY <2>3, HeapNames, TopNames
    <3>2. Top(x) = Top(o)
      BY <2>3 DEF Top
    <3> QED
      BY <2>2, <3>1, <3>2
  <2>4. 0 \in Nat /\ 0 + 1 = 1 /\ 0 + 2 = 2
    OBVIOUS
  <2> HIDE DEF Like
  <2> QED
    BY <2>3, <2>4
<1>4. ASSUME NEW d \in Nat, d \in Good PROVE d + 1 \in Good
  <2>1. ASSUME d + 2 <= Depth, NEW x, Like(x), Len(x) = d + 3 PROVE x \in reach[d + 2]
    <3>1. PICK a \in DOMAIN h : ~Loose(a) /\ x \in KidsOf(h, a) /\ Len(a) \in Nat /\ Len(x) = Len(a) + 1 /\ a[1] = x[1] /\ a[2] = x[2]
      <4>1. Len(x) >= 3
        BY <2>1
      <4> QED
        BY <2>1, <4>1, HangsOn
    <3>2. Len(a) = d + 2 /\ d + 1 <= Depth
      BY <1>2, <2>1, <3>1
    <3>3. Like(a)
      BY <2>1, <3>1
    <3> HIDE DEF Like
    <3>4. a \in reach[d + 1]
      BY <1>4, <3>2, <3>3
    <3>5. d + 2 \in 1 .. Depth /\ (d + 2) - 1 = d + 1
      BY <1>2, <2>1
    <3>6. reach[d + 2] = Kids(h, reach[d + 1])
      <4>1. reach[d + 2] = Kids(h, reach[(d + 2) - 1])
        BY <1>1, <3>5 DEF IsReach
      <4> QED
        BY <3>5, <4>1
    <3> QED
      BY <3>1, <3>4, <3>6 DEF Kids
  <2>2. d + 1 \in Nat /\ (d + 1) + 1 = d + 2 /\ (d + 1) + 2 = d + 3
    OBVIOUS
  <2> HIDE DEF Like
  <2> QED
    BY <2>1, <2>2
<1> HIDE DEF Good
<1>5. Nat \subseteq Good
  BY <1>3, <1>4, SetInduction
<1>6. Len(o) \in Nat /\ Len(o) <= Len(Types) + 2
  <2>1. Len(o) \in Nat
    BY HeapNames
  <2>2. CASE Len(o) >= 3
    BY <2>1, <2>2, HangsOn
  <2> QED
    BY <1>2, <2>1, <2>2
<1>7. Len(o) - 2 \in Nat /\ (Len(o) - 2) + 1 <= Depth /\ Len(o) = (Len(o) - 2) + 2 /\ (Len(o) - 2) + 1 \in 0 .. Depth
  BY <1>2, <1>6
<1>8. o \in reach[(Len(o) - 2) + 1]
  BY <1>5, <1>7 DEF Good
<1>9. reach[(Len(o) - 2) + 1] \subseteq Reach(h, objects)
  BY <1>1, <1>7, LevelsRise
<1> QED
  BY <1>8, <1>9

LEMMA TopLives ==
  ASSUME NEW h, Sound(h), Hangs(h), NEW o \in DOMAIN h, ~Loose(o), Len(o) >= 2
  PROVE  Top(o) \in DOMAIN h
<1> DEFINE Like(x) == x \in DOMAIN h /\ ~Loose(x)
           Good == {d \in Nat : \A x : Like(x) /\ Len(x) = d + 2 => Top(x) \in DOMAIN h}
<1>1. 0 \in Good
  <2>1. ASSUME NEW x, Like(x), Len(x) = 2 PROVE Top(x) \in DOMAIN h
    BY <2>1, HeapNames, TopNames
  <2>2. 0 \in Nat /\ 0 + 2 = 2
    OBVIOUS
  <2> HIDE DEF Like
  <2> QED
    BY <2>1, <2>2
<1>2. ASSUME NEW d \in Nat, d \in Good PROVE d + 1 \in Good
  <2>1. ASSUME NEW x, Like(x), Len(x) = d + 3 PROVE Top(x) \in DOMAIN h
    <3>1. PICK a \in DOMAIN h : ~Loose(a) /\ Len(a) \in Nat /\ Len(x) = Len(a) + 1 /\ a[1] = x[1] /\ a[2] = x[2]
      <4>1. Len(x) >= 3
        BY <2>1
      <4> QED
        BY <2>1, <4>1, HangsOn
    <3>2. Len(a) = d + 2 /\ Top(a) = Top(x) /\ Like(a)
      BY <2>1, <3>1 DEF Top
    <3> HIDE DEF Like
    <3> QED
      BY <1>2, <3>2
  <2>2. d + 1 \in Nat /\ (d + 1) + 2 = d + 3
    OBVIOUS
  <2> HIDE DEF Like
  <2> QED
    BY <2>1, <2>2
<1> HIDE DEF Good
<1>3. Nat \subseteq Good
  BY <1>1, <1>2, SetInduction
<1>4. Len(o) - 2 \in Nat /\ Len(o) = (Len(o) - 2) + 2
  BY HeapNames
<1> QED
  BY <1>3, <1>4 DEF Good

(* What hangs somewhere is no kid of a VectorStruct's objects.             *)
LEMMA TightOwner ==
  ASSUME NEW h, Sound(h), Hangs(h), NEW x, NEW y \in KidsOf(h, x), y \in DOMAIN h, ~Loose(y)
  PROVE  ~Loose(x)
<1> SUFFICES ASSUME Loose(x) PROVE FALSE
  OBVIOUS
<1>1. /\ x \in DOMAIN h /\ x \in Paths /\ Len(x) \in Nat /\ Len(y) = Len(x) + 1 /\ y[1] = x[1]
      /\ ~Copied(x) => \A i \in 1 .. Len(x) : y[i] = x[i]
  BY KidFacts
<1>2. Len(x) >= 2 /\ x[1] # 0 /\ x[2] = 3 /\ 2 \in 1 .. Len(x)
  BY <1>1 DEF Loose
<1>3. CASE ~Copied(x)
  BY <1>1, <1>2, <1>3 DEF Loose
<1>4. CASE Copied(x)
  <2>1. Len(y) >= 3
    BY <1>1, <1>2
  <2>2. PICK a \in DOMAIN h : ~Loose(a) /\ y \in KidsOf(h, a)
    BY <2>1 DEF Hangs
  <2>3. a = x
    BY <2>2, OneOwner
  <2> QED
    BY <2>2, <2>3
<1> QED
  BY <1>3, <1>4

(* Only from the top of its name, an object is reached.                    *)
LEMMA ReachedUp ==
  ASSUME NEW h, Sound(h), Hangs(h), NEW objects,
         \A r \in objects : r \in Paths /\ (Len(r) = 1 \/ Len(r) = 2 \/ Loose(r)),
         NEW o \in Reach(h, objects), o \in DOMAIN h, ~Loose(o)
  PROVE  o \in objects \/ (Len(o) >= 2 /\ Top(o) \in Tops(h, objects))
<1> DEFINE Led(x) == x \in objects \/ (Len(x) >= 2 /\ Top(x) \in Tops(h, objects))
           C == {x \in objects \cup UNION {KidsOf(h, z) : z \in DOMAIN h} : x \in DOMAIN h /\ ~Loose(x) => Led(x)}
<1> HIDE DEF C
<1>1. ASSUME NEW x \in C, NEW y \in KidsOf(h, x) PROVE y \in C
  <2>0. x \in DOMAIN h /\ ~Loose(x) => Led(x)
    BY DEF C
  <2>1. /\ x \in DOMAIN h /\ x \in Paths /\ Len(x) \in Nat /\ Len(x) >= 1 /\ Len(y) = Len(x) + 1 /\ y[1] = x[1]
        /\ ~Copied(x) => \A i \in 1 .. Len(x) : y[i] = x[i]
    BY KidFacts
  <2>2. ASSUME y \in DOMAIN h, ~Loose(y) PROVE Led(y)
    <3>1. ~Loose(x)
      BY <2>2, TightOwner
    <3>2. Led(x) /\ ~Copied(x)
      BY <2>0, <2>1, <3>1 DEF Copied
    <3>3. y \in Paths /\ Len(y) >= 2
      BY <2>1, <2>2, HeapNames
    <3>4. CASE Len(x) = 1
      <4>1. x \in objects /\ Len(y) = 2
        BY <2>1, <3>2, <3>4
      <4>2. Top(y) = y
        BY <3>3, <4>1, TopNames
      <4> QED
        BY <3>3, <4>1, <4>2 DEF Tops
    <3>5. CASE Len(x) >= 2
      <4>1. 2 \in 1 .. Len(x)
        BY <2>1, <3>5
      <4>2. Top(y) = Top(x)
        BY <2>1, <3>2, <4>1 DEF Top
      <4>3. CASE x \in objects
        <5>1. Len(x) = 2
          <6>1. Len(x) = 1 \/ Len(x) = 2
            BY <3>1, <4>3
          <6>2. ~(1 >= 2)
            OBVIOUS
          <6> QED
            BY <3>5, <6>1, <6>2
        <5>2. Top(x) = x
          BY <2>1, <3>5, <5>1, TopNames
        <5> QED
          BY <3>3, <4>2, <4>3, <5>2 DEF Tops
      <4> QED
        BY <3>2, <3>3, <4>2, <4>3
    <3>6. Len(x) = 1 \/ Len(x) >= 2
      <4>1. PICK n \in Nat : n = Len(x)
        BY <2>1
      <4>2. n >= 1
        BY <2>1, <4>1
      <4>3. n = 1 \/ n >= 2
        BY <4>2
      <4> QED
        BY <4>1, <4>3
    <3> HIDE DEF Led
    <3> QED
      BY <3>4, <3>5, <3>6
  <2>3. y \in UNION {KidsOf(h, z) : z \in DOMAIN h}
    BY <2>1
  <2> HIDE DEF Led
  <2> QED
    BY <2>2, <2>3 DEF C
<1>2. objects \subseteq C
  BY DEF C
<1>3. \A x \in C : KidsOf(h, x) \subseteq C
  BY <1>1
<1>4. Reach(h, objects) \subseteq C
  BY <1>2, <1>3, ReachWithin
<1> QED
  BY <1>4 DEF C

LEMMA RootNames ==
  ASSUME Inv, NEW r \in Roots
  PROVE  r \in Paths /\ (Len(r) = 2 \/ (Len(r) = 1 /\ r = Sv /\ pc = "read"))
<1>1. FileInv /\ HandleInv /\ ConvertInv /\ calls \in Nat /\ file \in Files
  BY CallsAssumed DEF Inv, FileInv
<1>2. /\ Sv \in Paths /\ Len(Sv) = 1 /\ Vec \in Paths /\ Len(Vec) = 2 /\ ParVec \in Paths /\ Len(ParVec) = 2
      /\ Vs \in Paths /\ Len(Vs) = 2 /\ Scalar \in Paths /\ Len(Scalar) = 2
  BY <1>1, CallNames
<1>3. CASE r \in SectionValues
  <2>1. PICK v \in Nat : r = <<0, v>>
    BY <1>1, <1>3, FileFacts DEF SectionValues
  <2> QED
    BY <2>1, Names
<1>4. CASE r \in held \cup views
  <2>1. Handle(r)
    BY <1>1, <1>4 DEF HandleInv
  <2>2. PICK c \in 1 .. calls, j \in Nat : r = <<c, j>>
    BY <2>1 DEF Handle
  <2>3. c \in Nat
    BY <1>1, <2>2
  <2> QED
    BY <2>2, <2>3, Names
<1>5. CASE r = Sv /\ pc = "read"
  BY <1>2, <1>5
<1>6. CASE r = Result
  <2>1. r \in {Scalar, ParVec, Vs, Vec}
    BY <1>6 DEF Result
  <2> QED
    BY <1>2, <2>1
<1> QED
  BY <1>3, <1>4, <1>5, <1>6 DEF Roots

(* The name of an object tells whether a root leads to it.                 *)
LEMMA KeptFacts == Inv /\ HangInv => GarbageFact
<1> SUFFICES ASSUME Inv, HangInv, NEW o \in Allocated, ~Loose(o)
             PROVE  o \in Garbage <=> ~Kept(o)
  BY DEF GarbageFact
<1>1. Sound(heap) /\ Hangs(heap) /\ calls \in Nat /\ o \in DOMAIN heap
  BY CallsAssumed DEF Inv, HeapInv, FileInv, HangInv, Allocated
<1>2. o \in Paths /\ Len(o) \in Nat /\ Len(o) >= 1 /\ o[1] \in Nat
  BY <1>1, HeapNames
<1>3. Sv \in Paths /\ Len(Sv) = 1 /\ Sv[1] = calls /\ Sv = <<calls>>
  BY <1>1, CallNames DEF Sv
<1>4. \A r \in Roots : r \in Paths /\ (Len(r) = 2 \/ (Len(r) = 1 /\ r = Sv /\ pc = "read"))
  BY RootNames
<1>5. ASSUME o \in Reach(heap, Roots) PROVE Kept(o)
  <2>1. o \in Roots \/ (Len(o) >= 2 /\ Top(o) \in Tops(heap, Roots))
    BY <1>1, <1>4, <1>5, ReachedUp
  <2>2. CASE o \in Roots /\ Len(o) = 2
    <3>1. Top(o) = o
      BY <1>2, <2>2, TopNames
    <3>2. Len(o) >= 2
      BY <2>2
    <3> QED
      BY <2>2, <3>1, <3>2 DEF Kept
  <2>3. CASE o \in Roots /\ Len(o) # 2
    BY <1>3, <1>4, <2>3 DEF Kept
  <2>4. CASE Len(o) >= 2 /\ Top(o) \in Roots
    BY <2>4 DEF Kept
  <2>5. ASSUME Len(o) >= 2, NEW r \in Roots, Top(o) \in KidsOf(heap, r) PROVE Kept(o)
    <3>1. Len(Top(o)) = 2 /\ Top(o)[1] = o[1]
      BY <1>2, <2>5, TopNames
    <3>2. Len(r) \in Nat /\ Len(Top(o)) = Len(r) + 1 /\ Top(o)[1] = r[1]
      BY <1>1, <2>5, KidFacts
    <3>3. Len(r) # 2
      BY <3>1, <3>2
    <3>4. r = Sv /\ pc = "read"
      BY <1>4, <3>3
    <3> QED
      BY <1>3, <3>1, <3>2, <3>4 DEF Kept
  <2> QED
    BY <2>1, <2>2, <2>3, <2>4, <2>5 DEF Tops
<1>6. ASSUME Kept(o) PROVE o \in Reach(heap, Roots)
  <2>1. CASE Len(o) >= 2 /\ Top(o) \in Roots
    <3>1. Top(o) \in Tops(heap, Roots)
      BY <2>1 DEF Tops
    <3> QED
      BY <1>1, <2>1, <3>1, ReachedDown
  <2>2. CASE pc = "read" /\ o[1] = calls
    <3>1. Sv \in Roots /\ Sv \in Allocated
      BY <2>2 DEF Roots, Inv, ReadingInv
    <3>2. CASE Len(o) = 1
      <4>1. \A i \in 1 .. 1 : i = 1
        OBVIOUS
      <4>2. Len(o) = Len(Sv) /\ \A i \in 1 .. Len(o) : o[i] = Sv[i]
        BY <1>3, <2>2, <3>2, <4>1
      <4>3. o = Sv
        BY <1>2, <1>3, <4>2, SeqEqual DEF Paths
      <4> QED
        BY <3>1, <4>3, ReachTwoSteps
    <3>3. CASE Len(o) >= 2
      <4>1. Top(o) \in DOMAIN heap
        BY <1>1, <3>3, TopLives
      <4>2. Len(Top(o)) = 2 /\ ~Loose(Top(o)) /\ <<Top(o)[1]>> = Sv
        BY <1>2, <1>3, <2>2, <3>3, TopNames
      <4>3. Top(o) \in KidsOf(heap, Sv)
        BY <3>1, <4>1, <4>2 DEF HangInv, OnSweepValue, Allocated
      <4>4. Top(o) \in Tops(heap, Roots)
        BY <3>1, <4>3 DEF Tops
      <4> QED
        BY <1>1, <3>3, <4>4, ReachedDown
    <3>4. Len(o) = 1 \/ Len(o) >= 2
      <4>1. PICK n \in Nat : n = Len(o)
        BY <1>2
      <4>2. n >= 1
        BY <1>2, <4>1
      <4>3. n = 1 \/ n >= 2
        BY <4>2
      <4> QED
        BY <4>1, <4>3
    <3> QED
      BY <3>2, <3>3, <3>4
  <2> QED
    BY <1>6, <2>1, <2>2 DEF Kept
<1> QED
  BY <1>5, <1>6 DEF Garbage

LEMMA KeptAfter == Inv' /\ HangInv' => GarbageFact'
  BY KeptFacts, PTL

-----------------------------------------------------------------------------
(* What frees and makes objects keeps them hung.                           *)

LEMMA FreeHangs ==
  ASSUME NEW h, Sound(h), Hangs(h), NEW objects,
         \A r \in objects : r \in Paths /\ (Len(r) = 1 \/ Len(r) = 2 \/ Loose(r))
  PROVE  Hangs(Without(h, Reach(h, objects)))
<1> DEFINE R == Reach(h, objects)
           g == Without(h, R)
<1>1. DOMAIN g = DOMAIN h \ R /\ \A o \in DOMAIN h \ R : KidsOf(g, o) = KidsOf(h, o)
  BY WithoutFacts
<1>2. ASSUME NEW o \in DOMAIN h, o \notin R, ~Loose(o), Len(o) >= 3
      PROVE  Len(o) <= Len(Types) + 2 /\ \E a \in DOMAIN h \ R : ~Loose(a) /\ o \in KidsOf(h, a)
  <2>1. PICK a \in DOMAIN h : /\ ~Loose(a) /\ o \in KidsOf(h, a) /\ Len(o) <= Len(Types) + 2
                              /\ Len(a) \in Nat /\ Len(a) >= 2 /\ a[1] = o[1] /\ a[2] = o[2]
    BY <1>2, HangsOn
  <2>2. ASSUME a \in R PROVE FALSE
    <3>1. a \in objects \/ (Len(a) >= 2 /\ Top(a) \in Tops(h, objects))
      BY <2>1, <2>2, ReachedUp DEF R
    <3>2. Top(a) \in Tops(h, objects)
      <4>1. CASE a \in objects
        <5>1. Len(a) = 2 /\ a \in Paths
          <6>1. Len(a) = 1 \/ Len(a) = 2
            BY <2>1, <4>1
          <6> QED
            BY <2>1, <4>1, <6>1
        <5>2. Top(a) = a
          BY <2>1, <5>1, TopNames
        <5> QED
          BY <4>1, <5>2 DEF Tops
      <4> QED
        BY <3>1, <4>1
    <3>3. Top(o) = Top(a)
      BY <2>1 DEF Top
    <3>4. Len(o) >= 2
      <4>1. Len(o) \in Nat
        BY HeapNames
      <4> QED
        BY <1>2, <4>1
    <3>5. o \in R
      BY <1>2, <3>2, <3>3, <3>4, ReachedDown DEF R
    <3> QED
      BY <1>2, <3>5
  <2> QED
    BY <2>1, <2>2
<1> HIDE DEF R, g
<1>3. Hangs(g)
  BY <1>1, <1>2 DEF Hangs
<1> QED
  BY <1>3 DEF g, R

LEMMA LooseHangs ==
  ASSUME NEW h, Hangs(h), NEW freed, \A o \in freed : Loose(o)
  PROVE  Hangs(Without(h, freed))
<1> DEFINE g == Without(h, freed)
<1>1. DOMAIN g = DOMAIN h \ freed /\ \A o \in DOMAIN h \ freed : KidsOf(g, o) = KidsOf(h, o)
  BY WithoutFacts
<1> HIDE DEF g
<1>2. Hangs(g)
  BY <1>1 DEF Hangs
<1> QED
  BY <1>2 DEF g

(* New objects that hang on each other or on what is there.                *)
Hung(new, h) ==
  \A x \in DOMAIN new : ~Loose(x) /\ Len(x) >= 3 =>
    /\ Len(x) <= Len(Types) + 2
    /\ \E a : ~Loose(a) /\ (x \in KidsOf(new, a) \/ (a \notin DOMAIN new /\ x \in KidsOf(h, a)))

Covers(new, h) == \A x \in DOMAIN new : KidsOf(h, x) \subseteq KidsOf(new, x)

LEMMA PutHangs ==
  ASSUME NEW h, Hangs(h), NEW new, Hung(new, h), Covers(new, h)
  PROVE  Hangs(Put(new, h))
<1> DEFINE g == Put(new, h)
<1>1. /\ DOMAIN g = DOMAIN new \cup DOMAIN h
      /\ \A o \in DOMAIN new : KidsOf(g, o) = KidsOf(new, o)
      /\ \A o : o \notin DOMAIN new => KidsOf(g, o) = KidsOf(h, o)
  BY DEF Put, KidsOf, IsFcn
<1> HIDE DEF g
<1>2. \A o, a : o \in KidsOf(new, a) => a \in DOMAIN new
  BY DEF KidsOf
<1>3. \A o, a : o \in KidsOf(h, a) => a \in DOMAIN h
  BY DEF KidsOf
<1>4. ASSUME NEW o \in DOMAIN g, ~Loose(o), Len(o) >= 3
      PROVE  Len(o) <= Len(Types) + 2 /\ \E a \in DOMAIN g : ~Loose(a) /\ o \in KidsOf(g, a)
  <2>1. CASE o \in DOMAIN new
    <3>1. Len(o) <= Len(Types) + 2
      BY <1>4, <2>1 DEF Hung
    <3>2. PICK a : ~Loose(a) /\ (o \in KidsOf(new, a) \/ (a \notin DOMAIN new /\ o \in KidsOf(h, a)))
      BY <1>4, <2>1 DEF Hung
    <3>3. a \in DOMAIN g /\ o \in KidsOf(g, a)
      BY <1>1, <1>2, <1>3, <3>2
    <3> QED
      BY <3>1, <3>2, <3>3
  <2>2. CASE o \notin DOMAIN new
    <3>1. Len(o) <= Len(Types) + 2
      BY <1>1, <1>4, <2>2 DEF Hangs
    <3>2. PICK a \in DOMAIN h : ~Loose(a) /\ o \in KidsOf(h, a)
      BY <1>1, <1>4, <2>2 DEF Hangs
    <3>3. o \in KidsOf(g, a)
      BY <1>1, <3>2 DEF Covers
    <3> QED
      BY <1>1, <3>1, <3>2, <3>3
  <2> QED
    BY <2>1, <2>2
<1>5. Hangs(g)
  BY <1>4 DEF Hangs
<1> QED
  BY <1>5 DEF g

(* The objects of a value hang on its first.                               *)
LEMMA MovedHangs ==
  ASSUME NEW t \in TypeIds, NEW f, IsTree(f), Rooted(f), \A q \in DOMAIN f : Len(q) < t,
         NEW p \in Paths, Len(p) \in 2 .. 3, NEW P,
         \A q \in DOMAIN f : p \o q \in DOMAIN P /\ \E a : P[p \o q] = Moved(f[q], p, a),
         NEW q \in DOMAIN f, q # << >>
  PROVE  Len(p \o q) <= Len(Types) + 2 /\ \E b \in DOMAIN P : p \o q \in KidsOf(P, b)
<1>1. q \in Paths
  BY DEF IsTree
<1>2. PICK y \in DOMAIN f : \E m \in DOMAIN f[y].kids : q = f[y].kids[m]
  BY DEF Rooted
<1>3. PICK m \in DOMAIN f[y].kids : q = f[y].kids[m]
  BY <1>2
<1>4. PICK a : p \o y \in DOMAIN P /\ P[p \o y] = Moved(f[y], p, a)
  OBVIOUS
<1>5. m \in DOMAIN P[p \o y].kids /\ P[p \o y].kids[m] = p \o q
  BY <1>3, <1>4 DEF Moved, Cell
<1>6. p \o q \in KidsOf(P, p \o y)
  BY <1>4, <1>5, KidsAre
<1>7. Len(p \o q) <= Len(Types) + 2
  <2>1. Len(p) \in Nat /\ Len(q) \in Nat /\ Len(p \o q) = Len(p) + Len(q)
    BY <1>1 DEF Paths
  <2>2. t \in Nat /\ t <= Len(Types) /\ Len(Types) \in Nat
    BY TypeFacts
  <2>3. PICK i \in Nat : i = Len(p)
    BY <2>1
  <2>4. PICK j \in Nat : j = Len(q)
    BY <2>1
  <2>5. i <= 3 /\ j < t /\ Len(p \o q) = i + j
    <3>1. i \in 2 .. 3
      BY <2>3
    <3>2. i <= 3
      BY <3>1
    <3>3. Len(q) < t
      OBVIOUS
    <3>4. j < t
      BY <2>4, <3>3
    <3> QED
      BY <2>1, <2>3, <2>4, <3>2, <3>4
  <2>6. i + j <= Len(Types) + 2
    BY <2>2, <2>5
  <2> QED
    BY <2>5, <2>6
<1> QED
  BY <1>4, <1>6, <1>7

LEMMA PlacedHangs ==
  ASSUME NEW t \in TypeIds, NEW f, IsTree(f), Rooted(f), \A q \in DOMAIN f : Len(q) < t,
         NEW p \in Paths, Len(p) \in 2 .. 3, NEW a \in Nat, NEW x \in DOMAIN Placed(f, p, a), x # p
  PROVE  Len(x) <= Len(Types) + 2 /\ \E b \in DOMAIN Placed(f, p, a) : x \in KidsOf(Placed(f, p, a), b)
<1>1. PICK P : P = Placed(f, p, a)
  OBVIOUS
<1>2. /\ DOMAIN P = {p \o q : q \in DOMAIN f}
      /\ \A q \in DOMAIN f : P[p \o q] = Moved(f[q], p, a)
  BY <1>1, PlacedCells
<1>3. PICK q \in DOMAIN f : x = p \o q
  BY <1>1, <1>2
<1>4. q # << >>
  BY <1>3 DEF Paths
<1>5. \A r \in DOMAIN f : p \o r \in DOMAIN P /\ \E b : P[p \o r] = Moved(f[r], p, b)
  BY <1>2
<1>6. Len(p \o q) <= Len(Types) + 2 /\ \E b \in DOMAIN P : p \o q \in KidsOf(P, b)
  BY <1>4, <1>5, MovedHangs
<1> QED
  BY <1>1, <1>3, <1>6

LEMMA WithoutOn ==
  ASSUME NEW h, OnSweepValue(h), NEW freed
  PROVE  OnSweepValue(Without(h, freed))
<1> DEFINE g == Without(h, freed)
<1>1. DOMAIN g = DOMAIN h \ freed /\ \A o \in DOMAIN h \ freed : KidsOf(g, o) = KidsOf(h, o)
  BY WithoutFacts
<1> HIDE DEF g
<1>2. OnSweepValue(g)
  BY <1>1 DEF OnSweepValue
<1> QED
  BY <1>2 DEF g

(* The new objects are of one call, and its SweepValue leads to its vectors. *)
OnCall(new, h, c) ==
  /\ \A x \in DOMAIN new : x[1] = c
  /\ \A x \in DOMAIN new \cup DOMAIN h :
       x[1] = c /\ Len(x) = 2 /\ ~Loose(x) /\ <<c>> \in DOMAIN new \cup DOMAIN h => x \in KidsOf(Put(new, h), <<c>>)

LEMMA PutOn ==
  ASSUME NEW h, OnSweepValue(h), NEW new, NEW c, OnCall(new, h, c)
  PROVE  OnSweepValue(Put(new, h))
<1> DEFINE g == Put(new, h)
<1>1. /\ DOMAIN g = DOMAIN new \cup DOMAIN h
      /\ \A o : o \notin DOMAIN new => KidsOf(g, o) = KidsOf(h, o)
  BY DEF Put, KidsOf, IsFcn
<1>2. /\ \A x \in DOMAIN new : x[1] = c
      /\ \A x \in DOMAIN new \cup DOMAIN h :
           x[1] = c /\ Len(x) = 2 /\ ~Loose(x) /\ <<c>> \in DOMAIN new \cup DOMAIN h => x \in KidsOf(g, <<c>>)
  BY DEF OnCall
<1> HIDE DEF g
<1>3. ASSUME NEW o \in DOMAIN g, Len(o) = 2, ~Loose(o), <<o[1]>> \in DOMAIN g PROVE o \in KidsOf(g, <<o[1]>>)
  <2>1. CASE o[1] = c
    BY <1>1, <1>2, <1>3, <2>1
  <2>2. CASE o[1] # c
    <3>1. <<o[1]>>[1] = o[1]
      OBVIOUS
    <3>2. o \notin DOMAIN new /\ <<o[1]>> \notin DOMAIN new
      BY <1>2, <2>2, <3>1
    <3>3. o \in KidsOf(h, <<o[1]>>)
      BY <1>1, <1>3, <3>2 DEF OnSweepValue
    <3> QED
      BY <1>1, <3>2, <3>3
  <2> QED
    BY <2>1, <2>2
<1>4. OnSweepValue(g)
  BY <1>3 DEF OnSweepValue
<1> QED
  BY <1>4 DEF g

(* The values of the section are the objects that no call made.            *)
LEMMA ValuesNamed ==
  ASSUME ValueNames, file' = file, \A o \in Allocated' : o[1] = 0 => o \in Allocated,
         pc' # "parse", pc' = "deleted" => pc = "deleted"
  PROVE  ValueNames'
<1>1. ASSUME NEW o \in Allocated', o[1] = 0
      PROVE  ~file.swept /\ pc' # "deleted" /\ Len(o) >= 2 /\ o[2] \in DOMAIN file.signals
  BY <1>1 DEF ValueNames
<1> QED
  BY <1>1 DEF ValueNames

LEMMA InitHang == Init => HangInv
<1> SUFFICES ASSUME Init PROVE HangInv
  OBVIOUS
<1>1. heap = << >> /\ pc # "read"
  BY DEF Init
<1>2. DOMAIN heap = {}
  BY <1>1
<1>3. Allocated = {}
  BY <1>2 DEF Allocated
<1>4. Hangs(heap) /\ OnSweepValue(heap)
  BY <1>2 DEF Hangs, OnSweepValue
<1> QED
  BY <1>1, <1>3, <1>4 DEF HangInv, ValueNames, ReadNames

LEMMA QuietHang ==
  ASSUME Inv, HangInv, \/ ParseThrows \/ Parsed \/ SetInvertStruct \/ ReadThrows
                       \/ \E v \in views : DropArray(v)
                       \/ \E s \in {Param} \cup DOMAIN file.signals : NoValues(s)
  PROVE  HangInv'
<1>1. heap' = heap /\ file' = file /\ pc' \notin {"read", "parse"} /\ (pc' = "deleted" => pc = "deleted")
  BY DEF ParseThrows, Parsed, SetInvertStruct, ReadThrows, DropArray, NoValues, Begin
<1>2. Hangs(heap') /\ OnSweepValue(heap') /\ ValueNames
  BY <1>1 DEF HangInv
<1>3. Allocated' = Allocated
  BY <1>1 DEF Allocated
<1>4. ValueNames'
  BY <1>1, <1>2, <1>3, ValuesNamed
<1> QED
  BY <1>1, <1>2, <1>4 DEF HangInv, ReadNames

LEMMA ParseValueHang == Inv /\ HangInv /\ ParseValue => HangInv'
<1> SUFFICES ASSUME Inv, HangInv, ParseValue PROVE HangInv'
  OBVIOUS
<1>1. FileInv /\ HeapInv /\ HandleInv /\ ParseInv /\ HeapInv' /\ file \in Files
  BY ParseValueInv DEF Inv, FileInv
<1>2. pc = "parse" /\ pc' = pc /\ file' = file
  BY DEF ParseValue
<1>3. PICK v \in DOMAIN file.signals :
        /\ buf = ChunkAt(v)
        /\ heap' = Put(Placed(ReadTree[TypeOf(v)], <<0, v>>, buf + HEADER), heap)
        /\ buf' = buf + HEADER + Taken[TypeOf(v)] + BlockBytes(v, buf + HEADER + Taken[TypeOf(v)])
  BY Zenon DEF ParseValue
<1> DEFINE t == TypeOf(v)
           p == <<0, v>>
           at == buf + HEADER
           new == Placed(ReadTree[t], p, at)
<1>4. v \in Nat /\ t \in TypeIds /\ file.props[v] \in Nat
  BY <1>1, FileFacts
<1>5. p \in Paths /\ Len(p) = 2 /\ p[1] = 0 /\ p[2] = v /\ ~Loose(p)
  BY <1>4, Names DEF Loose
<1>6. at \in Nat /\ buf \in Nat /\ HEADER \in Nat /\ HEADER > 0
  BY <1>1 DEF FileInv, HEADER
<1>7. Taken[t] \in Nat /\ Shape(ReadTree[t], t)
  BY <1>4, ReadFacts
<1>8. IsTree(ReadTree[t]) /\ Grows(ReadTree[t]) /\ Rooted(ReadTree[t]) /\ \A q \in DOMAIN ReadTree[t] : Len(q) < t
  BY <1>7 DEF Shape
<1>9. heap' = Put(new, heap)
  BY <1>3
<1>10. \A x \in DOMAIN new : x # p =>
         Len(x) <= Len(Types) + 2 /\ \E b \in DOMAIN new : x \in KidsOf(new, b)
  <2>1. ASSUME NEW o, o = p PROVE Len(o) \in 2 .. 3
    <3>1. Len(o) = 2
      BY <1>5, <2>1
    <3> QED
      BY <3>1
  <2> QED
    BY <1>4, <1>5, <1>6, <1>8, <2>1, PlacedHangs
<1>11. \A x \in DOMAIN new : x[1] = 0 /\ x[2] = v /\ Len(x) >= 2 /\ ~Loose(x)
  <2>1. DOMAIN new = {p \o q : q \in DOMAIN ReadTree[t]}
    BY <1>5, <1>6, <1>8, PlacedCells, ZenonT(30)
  <2>2. ASSUME NEW q \in DOMAIN ReadTree[t]
        PROVE  (p \o q)[1] = 0 /\ (p \o q)[2] = v /\ Len(p \o q) >= 2
    <3>1. q \in Paths
      BY <1>8 DEF IsTree
    <3>2. Len(p \o q) = 2 + Len(q) /\ Len(q) \in Nat /\ \A i \in 1 .. 2 : (p \o q)[i] = p[i]
      BY <1>5, <3>1, PathFacts
    <3>3. 1 \in 1 .. 2 /\ 2 \in 1 .. 2
      OBVIOUS
    <3> QED
      BY <1>5, <3>2, <3>3
  <2> HIDE DEF new, p
  <2> QED
    BY <2>1, <2>2 DEF Loose
<1> HIDE DEF new, p, at, t
<1>12. \A x \in DOMAIN new : x \notin Allocated
  <2>1. ASSUME NEW x \in DOMAIN new, x \in Allocated PROVE FALSE
    <3>1. ChunkAt(v) < buf
      BY <1>2, <1>11, <2>1 DEF HangInv, ValueNames
    <3> QED
      BY <1>3, <1>6, <3>1
  <2> QED
    BY <2>1
<1>13. Hangs(heap')
  <2>1. Hung(new, heap)
    <3>1. ASSUME NEW x \in DOMAIN new, Len(x) >= 3
          PROVE  Len(x) <= Len(Types) + 2 /\ \E a : ~Loose(a) /\ x \in KidsOf(new, a)
      <4>1. x # p
        <5>1. ~(2 >= 3)
          OBVIOUS
        <5> QED
          BY <1>5, <3>1, <5>1
      <4> QED
        BY <1>10, <1>11, <4>1
    <3> QED
      BY <3>1 DEF Hung
  <2>2. Covers(new, heap)
    <3>1. ASSUME NEW x \in DOMAIN new PROVE KidsOf(heap, x) = {}
      BY <1>12 DEF KidsOf, Allocated
    <3> QED
      BY <3>1 DEF Covers
  <2>3. Hangs(heap)
    BY DEF HangInv
  <2> QED
    BY <1>9, <2>1, <2>2, <2>3, PutHangs
<1>14. DOMAIN heap' = DOMAIN new \cup DOMAIN heap
  BY <1>9, PutFacts
<1>15. OnSweepValue(heap')
  <2>1. << 0 >> \notin DOMAIN heap'
    BY <1>1 DEF HeapInv, Allocated
  <2>2. OnSweepValue(heap)
    BY DEF HangInv
  <2>3. \A x \in DOMAIN new : x[1] = 0
    BY <1>11
  <2>4. ASSUME NEW x \in DOMAIN new \cup DOMAIN heap, << 0 >> \in DOMAIN new \cup DOMAIN heap
        PROVE  x \in KidsOf(Put(new, heap), << 0 >>)
    BY <1>14, <2>1, <2>4
  <2>5. OnCall(new, heap, 0)
    BY <2>3, <2>4 DEF OnCall
  <2> QED
    BY <1>9, <2>2, <2>5, PutOn
<1>16. ValueNames'
  <2>1. buf' \in Int /\ buf < buf'
    <3>1. BlockBytes(v, buf + HEADER + Taken[t]) \in Nat
      BY <1>4 DEF BlockBytes
    <3>2. buf' = buf + HEADER + Taken[t] + BlockBytes(v, buf + HEADER + Taken[t])
      BY <1>3 DEF t
    <3>3. PICK b \in Nat, d \in Nat, e \in Nat : b = BlockBytes(v, buf + HEADER + Taken[t]) /\ d = Taken[t] /\ e = HEADER
      BY <1>6, <1>7, <3>1
    <3> QED
      BY <1>6, <3>2, <3>3
  <2>2. \A o : ChunkAt(o)' = ChunkAt(o)
    BY <1>2 DEF ChunkAt, ValueBytes, TypeOf
  <2>3. ASSUME NEW o \in Allocated', o[1] = 0
        PROVE  ~file.swept /\ Len(o) >= 2 /\ o[2] \in DOMAIN file.signals /\ ChunkAt(o[2]) < buf'
    <3>1. CASE o \in DOMAIN new
      BY <1>1, <1>2, <1>3, <1>11, <2>1, <3>1 DEF ParseInv
    <3>2. CASE o \in Allocated
      <4>1. /\ ~file.swept /\ Len(o) >= 2 /\ o[2] \in DOMAIN file.signals
            /\ ChunkAt(o[2]) < buf
        BY <1>2, <2>3, <3>2 DEF HangInv, ValueNames
      <4>2. ChunkAt(o[2]) \in Nat
        <5>1. o[2] \in 1 .. Len(file.signals) + 1
          BY <1>1, <4>1, FileFacts
        <5> QED
          BY <1>1, <5>1, ChunkFacts
      <4> QED
        BY <1>6, <2>1, <4>1, <4>2
    <3> QED
      BY <1>14, <3>1, <3>2 DEF Allocated
  <2>4. pc' # "deleted"
    BY <1>2
  <2> QED
    BY <1>2, <2>2, <2>3, <2>4 DEF ValueNames
<1> QED
  BY <1>2, <1>13, <1>15, <1>16 DEF HangInv, ReadNames

(* The objects of a vector: its own, and its elements', which lead nowhere. *)
InVector(f, v, x) == x = v \/ (Len(x) = 3 /\ x \in KidsOf(f, v) /\ KidsOf(f, x) = {})

LEMMA VectorShape ==
  ASSUME NEW v \in Paths, Len(v) = 2, NEW n \in Nat, NEW f, IsVector(f, v, n)
  PROVE  /\ KidsOf(f, v) = {Append(v, k) : k \in 1 .. n}
         /\ \A x \in DOMAIN f : x \in Paths /\ x[1] = v[1] /\ x[2] = v[2] /\ InVector(f, v, x)
<1>1. /\ DOMAIN f = {v} \cup {Append(v, k) : k \in 1 .. n}
      /\ f[v].kids = [k \in 1 .. n |-> Append(v, k)]
      /\ \A k \in 1 .. n : f[Append(v, k)].kids = << >>
  BY DEF IsVector
<1>2. KidsOf(f, v) = {Append(v, k) : k \in 1 .. n}
  <2>1. PICK s : s = f[v].kids
    OBVIOUS
  <2>2. DOMAIN s = 1 .. n /\ \A k \in 1 .. n : s[k] = Append(v, k)
    BY <1>1, <2>1
  <2>3. ToSet(s) = {Append(v, k) : k \in 1 .. n}
    BY <2>2 DEF ToSet
  <2> QED
    BY <1>1, <2>1, <2>3 DEF KidsOf
<1>3. ASSUME NEW k \in 1 .. n, NEW x, x = Append(v, k)
      PROVE  x \in Paths /\ x[1] = v[1] /\ x[2] = v[2] /\ Len(x) = 3 /\ x \in KidsOf(f, v) /\ KidsOf(f, x) = {}
  <2>1. k \in Nat
    OBVIOUS
  <2>2. x \in Paths /\ Len(x) = Len(v) + 1 /\ \A i \in 1 .. Len(v) : x[i] = v[i]
    BY <1>3, <2>1, AppendNames
  <2>3. x \in KidsOf(f, v) /\ f[x].kids = << >> /\ x \in DOMAIN f
    BY <1>1, <1>2, <1>3
  <2>4. x[1] = v[1] /\ x[2] = v[2] /\ Len(x) = 3
    <3>1. 1 \in 1 .. 2 /\ 2 \in 1 .. 2
      OBVIOUS
    <3> QED
      BY <2>2, <3>1
  <2>5. KidsOf(f, x) = {}
    <3>1. ToSet(<< >>) = {}
      BY DEF ToSet
    <3> QED
      BY <2>3, <3>1 DEF KidsOf
  <2> QED
    BY <2>2, <2>3, <2>4, <2>5
<1>4. ASSUME NEW x \in DOMAIN f
      PROVE  x \in Paths /\ x[1] = v[1] /\ x[2] = v[2] /\ InVector(f, v, x)
  <2>1. CASE x = v
    BY <2>1 DEF InVector
  <2>2. CASE x # v
    <3>1. PICK k \in 1 .. n : x = Append(v, k)
      BY <1>1, <2>2
    <3> QED
      BY <1>3, <3>1 DEF InVector
  <2> QED
    BY <2>1, <2>2
<1> QED
  BY <1>2, <1>4

LEMMA SomeTypes ==
  ASSUME file \in Files
  PROVE  Len(Types) \in Nat /\ Len(Types) >= 1
<1>1. file.signals \in Seq(TypeIds) /\ file.signals # << >>
  BY FilesAssumed
<1>2. Len(file.signals) \in Nat /\ Len(file.signals) # 0
  BY <1>1, EmptySeq, LenProperties
<1>3. 1 \in 1 .. Len(file.signals)
  BY <1>2
<1>4. file.signals[1] \in TypeIds
  BY <1>1, <1>3, ElementOfSeq
<1> QED
  BY <1>4, TypeFacts

LEMMA BegunNames ==
  ASSUME file \in Files, calls' \in Nat, NEW s
  PROVE  /\ KidsOf(Begun(s), ParVec') = {Append(ParVec', k) : k \in 1 .. (IF file.windowed THEN 0 ELSE NPoints)}
         /\ \A x \in DOMAIN Begun(s) :
              \/ x = ParVec' \/ (s # Param /\ x = Vec')
              \/ /\ Len(x) = 3 /\ KidsOf(Begun(s), x) = {}
                 /\ \E a \in {ParVec', Vec'} : x \in KidsOf(Begun(s), a)
<1> DEFINE n == IF file.windowed THEN 0 ELSE NPoints
           pars == Vector(ParVec', n)
           V == Vector(Vec', NPoints)
<1>1. NPoints \in Nat /\ n \in Nat
  BY WindowFacts
<1>2. /\ ParVec' \in Paths /\ Len(ParVec') = 2 /\ ParVec'[1] = calls' /\ ParVec'[2] = 2 /\ ~Loose(ParVec')
      /\ Vec' \in Paths /\ Len(Vec') = 2 /\ Vec'[1] = calls' /\ Vec'[2] = 1 /\ ~Loose(Vec')
  BY NextNames DEF Loose
<1>3. Begun(s) = IF s = Param THEN pars ELSE Put(V, pars)
  BY DEF Begun
<1>4. PICK size \in Nat : size = n
  BY <1>1
<1>5. IsVector(pars, ParVec', size)
  <2>1. Len(ParVec') >= 2 /\ pars = Vector(ParVec', size)
    BY <1>2, <1>4
  <2> HIDE DEF pars
  <2> QED
    BY <1>2, <2>1, VectorBuilt
<1>6. IsVector(V, Vec', NPoints)
  <2>1. Len(Vec') >= 2
    BY <1>2
  <2> QED
    BY <1>1, <1>2, <2>1, VectorBuilt, Zenon
<1> HIDE DEF pars, V, n
<1>7. /\ KidsOf(pars, ParVec') = {Append(ParVec', k) : k \in 1 .. size}
      /\ \A x \in DOMAIN pars : x[2] = 2 /\ InVector(pars, ParVec', x)
  BY <1>2, <1>5, VectorShape
<1>8. \A x \in DOMAIN V : x[2] = 1 /\ InVector(V, Vec', x)
  BY <1>1, <1>2, <1>6, VectorShape
<1>9. Vec' \in DOMAIN V
  BY <1>6 DEF IsVector
<1>10. CASE s = Param
  <2>1. Begun(s) = pars
    BY <1>3, <1>10
  <2> QED
    BY <1>4, <1>7, <2>1 DEF n, InVector
<1>11. CASE s # Param
  <2>1. Begun(s) = Put(V, pars)
    BY <1>3, <1>11
  <2>2. /\ DOMAIN Begun(s) = DOMAIN V \cup DOMAIN pars
        /\ \A o \in DOMAIN V : KidsOf(Begun(s), o) = KidsOf(V, o)
        /\ \A o : o \notin DOMAIN V => KidsOf(Begun(s), o) = KidsOf(pars, o)
    <3> DEFINE P == Put(V, pars)
    <3>1. /\ DOMAIN P = DOMAIN V \cup DOMAIN pars
          /\ \A o \in DOMAIN V : KidsOf(P, o) = KidsOf(V, o)
          /\ \A o : o \notin DOMAIN V => KidsOf(P, o) = KidsOf(pars, o)
      BY DEF Put, KidsOf, IsFcn
    <3> QED
      BY <2>1, <3>1
  <2>3. ParVec' \notin DOMAIN V /\ \A x \in DOMAIN pars : x \notin DOMAIN V
    <3>1. 1 # 2
      OBVIOUS
    <3> QED
      BY <1>2, <1>7, <1>8, <3>1
  <2>4. KidsOf(Begun(s), ParVec') = {Append(ParVec', k) : k \in 1 .. size}
    BY <1>7, <2>2, <2>3
  <2>5. ASSUME NEW x \in DOMAIN Begun(s)
        PROVE  \/ x = ParVec' \/ x = Vec'
               \/ /\ Len(x) = 3 /\ KidsOf(Begun(s), x) = {}
                  /\ \E a \in {ParVec', Vec'} : x \in KidsOf(Begun(s), a)
    <3>1. CASE x \in DOMAIN V
      BY <1>8, <1>9, <2>2, <3>1 DEF InVector
    <3>2. CASE x \in DOMAIN pars
      BY <1>7, <2>2, <2>3, <3>2 DEF InVector
    <3> QED
      BY <2>2, <3>1, <3>2
  <2> QED
    BY <1>4, <1>11, <2>4, <2>5 DEF n
<1> QED
  BY <1>10, <1>11

LEMMA NewSweepValueHang ==
  ASSUME Inv, HangInv, NEW s \in {Param} \cup DOMAIN file.signals, NEW invert, s = Param => invert = FALSE,
         NewSweepValue(s, invert)
  PROVE  HangInv'
<1>1. FileInv /\ HeapInv /\ file \in Files
  BY DEF Inv, FileInv
<1>2. file.swept /\ Begin(s, invert) /\ pc' = "read" /\ w' = 0 /\ file' = file
  BY DEF NewSweepValue
<1>3. heap' = Put(Begun(s), Put(SvCell(s), heap))
  BY Zenon DEF NewSweepValue, Begun, SvCell
<1>4. /\ calls \in Nat /\ calls' = calls + 1 /\ calls' \in Nat
      /\ query'.signal = s /\ pc = "idle"
      /\ \A o \in Allocated : o[1] # calls'
  BY <1>1, <1>2, NextCall
<1> DEFINE B == Begun(s)
           new == Put(B, SvCell(s))
<1>5. heap' = Put(new, heap)
  BY <1>3, PutPut
<1>6. /\ Fits(new, calls') /\ Sv' \in DOMAIN new /\ DOMAIN B \subseteq DOMAIN new
      /\ \A x \in DOMAIN B : new[x] = B[x]
      /\ \A x \in DOMAIN new : x = Sv' \/ (x \in DOMAIN B /\ Len(x) >= 2)
      /\ Sv' \notin DOMAIN B
      /\ KidsOf(new, Sv') = IF s = Param THEN {ParVec'} ELSE {ParVec', Vec'}
  <2>1. /\ Fits(new, calls') /\ Sv' \in DOMAIN new /\ DOMAIN B \subseteq DOMAIN new
        /\ \A x \in DOMAIN B : new[x] = B[x]
        /\ \A x \in DOMAIN new : x = Sv' \/ Len(x) >= 2
    BY <1>1, <1>4, SweepValueFits
  <2>2. /\ \A x \in DOMAIN new : x = Sv' \/ x \in DOMAIN B
        /\ Sv' \notin DOMAIN B
    BY <1>1, <1>4, SweepValueFits
  <2>3. KidsOf(new, Sv') = IF s = Param THEN {ParVec'} ELSE {ParVec', Vec'}
    BY <1>1, <1>4, SweepValueFits
  <2> HIDE DEF new, B
  <2> QED
    BY <2>1, <2>2, <2>3
<1>7. ParVec' \in DOMAIN B /\ (s # Param => Vec' \in DOMAIN B)
  BY <1>1, <1>4, BegunFacts
<1>8. /\ KidsOf(B, ParVec') = {Append(ParVec', k) : k \in 1 .. (IF file.windowed THEN 0 ELSE NPoints)}
      /\ \A x \in DOMAIN B :
           \/ x = ParVec' \/ (s # Param /\ x = Vec')
           \/ /\ Len(x) = 3 /\ KidsOf(B, x) = {}
              /\ \E a \in {ParVec', Vec'} : x \in KidsOf(B, a)
  BY <1>1, <1>4, BegunNames
<1> HIDE DEF new, B
<1>9. /\ Sv' \in Paths /\ Len(Sv') = 1 /\ Sv'[1] = calls' /\ Sv' = <<calls'>>
      /\ ParVec' \in Paths /\ Len(ParVec') = 2 /\ ~Loose(ParVec')
      /\ Vec' \in Paths /\ Len(Vec') = 2 /\ ~Loose(Vec')
  BY <1>4, NextNames DEF Loose, Sv
<1>10. \A x \in DOMAIN B : KidsOf(new, x) = KidsOf(B, x)
  BY <1>6 DEF KidsOf
<1>11. /\ DOMAIN heap' = DOMAIN new \cup DOMAIN heap
       /\ \A o \in DOMAIN new : KidsOf(heap', o) = KidsOf(new, o)
  BY <1>5, PutFacts
<1>12. \A x \in DOMAIN new : x[1] = calls' /\ x \notin DOMAIN heap
  BY <1>4, <1>6 DEF Fits, Allocated
<1>13. \A a, x : x \in KidsOf(B, a) => a \in DOMAIN B
  BY DEF KidsOf
<1>14. \A x \in DOMAIN new : Len(x) = 1 \/ Len(x) = 2 \/ Len(x) = 3
  BY <1>6, <1>8, <1>9
<1>15. \A x \in DOMAIN new : Len(x) = 3 =>
         /\ x \in DOMAIN B /\ KidsOf(new, x) = {} /\ \E a \in {ParVec', Vec'} : x \in KidsOf(new, a)
  <2>1. ASSUME NEW x \in DOMAIN new, Len(x) = 3
        PROVE  x \in DOMAIN B /\ KidsOf(new, x) = {} /\ \E a \in {ParVec', Vec'} : x \in KidsOf(new, a)
    <3>1. x # Sv' /\ x # ParVec' /\ x # Vec'
      <4>1. ~(1 = 3) /\ ~(2 = 3)
        OBVIOUS
      <4> QED
        BY <1>9, <2>1, <4>1
    <3>2. x \in DOMAIN B
      BY <1>6, <3>1
    <3>3. KidsOf(B, x) = {} /\ \E a \in {ParVec', Vec'} : x \in KidsOf(B, a)
      BY <1>8, <3>1, <3>2
    <3> QED
      BY <1>10, <1>13, <3>2, <3>3
  <2> QED
    BY <2>1
<1>16. Hangs(heap')
  <2>1. Hung(new, heap)
    <3>1. ASSUME NEW x \in DOMAIN new, Len(x) >= 3
          PROVE  Len(x) <= Len(Types) + 2 /\ \E a : ~Loose(a) /\ x \in KidsOf(new, a)
      <4>1. Len(x) = 3
        <5>1. ~(1 >= 3) /\ ~(2 >= 3)
          OBVIOUS
        <5> QED
          BY <1>14, <3>1, <5>1
      <4>2. Len(Types) \in Nat /\ Len(Types) >= 1
        BY <1>1, SomeTypes
      <4>3. 3 <= Len(Types) + 2
        BY <4>2
      <4> QED
        BY <1>9, <1>15, <4>1, <4>3
    <3> QED
      BY <3>1 DEF Hung
  <2>2. Covers(new, heap)
    <3>1. ASSUME NEW x \in DOMAIN new PROVE KidsOf(heap, x) = {}
      BY <1>12 DEF KidsOf
    <3> QED
      BY <3>1 DEF Covers
  <2>3. Hangs(heap)
    BY DEF HangInv
  <2> QED
    BY <1>5, <2>1, <2>2, <2>3, PutHangs
<1>17. OnSweepValue(heap')
  <2>1. OnSweepValue(heap)
    BY DEF HangInv
  <2>2. ASSUME NEW x \in DOMAIN new \cup DOMAIN heap, x[1] = calls', Len(x) = 2
        PROVE  x \in KidsOf(heap', <<calls'>>)
    <3>1. x \in DOMAIN new
      BY <1>4, <2>2 DEF Allocated
    <3>2. x # Sv' /\ ~(Len(x) = 3)
      <4>1. ~(1 = 2) /\ ~(2 = 3)
        OBVIOUS
      <4> QED
        BY <1>9, <2>2, <4>1
    <3>3. x \in DOMAIN B
      BY <1>6, <3>1, <3>2
    <3>4. x = ParVec' \/ (s # Param /\ x = Vec')
      BY <1>8, <3>2, <3>3
    <3> QED
      BY <1>6, <1>9, <1>11, <3>4
  <2>3. OnCall(new, heap, calls')
    BY <1>5, <1>12, <2>2 DEF OnCall
  <2> QED
    BY <1>5, <2>1, <2>3, PutOn
<1>18. ValueNames'
  <2>1. \A o \in Allocated' : o[1] = 0 => o \in Allocated
    <3>1. calls' # 0
      BY <1>4
    <3> QED
      BY <1>11, <1>12, <3>1 DEF Allocated
  <2>2. ValueNames
    BY DEF HangInv
  <2> QED
    BY <1>2, <2>1, <2>2, ValuesNamed
<1>19. ReadNames'
  <2>1. KidsOf(heap, Sv)' = IF query'.signal = Param THEN {ParVec'} ELSE {ParVec', Vec'}
    BY <1>4, <1>6, <1>11
  <2>2. First' = 0
    BY <1>1, <1>2, WindowFacts DEF First
  <2>3. KidsOf(heap, ParVec)' \subseteq {Append(ParVec', k) : k \in 1 .. Room'}
    <3>1. Room' = IF file.windowed THEN 0 ELSE NPoints
      BY <1>2, <2>2 DEF Room, NPoints
    <3>2. KidsOf(heap', ParVec') = KidsOf(B, ParVec')
      BY <1>6, <1>7, <1>10, <1>11
    <3> QED
      BY <1>8, <3>1, <3>2
  <2>4. ASSUME NEW o \in Allocated', Unread(o)' PROVE KidsOf(heap', o) = {}
    <3>1. o[1] = calls' /\ Len(o) >= 3
      BY <2>4 DEF Unread
    <3>2. o \in DOMAIN new
      BY <1>4, <1>11, <3>1 DEF Allocated
    <3>3. Len(o) = 3
      <4>1. ~(1 >= 3) /\ ~(2 >= 3)
        OBVIOUS
      <4> QED
        BY <1>14, <3>1, <3>2, <4>1
    <3> QED
      BY <1>11, <1>15, <3>2, <3>3
  <2> QED
    BY <2>1, <2>3, <2>4 DEF ReadNames
<1> QED
  BY <1>16, <1>17, <1>18, <1>19 DEF HangInv

LEMMA FreshHangs ==
  ASSUME NEW h, Hangs(h), OnSweepValue(h), NEW new, NEW c,
         \A x \in DOMAIN new : x[1] = c /\ x \notin DOMAIN h,
         \A x \in DOMAIN new : Len(x) >= 3 =>
           Len(x) <= Len(Types) + 2 /\ \E a : ~Loose(a) /\ x \in KidsOf(new, a),
         <<c>> \notin DOMAIN new \cup DOMAIN h
  PROVE  Hangs(Put(new, h)) /\ OnSweepValue(Put(new, h))
<1>1. Hung(new, h)
  BY DEF Hung
<1>2. Covers(new, h)
  <2>1. ASSUME NEW x \in DOMAIN new PROVE KidsOf(h, x) = {}
    BY DEF KidsOf
  <2> QED
    BY <2>1 DEF Covers
<1>3. OnCall(new, h, c)
  BY DEF OnCall
<1> QED
  BY <1>1, <1>2, <1>3, PutHangs, PutOn

LEMMA CloneRooted ==
  ASSUME file \in Files, HeapInv, NEW s \in DOMAIN file.signals, IsValue(s)
  PROVE  Rooted(Clone(s)) /\ \A q \in DOMAIN Clone(s) : Len(q) < TypeOf(s)
<1> DEFINE T == ReadTree[TypeOf(s)]
           f == Clone(s)
           from(q) == heap[<<0, s>> \o q].from
<1>1. IsTree(T) /\ Rooted(T) /\ \A q \in DOMAIN T : Len(q) < TypeOf(s)
  BY FileFacts, ReadFacts DEF Shape
<1>2. f = [q \in DOMAIN T |-> [T[q] EXCEPT !.from = from(q)]]
  BY Zenon DEF Clone
<1> HIDE DEF T, f, from
<1>3. DOMAIN f = DOMAIN T
  BY <1>2
<1>4. ASSUME NEW q \in DOMAIN T PROVE f[q].kids = T[q].kids
  <2>1. T[q] \in Cells
    BY <1>1 DEF IsTree
  <2>2. f[q] = [T[q] EXCEPT !.from = from(q)]
    BY <1>2
  <2> QED
    BY <2>1, <2>2 DEF Cells
<1>5. Rooted(f)
  BY <1>1, <1>3, <1>4 DEF Rooted
<1> QED
  BY <1>1, <1>3, <1>5 DEF f

LEMMA GetSignalScalarHang ==
  ASSUME Inv, HangInv, NEW s \in DOMAIN file.signals, GetSignalScalar(s)
  PROVE  HangInv'
<1>1. FileInv /\ HeapInv /\ ParseInv /\ file \in Files
  BY DEF Inv, FileInv
<1>2. ~file.swept /\ Begin(s, FALSE) /\ file' = file /\ pc' \in {"idle", "convert"}
  BY DEF GetSignalScalar
<1>3. heap' = Put(Placed(Clone(s), Scalar', 0), heap)
  BY Zenon DEF GetSignalScalar, Clone
<1>4. /\ calls \in Nat /\ calls' = calls + 1 /\ calls' \in Nat
      /\ pc = "idle" /\ \A o \in Allocated : o[1] # calls' /\ o[1] <= calls
  BY <1>1, <1>2, NextCall
<1> DEFINE new == Placed(Clone(s), Scalar', 0)
<1>5. /\ Scalar' \in Paths /\ Len(Scalar') = 2 /\ Scalar'[1] = calls' /\ ~Loose(Scalar')
  BY <1>4, NextNames DEF Loose
<1>6. IsValue(s)
  BY <1>1, <1>2, <1>4 DEF ParseInv
<1>7. IsTree(Clone(s)) /\ Grows(Clone(s)) /\ << >> \in DOMAIN Clone(s)
  BY <1>1, <1>6, CloneFacts
<1>8. Rooted(Clone(s)) /\ \A q \in DOMAIN Clone(s) : Len(q) < TypeOf(s)
  BY <1>1, <1>6, CloneRooted
<1>9. Fits(new, calls')
  <2>1. Fits(new, Scalar'[1])
    BY <1>5, <1>7, PlacedFits
  <2> QED
    BY <1>5, <2>1
<1>10. \A x \in DOMAIN new : x # Scalar' =>
         Len(x) <= Len(Types) + 2 /\ \E b \in DOMAIN new : x \in KidsOf(new, b)
  <2>1. ASSUME NEW o, o = Scalar' PROVE Len(o) \in 2 .. 3
    <3>1. Len(o) = 2
      BY <1>5, <2>1
    <3> QED
      BY <3>1
  <2>2. TypeOf(s) \in TypeIds /\ 0 \in Nat
    BY <1>1, FileFacts
  <2> QED
    BY <1>5, <1>7, <1>8, <2>1, <2>2, PlacedHangs
<1>11. DOMAIN new = {Scalar' \o q : q \in DOMAIN Clone(s)}
  BY <1>5, <1>7, PlacedCells
<1>12. \A x \in DOMAIN new : Len(x) >= 2
  <2>1. ASSUME NEW q \in DOMAIN Clone(s) PROVE Len(Scalar' \o q) >= 2
    <3>1. q \in Paths
      BY <1>7 DEF IsTree
    <3>2. Len(Scalar' \o q) = Len(Scalar') + Len(q) /\ Len(q) \in Nat
      BY <1>5, <3>1, PathFacts
    <3> QED
      BY <1>5, <3>2
  <2> QED
    BY <1>11, <2>1
<1> HIDE DEF new
<1>13. \A x \in DOMAIN new : x[1] = calls' /\ ~Loose(x) /\ x \notin DOMAIN heap
  BY <1>4, <1>9 DEF Fits, Allocated
<1>14. \A x \in DOMAIN new : Len(x) >= 3 =>
         Len(x) <= Len(Types) + 2 /\ \E a : ~Loose(a) /\ x \in KidsOf(new, a)
  <2>1. ASSUME NEW x \in DOMAIN new, Len(x) >= 3
        PROVE  Len(x) <= Len(Types) + 2 /\ \E a : ~Loose(a) /\ x \in KidsOf(new, a)
    <3>1. x # Scalar'
      <4>1. ~(2 >= 3)
        OBVIOUS
      <4> QED
        BY <1>5, <2>1, <4>1
    <3> QED
      BY <1>10, <1>13, <3>1
  <2> QED
    BY <2>1
<1>15. <<calls'>> \notin DOMAIN new \cup DOMAIN heap
  <2>1. <<calls'>>[1] = calls' /\ ~(Len(<<calls'>>) >= 2)
    OBVIOUS
  <2>2. <<calls'>> \notin DOMAIN new
    BY <1>12, <2>1
  <2>3. <<calls'>> \notin DOMAIN heap
    BY <1>4, <2>1 DEF Allocated
  <2> QED
    BY <2>2, <2>3
<1>16. Hangs(heap') /\ OnSweepValue(heap')
  <2>1. Hangs(heap) /\ OnSweepValue(heap) /\ heap' = Put(new, heap)
    BY <1>3 DEF HangInv, new
  <2> QED
    BY <1>13, <1>14, <1>15, <2>1, FreshHangs
<1>17. ValueNames'
  <2>1. Allocated' = DOMAIN new \cup Allocated
    BY <1>3, PutFacts DEF new, Allocated
  <2>2. \A o \in Allocated' : o[1] = 0 => o \in Allocated
    <3>1. calls' # 0
      BY <1>4
    <3> QED
      BY <1>13, <2>1, <3>1
  <2>3. ValueNames
    BY DEF HangInv
  <2> QED
    BY <1>2, <2>2, <2>3, ValuesNamed
<1> QED
  BY <1>2, <1>16, <1>17 DEF HangInv, ReadNames

(* What ReadWindow makes: the points of the parameter, and elements that   *)
(* hang on the vector or on one another.                                   *)
WindowRoom(n) == IF file.windowed THEN First + n ELSE NPoints

ParamObject(f, x) ==
  x = ParVec \/ (Len(x) = 3 /\ x[2] = 2 /\ x \in KidsOf(f, ParVec) /\ KidsOf(f, x) = {})

ElementObject(f, n, x) ==
  /\ query.signal # Param /\ Len(x) >= 3 /\ x[2] = 1 /\ x[3] > First /\ x[3] <= First + n
  /\ Len(x) <= Len(Types) + 2
  /\ (\E k \in 1 .. n : x = Append(Vec, First + k)) \/ \E b \in DOMAIN f : x \in KidsOf(f, b)

LEMMA WindowNames ==
  ASSUME FileInv, calls \in Nat, w < Len(file.windows), NEW n, n = file.windows[w + 1]
  PROVE  /\ ParVec \in DOMAIN NewWindow(n)
         /\ KidsOf(NewWindow(n), ParVec) = {Append(ParVec, k) : k \in 1 .. WindowRoom(n)}
         /\ \A x \in DOMAIN NewWindow(n) : ParamObject(NewWindow(n), x) \/ ElementObject(NewWindow(n), n, x)
<1> DEFINE t == TypeOf(query.signal)
           pars == Window(n)
           new == NewWindow(n)
<1>1. file \in Files /\ w \in 0 .. Len(file.windows) - 1 /\ w \in 0 .. Len(file.windows)
  BY FileFacts DEF FileInv
<1>2. n \in Nat /\ First \in Nat /\ NPoints \in Nat /\ WindowRoom(n) \in Nat
  BY <1>1, WindowFacts DEF WindowRoom
<1>3. /\ Vec \in Paths /\ Len(Vec) = 2 /\ Vec[1] = calls /\ Vec[2] = 1
      /\ ParVec \in Paths /\ Len(ParVec) = 2 /\ ParVec[1] = calls /\ ParVec[2] = 2
  BY CallNames
<1>4. IsVector(pars, ParVec, WindowRoom(n))
  BY <1>2, ParamsFacts DEF Window, WindowRoom
<1> HIDE DEF pars
<1>5. /\ KidsOf(pars, ParVec) = {Append(ParVec, k) : k \in 1 .. WindowRoom(n)}
      /\ \A x \in DOMAIN pars : x[2] = 2 /\ InVector(pars, ParVec, x)
  <2>1. /\ KidsOf(pars, ParVec) = {Append(ParVec, k) : k \in 1 .. WindowRoom(n)}
        /\ \A x \in DOMAIN pars : x[2] = ParVec[2] /\ InVector(pars, ParVec, x)
    BY <1>2, <1>3, <1>4, VectorShape
  <2> QED
    BY <1>3, <2>1
<1>6. ParVec \in DOMAIN pars
  BY <1>4 DEF IsVector
<1>7. CASE query.signal = Param
  <2>1. new = pars
    BY <1>7 DEF NewWindow, pars
  <2>2. \A x \in DOMAIN pars : ParamObject(pars, x)
    BY <1>5 DEF InVector, ParamObject
  <2> QED
    BY <1>5, <1>6, <2>1, <2>2
<1>8. CASE query.signal # Param
  <2> DEFINE E == Elements(t, n)
  <2>1. t \in TypeIds
    <3>1. query.signal \in DOMAIN file.signals
      BY <1>8 DEF FileInv
    <3> QED
      BY <1>1, <3>1, FileFacts
  <2> HIDE DEF t
  <2>2. IsElements(E, t, n)
    BY <1>2, <2>1, ElementsFacts
  <2>3. new = Put(E, pars)
    BY <1>8 DEF NewWindow, pars, t
  <2> HIDE DEF E, new
  <2>4. IsTree(ReadTree[t]) /\ Rooted(ReadTree[t]) /\ \A q \in DOMAIN ReadTree[t] : q \in Paths /\ Len(q) < t
    BY <2>1, ReadFacts DEF Shape, IsTree
  <2>5. /\ DOMAIN new = DOMAIN E \cup DOMAIN pars
        /\ \A x \in DOMAIN E : KidsOf(new, x) = KidsOf(E, x)
        /\ \A x : x \notin DOMAIN E => KidsOf(new, x) = KidsOf(pars, x)
    BY <2>3 DEF Put, KidsOf
  <2>6. \A x \in DOMAIN E : \E k \in 1 .. n : \E q \in DOMAIN ReadTree[t] : x = Append(Vec, First + k) \o q
    BY <2>2 DEF IsElements
  <2>7. ASSUME NEW x \in DOMAIN E
        PROVE  /\ Len(x) >= 3 /\ x[2] = 1 /\ x[3] > First /\ x[3] <= First + n /\ Len(x) <= Len(Types) + 2
               /\ (\E k \in 1 .. n : x = Append(Vec, First + k)) \/ \E b \in DOMAIN E : x \in KidsOf(E, b)
    <3>1. PICK k \in 1 .. n : \E q \in DOMAIN ReadTree[t] : x = Append(Vec, First + k) \o q
      BY <2>6
    <3>2. PICK q \in DOMAIN ReadTree[t] : x = Append(Vec, First + k) \o q
      BY <3>1
    <3> DEFINE p == Append(Vec, First + k)
    <3>3. k \in Nat /\ First + k \in Nat /\ First + k > First /\ First + k <= First + n
      BY <1>2
    <3>4. p \in Paths /\ Len(p) = 3
      <4>1. p \in Paths /\ Len(p) = Len(Vec) + 1
        BY <1>3, <3>3, AppendNames
      <4> QED
        BY <1>3, <4>1
    <3>5. Len(x) >= 3 /\ x[2] = 1 /\ x[3] = First + k
      BY <1>3, <2>4, <3>2, <3>3, BelowFacts
    <3>6. \A r \in DOMAIN ReadTree[t] : p \o r \in DOMAIN E /\ \E a : E[p \o r] = Moved(ReadTree[t][r], p, a)
      BY <2>2 DEF IsElements
    <3>7. x = p \o q
      BY <3>2
    <3> HIDE DEF p
    <3>8. CASE q = << >>
      <4>1. x = p
        BY <3>4, <3>7, <3>8, PathFacts
      <4>2. Len(Types) \in Nat /\ Len(Types) >= 1
        BY <1>1, SomeTypes
      <4>3. 3 <= Len(Types) + 2
        BY <4>2
      <4>4. Len(x) <= Len(Types) + 2
        BY <3>4, <4>1, <4>3
      <4> QED
        BY <3>3, <3>5, <4>1, <4>4 DEF p
    <3>9. CASE q # << >>
      <4>1. ASSUME NEW o, o = p PROVE Len(o) \in 2 .. 3
        <5>1. Len(o) = 3
          BY <3>4, <4>1
        <5> QED
          BY <5>1
      <4>2. Len(p \o q) <= Len(Types) + 2 /\ \E b \in DOMAIN E : p \o q \in KidsOf(E, b)
        BY <2>1, <2>4, <3>4, <3>6, <3>9, <4>1, MovedHangs
      <4> QED
        BY <3>3, <3>5, <3>7, <4>2
    <3> QED
      BY <3>8, <3>9
  <2>8. \A x \in DOMAIN pars : x \notin DOMAIN E
    <3>1. 1 # 2
      OBVIOUS
    <3> QED
      BY <1>5, <2>7, <3>1
  <2>9. ParVec \in DOMAIN new /\ KidsOf(new, ParVec) = {Append(ParVec, k) : k \in 1 .. WindowRoom(n)}
    BY <1>5, <1>6, <2>5, <2>8
  <2>10. ASSUME NEW x \in DOMAIN new PROVE ParamObject(new, x) \/ ElementObject(new, n, x)
    <3>1. CASE x \in DOMAIN pars
      <4>1. KidsOf(new, x) = KidsOf(pars, x) /\ KidsOf(new, ParVec) = KidsOf(pars, ParVec)
        BY <1>6, <2>5, <2>8, <3>1
      <4>2. ParamObject(new, x)
        BY <1>5, <3>1, <4>1 DEF InVector, ParamObject
      <4> QED
        BY <4>2
    <3>2. CASE x \in DOMAIN E
      <4>1. (\E k \in 1 .. n : x = Append(Vec, First + k)) \/ \E b \in DOMAIN new : x \in KidsOf(new, b)
        BY <2>5, <2>7, <3>2
      <4>2. ElementObject(new, n, x)
        BY <1>8, <2>7, <3>2, <4>1 DEF ElementObject
      <4> QED
        BY <4>2
    <3> QED
      BY <2>5, <3>1, <3>2
  <2> QED
    BY <2>9, <2>10 DEF new
<1> QED
  BY <1>7, <1>8

LEMMA ReadWindowHang == Inv /\ HangInv /\ ReadWindow => HangInv'
<1> SUFFICES ASSUME Inv, HangInv, ReadWindow PROVE HangInv'
  OBVIOUS
<1>1. FileInv /\ HeapInv /\ ReadingInv /\ file \in Files
  BY DEF Inv, FileInv
<1>2. pc = "read" /\ w < Len(file.windows) /\ w' = w + 1 /\ pc' = pc /\ file' = file /\ calls' = calls /\ query' = query
  BY DEF ReadWindow
<1> DEFINE n == file.windows[w + 1]
           new == NewWindow(n)
<1>3. heap' = Put(new, heap)
  BY Zenon DEF ReadWindow, NewWindow, Window
<1>4. calls \in Nat /\ calls >= 1 /\ w \in 0 .. Len(file.windows) - 1 /\ w \in 0 .. Len(file.windows)
  BY <1>1, <1>2, CallsAssumed, FileFacts DEF FileInv, ReadingInv
<1>5. Fits(new, calls) /\ n \in Nat /\ \A x \in DOMAIN new : Len(x) >= 2 /\ x # Vec
  BY <1>1, <1>2, <1>4, WindowMakes
<1>6. /\ ParVec \in DOMAIN new
      /\ KidsOf(new, ParVec) = {Append(ParVec, k) : k \in 1 .. WindowRoom(n)}
      /\ \A x \in DOMAIN new : ParamObject(new, x) \/ ElementObject(new, n, x)
  BY <1>1, <1>2, <1>4, WindowNames
<1>7. /\ First \in Nat /\ NPoints \in Nat /\ First + n <= NPoints /\ First' = First + n
  <2>1. /\ First \in Nat /\ NPoints \in Nat
        /\ Sums(file.windows)[w + 1] = First + file.windows[w + 1]
        /\ First + file.windows[w + 1] <= NPoints
    BY <1>1, <1>4, WindowFacts
  <2> QED
    BY <1>2, <2>1 DEF First
<1> HIDE DEF n, new
<1>8. \A x \in DOMAIN new : x[1] = calls /\ ~Loose(x)
  BY <1>5 DEF Fits
<1>9. /\ Sv \in Paths /\ Len(Sv) = 1 /\ Sv = <<calls>>
      /\ Vec \in Paths /\ Len(Vec) = 2 /\ Vec[1] = calls /\ Vec[2] = 1 /\ ~Loose(Vec)
      /\ ParVec \in Paths /\ Len(ParVec) = 2 /\ ParVec[1] = calls /\ ParVec[2] = 2 /\ ~Loose(ParVec)
  BY <1>4, CallNames DEF Loose, Sv
<1>10. Sv' = Sv /\ ParVec' = ParVec /\ Vec' = Vec /\ NPoints' = NPoints
  BY <1>2 DEF Sv, ParVec, Vec, NPoints
<1>11. Room <= WindowRoom(n) /\ Room \in Nat /\ WindowRoom(n) \in Nat /\ Room' = WindowRoom(n)
  BY <1>2, <1>5, <1>7, <1>10 DEF Room, WindowRoom
<1>12. /\ DOMAIN heap' = DOMAIN new \cup DOMAIN heap
       /\ \A o \in DOMAIN new : KidsOf(heap', o) = KidsOf(new, o)
       /\ \A o : o \notin DOMAIN new => KidsOf(heap', o) = KidsOf(heap, o)
  BY <1>3 DEF Put, KidsOf
<1>13. /\ KidsOf(heap, Sv) = IF query.signal = Param THEN {ParVec} ELSE {ParVec, Vec}
       /\ KidsOf(heap, ParVec) \subseteq {Append(ParVec, k) : k \in 1 .. Room}
       /\ \A o \in Allocated : Unread(o) => KidsOf(heap, o) = {}
  BY <1>2 DEF HangInv, ReadNames
<1>14. Covers(new, heap)
  <2>1. ASSUME NEW x \in DOMAIN new PROVE KidsOf(heap, x) \subseteq KidsOf(new, x)
    <3>1. CASE x = ParVec
      <4>1. {Append(ParVec, k) : k \in 1 .. Room} \subseteq {Append(ParVec, k) : k \in 1 .. WindowRoom(n)}
        BY <1>11
      <4> QED
        BY <1>6, <1>13, <3>1, <4>1
    <3>2. CASE x # ParVec
      <4>1. Unread(x)
        <5>1. CASE ParamObject(new, x)
          <6>1. Len(x) >= 3 /\ x[2] = 2
            BY <3>2, <5>1 DEF ParamObject
          <6> QED
            BY <1>8, <6>1 DEF Unread
        <5>2. CASE ElementObject(new, n, x)
          BY <1>8, <5>2 DEF ElementObject, Unread
        <5> QED
          BY <1>6, <5>1, <5>2
      <4>2. KidsOf(heap, x) = {}
        BY <1>13, <4>1 DEF KidsOf, Allocated
      <4> QED
        BY <4>2
    <3> QED
      BY <3>1, <3>2
  <2> QED
    BY <2>1 DEF Covers
<1>15. Hung(new, heap)
  <2>1. ASSUME NEW x \in DOMAIN new, Len(x) >= 3
        PROVE  /\ Len(x) <= Len(Types) + 2
               /\ \E a : ~Loose(a) /\ (x \in KidsOf(new, a) \/ (a \notin DOMAIN new /\ x \in KidsOf(heap, a)))
    <3>1. CASE ParamObject(new, x)
      <4>1. x # ParVec
        <5>1. ~(2 >= 3)
          OBVIOUS
        <5> QED
          BY <1>9, <2>1, <5>1
      <4>2. Len(x) = 3 /\ x \in KidsOf(new, ParVec)
        BY <3>1, <4>1 DEF ParamObject
      <4>3. Len(Types) \in Nat /\ Len(Types) >= 1
        BY <1>1, SomeTypes
      <4>4. 3 <= Len(Types) + 2
        BY <4>3
      <4> QED
        BY <1>9, <4>2, <4>4
    <3>2. CASE ElementObject(new, n, x)
      <4>1. CASE \E b \in DOMAIN new : x \in KidsOf(new, b)
        BY <1>8, <3>2, <4>1 DEF ElementObject
      <4>2. ASSUME NEW k \in 1 .. n, x = Append(Vec, First + k)
            PROVE  Vec \notin DOMAIN new /\ x \in KidsOf(heap, Vec)
        <5>1. query.signal # Param
          BY <3>2 DEF ElementObject
        <5>2. Vec \in Allocated /\ heap[Vec].kids = [j \in 1 .. NPoints |-> Append(Vec, j)]
          BY <1>1, <1>2, <5>1 DEF ReadingInv
        <5>3. First + k \in 1 .. NPoints
          BY <1>5, <1>7
        <5>4. PICK kids : kids = heap[Vec].kids
          OBVIOUS
        <5>5. First + k \in DOMAIN kids /\ kids[First + k] = x
          BY <4>2, <5>2, <5>3, <5>4
        <5>6. x \in KidsOf(heap, Vec)
          BY <5>2, <5>4, <5>5, KidsAre DEF Allocated
        <5> QED
          BY <1>5, <5>6
      <4> QED
        BY <1>9, <3>2, <4>1, <4>2 DEF ElementObject
    <3> QED
      BY <1>6, <3>1, <3>2
  <2> QED
    BY <2>1 DEF Hung
<1>16. Hangs(heap')
  <2>1. Hangs(heap)
    BY DEF HangInv
  <2> QED
    BY <1>3, <1>14, <1>15, <2>1, PutHangs
<1>17. Sv \notin DOMAIN new
  <2>1. ~(1 >= 2)
    OBVIOUS
  <2> QED
    BY <1>5, <1>9, <2>1
<1>18. OnSweepValue(heap')
  <2>1. OnSweepValue(heap)
    BY DEF HangInv
  <2>2. ASSUME NEW x \in DOMAIN new \cup DOMAIN heap, x[1] = calls, Len(x) = 2, ~Loose(x)
        PROVE  x \in KidsOf(heap', Sv)
    <3>1. Sv \in Allocated /\ ParVec \in KidsOf(heap, Sv)
      BY <1>1, <1>2 DEF ReadingInv
    <3>2. x \in KidsOf(heap, Sv)
      <4>1. CASE x \in DOMAIN heap
        BY <1>9, <2>1, <2>2, <3>1, <4>1 DEF OnSweepValue, Allocated
      <4>2. CASE x \in DOMAIN new
        <5>1. ~(2 >= 3) /\ ~(2 = 3)
          OBVIOUS
        <5>2. x = ParVec
          BY <1>6, <2>2, <4>2, <5>1 DEF ParamObject, ElementObject
        <5> QED
          BY <3>1, <5>2
      <4> QED
        BY <2>2, <4>1, <4>2
    <3> QED
      BY <1>12, <1>17, <3>2
  <2>3. OnCall(new, heap, calls)
    BY <1>3, <1>8, <1>9, <2>2 DEF OnCall
  <2> QED
    BY <1>3, <2>1, <2>3, PutOn
<1>19. ValueNames'
  <2>1. \A o \in Allocated' : o[1] = 0 => o \in Allocated
    <3>1. calls # 0
      BY <1>4
    <3> QED
      BY <1>8, <1>12, <3>1 DEF Allocated
  <2>2. ValueNames
    BY DEF HangInv
  <2> QED
    BY <1>2, <2>1, <2>2, ValuesNamed
<1>20. ReadNames'
  <2>1. KidsOf(heap', Sv) = IF query.signal = Param THEN {ParVec} ELSE {ParVec, Vec}
    BY <1>12, <1>13, <1>17
  <2>2. KidsOf(heap', ParVec) \subseteq {Append(ParVec, k) : k \in 1 .. WindowRoom(n)}
    BY <1>6, <1>12
  <2>3. ASSUME NEW o \in Allocated', o[1] = calls, Len(o) >= 3, o[2] = 2 \/ o[3] > First + n
        PROVE  KidsOf(heap', o) = {}
    <3>1. CASE o \in DOMAIN new
      <4>1. ASSUME ElementObject(new, n, o) PROVE FALSE
        <5>1. o[2] = 1 /\ o[3] <= First + n
          BY <4>1 DEF ElementObject
        <5>2. o[3] > First + n
          BY <2>3, <5>1
        <5>3. o \in Paths
          BY <1>5, <3>1 DEF Fits, IsTree
        <5>4. o[3] \in Nat
          <6>1. Len(o) \in Nat /\ \A i \in 1 .. Len(o) : o[i] \in Nat
            BY <5>3, PathElements
          <6>2. 3 \in 1 .. Len(o)
            BY <2>3, <6>1
          <6> QED
            BY <6>1, <6>2
        <5>5. PICK i \in Nat : i = o[3]
          BY <5>4
        <5> QED
          BY <1>5, <1>7, <5>1, <5>2, <5>5
      <4>2. ParamObject(new, o)
        BY <1>6, <3>1, <4>1
      <4>3. o # ParVec
        <5>1. ~(2 >= 3)
          OBVIOUS
        <5> QED
          BY <1>9, <2>3, <5>1
      <4> QED
        BY <1>12, <3>1, <4>2, <4>3 DEF ParamObject
    <3>2. CASE o \notin DOMAIN new
      <4>1. o \in Allocated
        BY <1>12, <2>3, <3>2 DEF Allocated
      <4>2. o[2] = 2 \/ o[3] > First
        <5>1. CASE o[2] # 2
          <6>1. o \in Paths
            BY <1>1, <4>1 DEF HeapInv, Sound, IsTree, Allocated
          <6>2. Len(o) \in Nat /\ \A i \in 1 .. Len(o) : o[i] \in Nat
            BY <6>1, PathElements
          <6>3. 3 \in 1 .. Len(o)
            BY <2>3, <6>2
          <6>4. PICK i \in Nat : i = o[3]
            BY <6>2, <6>3
          <6>5. i > First + n
            BY <2>3, <5>1, <6>4
          <6>6. i > First
            BY <1>5, <1>7, <6>5
          <6> QED
            BY <6>4, <6>6
        <5> QED
          BY <5>1
      <4>3. Unread(o)
        BY <2>3, <4>2 DEF Unread
      <4> QED
        BY <1>12, <1>13, <3>2, <4>1, <4>3
    <3> QED
      BY <3>1, <3>2
  <2>4. \A o : Unread(o)' <=> o[1] = calls /\ Len(o) >= 3 /\ (o[2] = 2 \/ o[3] > First + n)
    BY <1>2, <1>7 DEF Unread
  <2> QED
    BY <1>2, <1>10, <1>11, <2>1, <2>2, <2>3, <2>4 DEF ReadNames
<1> QED
  BY <1>16, <1>18, <1>19, <1>20 DEF HangInv

(* The destructor of a SweepValue that forgot what it returns.             *)
Forgets(g, v) ==
  /\ DOMAIN g = Allocated /\ KidsOf(g, Sv) = (IF v = ParVec THEN {} ELSE {ParVec})
  /\ \A z : z # Sv => KidsOf(g, z) = KidsOf(heap, z)

LEMMA ReleasedFacts ==
  ASSUME HeapInv, ReadingInv, pc = "read", calls \in Nat, Hangs(heap), NEW v
  PROVE  Sound(Released(v)) /\ Hangs(Released(v)) /\ Forgets(Released(v), v)
<1> DEFINE g == Released(v)
           K == IF v = ParVec THEN << >> ELSE <<ParVec>>
<1>1. /\ Sv \in Allocated /\ ParVec \in KidsOf(heap, Sv) /\ ParVec \in Paths
      /\ Len(Sv) = 1 /\ ~Loose(Sv)
  BY CallNames DEF ReadingInv, Loose
<1>2. Sound(heap) /\ IsFcn(heap) /\ heap[Sv] \in Cells
  BY <1>1 DEF HeapInv, Sound, IsTree, IsFcn, Allocated
<1>3. K \in Seq(Paths) /\ ToSet(K) = IF v = ParVec THEN {} ELSE {ParVec}
  <2>1. << >> \in Seq(Paths) /\ ToSet(<< >>) = {}
    BY DEF ToSet
  <2>2. <<ParVec>> \in Seq(Paths) /\ ToSet(<<ParVec>>) = {ParVec}
    BY <1>1 DEF ToSet
  <2> QED
    BY <2>1, <2>2
<1>4. /\ DOMAIN g = Allocated /\ IsFcn(g) /\ g[Sv].kids = K /\ g[Sv] \in Cells
      /\ \A o \in Allocated : o # Sv => g[o] = heap[o]
  <2>1. g = [heap EXCEPT ![Sv] = [@ EXCEPT !.kids = K]]
    BY Zenon DEF Released
  <2> HIDE DEF g, K
  <2>2. DOMAIN g = Allocated /\ g[Sv] = [heap[Sv] EXCEPT !.kids = K] /\ \A o \in Allocated : o # Sv => g[o] = heap[o]
    BY <1>1, <1>2, <2>1 DEF Allocated, IsFcn
  <2>3. [heap[Sv] EXCEPT !.kids = K].kids = K /\ [heap[Sv] EXCEPT !.kids = K] \in Cells
    BY <1>2, <1>3 DEF Cells
  <2>4. IsFcn(g)
    BY <1>2, <2>1 DEF IsFcn
  <2> QED
    BY <2>2, <2>3, <2>4
<1> HIDE DEF g, K
<1>5. KidsOf(g, Sv) = IF v = ParVec THEN {} ELSE {ParVec}
  BY <1>1, <1>3, <1>4 DEF KidsOf
<1>6. \A z : z # Sv => KidsOf(g, z) = KidsOf(heap, z)
  BY <1>4 DEF KidsOf, Allocated
<1>7. \A z : KidsOf(g, z) \subseteq KidsOf(heap, z)
  <2>1. KidsOf(g, Sv) \subseteq KidsOf(heap, Sv)
    BY <1>1, <1>5
  <2> QED
    BY <1>6, <2>1
<1>8. Sound(g)
  <2>1. IsTree(g)
    BY <1>2, <1>4 DEF IsTree, IsFcn, Sound, Allocated
  <2>2. \A o \in DOMAIN g : Named(g, o)
    BY <1>2, <1>4, <1>7 DEF Sound, Named, Allocated
  <2>3. \A o \in DOMAIN g : ~Loose(o) => KidsOf(g, o) \subseteq DOMAIN g
    BY <1>2, <1>4, <1>7 DEF Sound, Allocated
  <2>4. \A o \in DOMAIN g : Len(o) >= 1 /\ (Copied(o) => Name(o) \notin DOMAIN g)
    BY <1>2, <1>4 DEF Sound, Allocated
  <2> QED
    BY <2>1, <2>2, <2>3, <2>4 DEF Sound
<1>9. Hangs(g)
  <2>1. ASSUME NEW o \in DOMAIN heap, ~Loose(o), Len(o) >= 3
        PROVE  Len(o) <= Len(Types) + 2 /\ \E a \in DOMAIN g : ~Loose(a) /\ o \in KidsOf(g, a)
    <3>1. PICK a \in DOMAIN heap : ~Loose(a) /\ o \in KidsOf(heap, a) /\ Len(o) <= Len(Types) + 2 /\ Len(a) >= 2
      BY <1>2, <2>1, HangsOn
    <3>2. a # Sv
      <4>1. ~(1 >= 2)
        OBVIOUS
      <4> QED
        BY <1>1, <3>1, <4>1
    <3> QED
      BY <1>4, <1>6, <3>1, <3>2 DEF Allocated
  <2> QED
    BY <1>4, <2>1 DEF Hangs, Allocated
<1> QED
  BY <1>4, <1>5, <1>6, <1>8, <1>9 DEF g, Forgets

Reads == IF query.signal = Param THEN ParVec ELSE Vec

(* The objects of the call that the destructor leaves belong to the result. *)
OnlyResult(h) ==
  /\ DOMAIN h \subseteq Allocated /\ Sv \notin DOMAIN h
  /\ \A o \in DOMAIN h : KidsOf(h, o) = KidsOf(heap, o)
  /\ \A o \in DOMAIN h : o[1] = calls => ~Loose(o) /\ Len(o) >= 2 /\ Top(o) = Reads

LEMMA DestructorLeaves ==
  ASSUME Inv, HangInv, pc = "read", NEW R, R = Reach(Released(Reads), {Sv})
  PROVE  LET h == Without(heap, R) IN Sound(h) /\ Hangs(h) /\ OnSweepValue(h) /\ OnlyResult(h)
<1> DEFINE h == Without(heap, R)
<1>1. PICK g : g = Released(Reads)
  OBVIOUS
<1>2. HeapInv /\ ReadingInv /\ calls \in Nat /\ calls >= 1 /\ Hangs(heap) /\ OnSweepValue(heap) /\ Sound(heap)
  BY CallsAssumed DEF Inv, FileInv, HeapInv, ReadingInv, HangInv
<1>3. /\ Sv \in Paths /\ Len(Sv) = 1 /\ Sv[1] = calls /\ Sv = <<calls>>
      /\ Vec[2] = 1 /\ ParVec[2] = 2 /\ Vec # ParVec
  <2>1. /\ Sv \in Paths /\ Len(Sv) = 1 /\ Sv[1] = calls /\ Sv = <<calls>> /\ Vec[2] = 1 /\ ParVec[2] = 2
    BY <1>2, CallNames DEF Sv
  <2>2. 1 # 2
    OBVIOUS
  <2> QED
    BY <2>1, <2>2
<1>4. Sound(g) /\ Hangs(g) /\ Forgets(g, Reads)
  BY <1>1, <1>2, ReleasedFacts
<1>5. Frees(heap, {Sv}, R) /\ Sv \in R
  BY <1>2, ReleaseFacts
<1>6. R = Reach(g, {Sv})
  BY <1>1
<1>7. DOMAIN h = DOMAIN heap \ R /\ \A o \in DOMAIN heap \ R : KidsOf(h, o) = KidsOf(heap, o)
  BY WithoutKids
<1>8. Sound(h)
  <2>1. \A x : Sv \notin KidsOf(heap, x)
    BY <1>2, <1>3, NoOwner
  <2>2. \A x : ~Loose(x) => KidsOf(heap, x) \cap {Sv} = {}
    BY <2>1
  <2> QED
    BY <1>2, <1>5, <2>2, FreeSound
<1>9. Hangs(h)
  <2>1. \A r \in {Sv} : r \in Paths /\ (Len(r) = 1 \/ Len(r) = 2 \/ Loose(r))
    BY <1>3
  <2>2. Hangs(Without(g, R))
    BY <1>4, <1>6, <2>1, FreeHangs
  <2>3. /\ DOMAIN Without(g, R) = DOMAIN g \ R
        /\ \A o \in DOMAIN g \ R : KidsOf(Without(g, R), o) = KidsOf(g, o)
    BY WithoutKids
  <2>4. DOMAIN g = DOMAIN heap /\ \A o : o # Sv => KidsOf(g, o) = KidsOf(heap, o)
    BY <1>4 DEF Forgets, Allocated
  <2>5. /\ DOMAIN Without(g, R) = DOMAIN h
        /\ \A o \in DOMAIN h : KidsOf(Without(g, R), o) = KidsOf(h, o)
    BY <1>5, <1>7, <2>3, <2>4
  <2> HIDE DEF h
  <2> QED
    BY <2>2, <2>5 DEF Hangs
<1>10. OnSweepValue(h)
  BY <1>2, WithoutOn
<1> HIDE DEF h
<1>11. ASSUME NEW o \in DOMAIN h, o[1] = calls PROVE ~Loose(o) /\ Len(o) >= 2 /\ Top(o) = Reads
  <2>1. o \in DOMAIN heap /\ o \notin R /\ ~Loose(o)
    BY <1>2, <1>7, <1>11 DEF ReadingInv, Allocated
  <2>2. o \in Paths /\ Len(o) \in Nat /\ Len(o) >= 1
    BY <1>2, <2>1, HeapNames
  <2>3. Len(o) # 1
    <3>1. ASSUME Len(o) = 1 PROVE FALSE
      <4>1. \A i \in 1 .. 1 : i = 1
        OBVIOUS
      <4>2. Len(o) = Len(Sv) /\ \A i \in 1 .. Len(o) : o[i] = Sv[i]
        BY <1>3, <1>11, <3>1, <4>1
      <4>3. o = Sv
        BY <1>3, <2>2, <4>2, SeqEqual DEF Paths
      <4> QED
        BY <1>5, <2>1, <4>3
    <3> QED
      BY <3>1
  <2>4. Len(o) >= 2
    <3>1. PICK n \in Nat : n = Len(o)
      BY <2>2
    <3>2. n >= 1 /\ n # 1
      BY <2>2, <2>3, <3>1
    <3>3. n >= 2
      BY <3>2
    <3> QED
      BY <3>1, <3>3
  <2>5. Top(o) \in DOMAIN heap
    BY <1>2, <2>1, <2>4, TopLives
  <2>6. Len(Top(o)) = 2 /\ ~Loose(Top(o)) /\ <<Top(o)[1]>> = Sv /\ Sv \in DOMAIN heap
    BY <1>2, <1>3, <1>11, <2>1, <2>2, <2>4, TopNames DEF ReadingInv, Allocated
  <2>7. Top(o) \in KidsOf(heap, Sv)
    BY <1>2, <2>5, <2>6 DEF OnSweepValue
  <2>8. KidsOf(heap, Sv) = IF query.signal = Param THEN {ParVec} ELSE {ParVec, Vec}
    BY DEF HangInv, ReadNames
  <2>9. ASSUME Top(o) # Reads PROVE FALSE
    <3>1. Top(o) = ParVec /\ Reads # ParVec
      BY <2>7, <2>8, <2>9 DEF Reads
    <3>2. ParVec \in KidsOf(g, Sv)
      BY <1>4, <3>1 DEF Forgets
    <3>3. Top(o) \in Tops(g, {Sv})
      BY <3>1, <3>2 DEF Tops
    <3>4. o \in DOMAIN g
      BY <1>4, <2>1 DEF Forgets, Allocated
    <3>5. o \in R
      BY <1>4, <1>6, <2>1, <2>4, <3>3, <3>4, ReachedDown
    <3> QED
      BY <2>1, <3>5
  <2> QED
    BY <2>1, <2>4, <2>9
<1>12. OnlyResult(h)
  BY <1>5, <1>7, <1>11 DEF OnlyResult, Allocated
<1> QED
  BY <1>8, <1>9, <1>10, <1>12 DEF h

(* An inversion puts objects of the client's own call, which hang nowhere, *)
(* and deletes the vector.                                                 *)
LEMMA InversionHangs ==
  ASSUME NEW h, Sound(h), Hangs(h), OnSweepValue(h), NEW f, \A x \in DOMAIN f : Loose(x) /\ x \notin DOMAIN h /\ Len(x) >= 2,
         NEW v \in Paths, Len(v) = 2
  PROVE  LET g == Without(Put(f, h), Reach(h, {v})) IN Hangs(g) /\ OnSweepValue(g)
<1> DEFINE R == Reach(h, {v})
           rest == Without(h, R)
           g == Without(Put(f, h), R)
<1>1. Hangs(rest) /\ OnSweepValue(rest)
  BY FreeHangs, WithoutOn
<1>2. DOMAIN rest = DOMAIN h \ R /\ \A o \in DOMAIN h \ R : KidsOf(rest, o) = KidsOf(h, o)
  BY WithoutKids
<1>3. /\ DOMAIN g = (DOMAIN f \cup DOMAIN h) \ R
      /\ \A o \in DOMAIN h \ R : KidsOf(g, o) = KidsOf(h, o)
  <2>1. PICK n : n = Put(f, h)
    OBVIOUS
  <2>2. DOMAIN n = DOMAIN f \cup DOMAIN h /\ \A o : o \notin DOMAIN f => KidsOf(n, o) = KidsOf(h, o)
    BY <2>1 DEF Put, KidsOf
  <2>3. DOMAIN g = DOMAIN n \ R /\ \A o \in DOMAIN n \ R : KidsOf(g, o) = KidsOf(n, o)
    BY <2>1, WithoutKids
  <2> HIDE DEF g, R
  <2> QED
    BY <2>2, <2>3
<1> HIDE DEF g, R, rest
<1>4. \A o \in DOMAIN g : ~Loose(o) => o \in DOMAIN rest
  BY <1>2, <1>3
<1>5. Hangs(g)
  <2>1. ASSUME NEW o \in DOMAIN g, ~Loose(o), Len(o) >= 3
        PROVE  Len(o) <= Len(Types) + 2 /\ \E a \in DOMAIN g : ~Loose(a) /\ o \in KidsOf(g, a)
    <3>1. PICK a \in DOMAIN rest : ~Loose(a) /\ o \in KidsOf(rest, a) /\ Len(o) <= Len(Types) + 2
      BY <1>1, <1>4, <2>1 DEF Hangs
    <3> QED
      BY <1>2, <1>3, <3>1
  <2> QED
    BY <2>1 DEF Hangs
<1>6. OnSweepValue(g)
  <2>1. ASSUME NEW o \in DOMAIN g, Len(o) = 2, ~Loose(o), <<o[1]>> \in DOMAIN g PROVE o \in KidsOf(g, <<o[1]>>)
    <3>1. <<o[1]>> \in DOMAIN rest
      <4>1. ~(Len(<<o[1]>>) >= 2)
        OBVIOUS
      <4>2. ~Loose(<<o[1]>>)
        BY <4>1 DEF Loose
      <4> QED
        BY <1>4, <2>1, <4>2
    <3>2. o \in KidsOf(rest, <<o[1]>>)
      BY <1>1, <1>4, <2>1, <3>1 DEF OnSweepValue
    <3> QED
      BY <1>2, <1>3, <3>1, <3>2
  <2> QED
    BY <2>1 DEF OnSweepValue
<1> QED
  BY <1>5, <1>6 DEF g, R

LEMMA ReturnHang ==
  ASSUME Inv, HangInv, Return
  PROVE  /\ HangInv'
         /\ \A o \in Allocated' : o[1] = calls /\ ~Loose(o) => Len(o) >= 2 /\ Top(o) = Result
         /\ \A o \in Allocated' : o \in Allocated \/ Loose(o)
<1> DEFINE t == TypeOf(query.signal)
           R == Reach(Released(Reads), {Sv})
           h == Without(heap, R)
           F == Reach(h, {Vec})
           f == MemberVectors(h)
<1>1. FileInv /\ HeapInv /\ ReadingInv /\ file.swept /\ file \in Files
  BY DEF Inv, FileInv, ReadingInv, Return
<1>2. pc = "read" /\ file' = file /\ calls' = calls /\ pc' \in {"idle", "convert"}
  BY DEF Return
<1>3. calls \in Nat /\ calls >= 1 /\ NPoints \in Nat
  BY <1>1, <1>2, CallsAssumed, WindowFacts DEF FileInv, ReadingInv
<1>4. heap' = IF Inverts THEN Inverted(h) ELSE h
  BY Zenon DEF Return, Reads
<1>5. Sound(h) /\ Hangs(h) /\ OnSweepValue(h) /\ OnlyResult(h)
  BY <1>2, DestructorLeaves
<1> HIDE DEF h, R
<1>6. CASE ~Inverts
  <2>1. heap' = h
    BY <1>4, <1>6
  <2>2. Result = Reads
    BY <1>1, <1>6 DEF Result, Reads
  <2>3. ValueNames'
    <3>1. \A o \in Allocated' : o \in Allocated
      BY <1>5, <2>1 DEF OnlyResult, Allocated
    <3>2. ValueNames
      BY DEF HangInv
    <3> QED
      BY <1>2, <3>1, <3>2, ValuesNamed
  <2>4. \A o \in Allocated' : o[1] = calls => Len(o) >= 2 /\ Top(o) = Result
    BY <1>5, <2>1, <2>2 DEF OnlyResult, Allocated
  <2>5. \A o \in Allocated' : o \in Allocated
    BY <1>5, <2>1 DEF OnlyResult, Allocated
  <2> QED
    BY <1>2, <1>5, <2>1, <2>3, <2>4, <2>5 DEF HangInv, ReadNames
<1>7. CASE Inverts
  <2>1. heap' = Without(Put(f, h), F)
    BY <1>4, <1>7, Zenon DEF Inverted
  <2>2. query.signal # Param /\ query.signal \in DOMAIN file.signals /\ Reads = Vec
    BY <1>1, <1>7 DEF Inverts, FileInv, Reads
  <2>3. t \in TypeIds
    BY <1>1, <2>2, FileFacts
  <2>4. Vec \in Paths /\ Len(Vec) = 2 /\ Vs \in Paths /\ Len(Vs) = 2 /\ Vs[1] = calls /\ Vs[2] = 3
    BY <1>3, CallNames
  <2>5. \A x \in DOMAIN f : Loose(x) /\ x[1] = calls /\ Len(x) >= 2
    <3>1. IsInversion(f, t)
      BY <1>3, <2>3, InversionNames
    <3>2. Loose(Vs) /\ Len(Vs) >= 2
      BY <1>3, <2>4 DEF Loose
    <3>3. ASSUME NEW m \in Nat
          PROVE  Loose(Append(Vs, m)) /\ Append(Vs, m)[1] = calls /\ Len(Append(Vs, m)) >= 2
      <4>1. << >> \in Paths
        BY DEF Paths
      <4>2. Len(Append(Vs, m)) = Len(Vs) + 1 /\ \A i \in 1 .. Len(Vs) : Append(Vs, m)[i] = Vs[i]
        BY <2>4, <4>1, AppendNames
      <4>3. 1 \in 1 .. 2 /\ 2 \in 1 .. 2
        OBVIOUS
      <4>4. Append(Vs, m)[1] = calls /\ Append(Vs, m)[2] = 3 /\ Len(Append(Vs, m)) >= 2
        BY <2>4, <4>2, <4>3
      <4> QED
        BY <1>3, <4>4 DEF Loose
    <3>4. ASSUME NEW m \in Nat, NEW k \in Nat
          PROVE  Loose(TwoBelow(Vs, m, k)) /\ TwoBelow(Vs, m, k)[1] = calls /\ Len(TwoBelow(Vs, m, k)) >= 2
      <4>1. /\ Len(TwoBelow(Vs, m, k)) = 4 /\ TwoBelow(Vs, m, k)[1] = calls /\ Loose(TwoBelow(Vs, m, k))
        BY <1>3, CopyNames
      <4> QED
        BY <4>1
    <3> HIDE DEF f, t
    <3>5. ASSUME NEW x \in DOMAIN f PROVE Loose(x) /\ x[1] = calls /\ Len(x) >= 2
      <4>1. CASE x = Vs
        BY <2>4, <3>2, <4>1
      <4>2. CASE \E m \in Nat : m \in Members(t) /\ x = Append(Vs, m)
        BY <3>3, <4>2
      <4>3. CASE \E m, k \in Nat : m \in Members(t) /\ k \in 1 .. NPoints /\ x = TwoBelow(Vs, m, k)
        BY <3>4, <4>3
      <4> QED
        BY <3>1, <4>1, <4>2, <4>3 DEF IsInversion
    <3> QED
      BY <3>5
  <2> HIDE DEF f, F, t
  <2>6. \A x \in DOMAIN f : x \notin DOMAIN h
    BY <1>5, <2>5 DEF OnlyResult
  <2>7. Hangs(heap') /\ OnSweepValue(heap')
    BY <1>5, <2>1, <2>4, <2>5, <2>6, InversionHangs DEF F
  <2>8. DOMAIN heap' = (DOMAIN f \cup DOMAIN h) \ F
    BY <2>1 DEF Without, Put
  <2>9. ValueNames'
    <3>1. \A o \in Allocated' : o[1] = 0 => o \in Allocated
      <4>1. calls # 0
        BY <1>3
      <4> QED
        BY <1>5, <2>5, <2>8, <4>1 DEF OnlyResult, Allocated
    <3>2. ValueNames
      BY DEF HangInv
    <3> QED
      BY <1>2, <3>1, <3>2, ValuesNamed
  <2>10. ASSUME NEW o \in Allocated', o[1] = calls, ~Loose(o) PROVE FALSE
    <3>1. o \in DOMAIN h /\ o \notin F
      BY <2>5, <2>8, <2>10 DEF Allocated
    <3>2. Len(o) >= 2 /\ Top(o) = Vec
      BY <1>5, <2>2, <2>10, <3>1 DEF OnlyResult
    <3>3. Top(o) \in Tops(h, {Vec})
      BY <3>2 DEF Tops
    <3>4. o \in F
      BY <1>5, <2>10, <3>1, <3>2, <3>3, ReachedDown DEF F
    <3> QED
      BY <3>1, <3>4
  <2>11. \A o \in Allocated' : o \in Allocated \/ Loose(o)
    BY <1>5, <2>5, <2>8 DEF OnlyResult, Allocated
  <2> QED
    BY <1>2, <2>7, <2>9, <2>10, <2>11 DEF HangInv, ReadNames
<1> QED
  BY <1>6, <1>7

(* The last actions only free.                                             *)
LEMMA FreesHang ==
  ASSUME Inv, HangInv, file' = file, pc' \notin {"read", "parse"},
         NEW objects, heap' = Without(heap, Reach(heap, objects)),
         \A r \in objects : r \in Paths /\ (Len(r) = 1 \/ Len(r) = 2 \/ Loose(r)),
         pc' # "deleted" \/ pc = "deleted" \/ \A o \in Allocated : o[1] = 0 => o \in Reach(heap, objects)
  PROVE  HangInv'
<1>1. Sound(heap) /\ Hangs(heap) /\ OnSweepValue(heap) /\ ValueNames
  BY DEF Inv, HeapInv, HangInv
<1>2. Hangs(heap') /\ OnSweepValue(heap')
  BY <1>1, FreeHangs, WithoutOn
<1>3. Allocated' = Allocated \ Reach(heap, objects)
  BY DEF Allocated, Without
<1>4. ValueNames'
  <2>1. CASE pc' = "deleted" => pc = "deleted"
    BY <1>1, <1>3, <2>1, ValuesNamed
  <2>2. CASE \A o \in Allocated : o[1] = 0 => o \in Reach(heap, objects)
    BY <1>3, <2>2 DEF ValueNames
  <2> QED
    BY <2>1, <2>2
<1> QED
  BY <1>2, <1>4 DEF HangInv, ReadNames

LEMMA ConvertedHang ==
  ASSUME Inv, HangInv, NEW outcome, NEW objects, Converted(outcome, objects),
         \A r \in objects : r \in Paths /\ (Len(r) = 1 \/ Len(r) = 2 \/ Loose(r))
  PROVE  HangInv'
<1>1. file' = file /\ pc' \in {"failed", "idle"} /\ heap' = Without(heap, Reach(heap, objects))
  BY DEF Converted
<1> QED
  BY <1>1, FreesHang

LEMMA NothingReached ==
  ASSUME NEW h
  PROVE  Reach(h, {}) = {}
<1>1. Reach(h, {}) \subseteq {}
  BY ReachWithin
<1> QED
  BY <1>1

(* A value of the section is led to by the section.                        *)
ValuesOwned == \A o \in Allocated : o[1] = 0 => Len(o) >= 2 /\ ~Loose(o) /\ Top(o) \in SectionValues

LEMMA ValuesStay == Inv /\ HangInv => ValuesOwned
<1> SUFFICES ASSUME Inv, HangInv, NEW o \in Allocated, o[1] = 0
             PROVE  Len(o) >= 2 /\ ~Loose(o) /\ Top(o) \in SectionValues
  BY DEF ValuesOwned
<1>1. Sound(heap) /\ Hangs(heap) /\ file \in Files
  BY DEF Inv, HeapInv, FileInv, HangInv
<1>2. ~file.swept /\ pc # "deleted" /\ Len(o) >= 2 /\ o[2] \in DOMAIN file.signals
  BY DEF HangInv, ValueNames
<1>3. ~Loose(o)
  BY DEF Loose
<1>4. Top(o) \in Allocated
  BY <1>1, <1>2, <1>3, TopLives DEF Allocated
<1>5. Top(o) = <<0, o[2]>>
  BY DEF Top
<1> QED
  BY <1>2, <1>3, <1>4, <1>5 DEF SectionValues

LEMMA ConvertScalarHang == Inv /\ HangInv /\ ConvertScalar => HangInv'
<1> SUFFICES ASSUME Inv, HangInv, ConvertScalar PROVE HangInv'
  OBVIOUS
<1>1. PICK outcome : Converted(outcome, {})
  BY DEF ConvertScalar
<1> QED
  BY <1>1, ConvertedHang

LEMMA ConvertSweepHang == Inv /\ HangInv /\ ConvertSweep => HangInv'
<1> SUFFICES ASSUME Inv, HangInv, ConvertSweep PROVE HangInv'
  OBVIOUS
<1>1. PICK outcome : Converted(outcome, {})
  BY DEF ConvertSweep
<1> QED
  BY <1>1, ConvertedHang

LEMMA ConvertVectorHang == Inv /\ HangInv /\ ConvertVector => HangInv'
<1> SUFFICES ASSUME Inv, HangInv, ConvertVector PROVE HangInv'
  OBVIOUS
<1>1. PICK outcome, freed : Converted(outcome, freed) /\ freed \subseteq {Vec}
  BY DEF ConvertVector
<1>2. calls \in Nat
  BY CallsAssumed DEF Inv, FileInv
<1>3. Vec \in Paths /\ Len(Vec) = 2
  BY <1>2, CallNames
<1> QED
  BY <1>1, <1>3, ConvertedHang

LEMMA ConvertVectorStructHang == Inv /\ HangInv /\ ConvertVectorStruct => HangInv'
<1> SUFFICES ASSUME Inv, HangInv, ConvertVectorStruct PROVE HangInv'
  OBVIOUS
<1> DEFINE types == Types[TypeOf(query.signal)].members
<1>1. /\ pc = "convert" /\ Result = Vs
      /\ \E outcome : \E done \in SUBSET DOMAIN types : Converted(outcome, {Append(Vs, m) : m \in done})
  BY DEF ConvertVectorStruct
<1>2. PICK outcome : \E done \in SUBSET DOMAIN types : Converted(outcome, {Append(Vs, m) : m \in done})
  BY <1>1
<1>3. PICK done \in SUBSET DOMAIN types : Converted(outcome, {Append(Vs, m) : m \in done})
  BY <1>2
<1>4. FileInv /\ ConvertInv
  BY DEF Inv
<1>5. calls \in Nat /\ calls >= 1
  BY <1>1, <1>4, CallsAssumed DEF FileInv, ConvertInv
<1>6. Vs \in Paths /\ Len(Vs) = 2 /\ Vs[1] = calls /\ Vs[2] = 3
  BY <1>5, CallNames
<1>7. done \subseteq Nat
  <2>1. query.signal # Param
    <3>1. ParVec[2] # Vs[2]
      BY <1>5, <1>6, CallNames
    <3>2. ~(Scalar = Vs)
      BY <1>5, CallNames
    <3> QED
      BY <1>1, <1>6, <3>1, <3>2 DEF Result
  <2>2. TypeOf(query.signal) \in TypeIds
    BY <1>4, <2>1, FileFacts DEF FileInv
  <2>3. DOMAIN types \subseteq Nat
    BY <2>2, TypeFacts DEF Members
  <2> QED
    BY <2>3
<1>8. ASSUME NEW r \in {Append(Vs, m) : m \in done} PROVE r \in Paths /\ Loose(r)
  <2>1. PICK m \in done : r = Append(Vs, m)
    OBVIOUS
  <2>2. m \in Nat /\ << >> \in Paths
    BY <1>7 DEF Paths
  <2>3. r \in Paths /\ Len(r) = Len(Vs) + 1 /\ \A i \in 1 .. Len(Vs) : r[i] = Vs[i]
    BY <1>6, <2>1, <2>2, AppendNames
  <2>4. 1 \in 1 .. 2 /\ 2 \in 1 .. 2
    OBVIOUS
  <2>5. r[1] = calls /\ r[2] = 3 /\ Len(r) >= 2
    BY <1>6, <2>3, <2>4
  <2> QED
    BY <1>5, <2>3, <2>5 DEF Loose
<1> QED
  BY <1>3, <1>8, ConvertedHang

LEMMA DeleteSetHang == Inv /\ HangInv /\ DeleteSet => HangInv'
<1> SUFFICES ASSUME Inv, HangInv, DeleteSet PROVE HangInv'
  OBVIOUS
<1>1. file' = file /\ pc' = "deleted" /\ heap' = Without(heap, Reach(heap, SectionValues)) /\ pc = "idle"
  BY DEF DeleteSet
<1>2. Sound(heap) /\ Hangs(heap)
  BY DEF Inv, HeapInv, HangInv
<1>3. \A r \in SectionValues : r \in Paths /\ (Len(r) = 1 \/ Len(r) = 2 \/ Loose(r))
  BY RootNames DEF Roots
<1>4. \A o \in Allocated : o[1] = 0 => o \in Reach(heap, SectionValues)
  <2>1. ValuesOwned
    BY ValuesStay
  <2>2. ASSUME NEW o \in Allocated, o[1] = 0 PROVE o \in Reach(heap, SectionValues)
    <3>1. Len(o) >= 2 /\ ~Loose(o) /\ Top(o) \in SectionValues
      BY <2>1, <2>2 DEF ValuesOwned
    <3>2. Top(o) \in Tops(heap, SectionValues)
      BY <3>1 DEF Tops
    <3> QED
      BY <1>2, <3>1, <3>2, ReachedDown DEF Allocated
  <2> QED
    BY <2>2
<1> QED
  BY <1>1, <1>3, <1>4, FreesHang

LEMMA DeleteHang ==
  ASSUME Inv, HangInv, NEW r \in held, Delete(r)
  PROVE  HangInv'
<1>1. file' = file /\ pc' \notin {"read", "parse"} /\ (pc' = "deleted" => pc = "deleted")
  BY DEF Delete
<1>2. Handle(r) /\ calls \in Nat /\ Hangs(heap) /\ OnSweepValue(heap) /\ ValueNames
  BY CallsAssumed DEF Inv, FileInv, HandleInv, HangInv
<1>3. PICK c \in 1 .. calls, j \in Nat : r = <<c, j>>
  BY <1>2 DEF Handle
<1>4. r \in Paths /\ Len(r) = 2 /\ r[1] = c /\ c \in Nat /\ c # 0
  <2>1. c \in Nat /\ c # 0
    BY <1>2
  <2> QED
    BY <1>3, <2>1, Names
<1>5. CASE heap' = heap
  <2>1. Allocated' = Allocated
    BY <1>5 DEF Allocated
  <2>2. ValueNames'
    BY <1>1, <1>2, <2>1, ValuesNamed
  <2> QED
    BY <1>1, <1>2, <1>5, <2>2 DEF HangInv, ReadNames
<1>6. CASE IsVectorStruct(r) /\ heap' = Without(heap, {r})
  <2>1. \A o \in {r} : Loose(o)
    BY <1>4, <1>6 DEF Loose, IsVectorStruct
  <2>2. Hangs(heap') /\ OnSweepValue(heap')
    BY <1>2, <1>6, <2>1, LooseHangs, WithoutOn
  <2>3. Allocated' \subseteq Allocated
    BY <1>6 DEF Allocated, Without
  <2>4. ValueNames'
    BY <1>1, <1>2, <2>3, ValuesNamed
  <2> QED
    BY <1>1, <2>2, <2>4 DEF HangInv, ReadNames
<1>7. CASE heap' = Without(heap, Reach(heap, {r}))
  BY <1>1, <1>4, <1>7, FreesHang
<1> QED
  BY <1>5, <1>6, <1>7 DEF Delete

LEMMA HangStep == Inv /\ HangInv /\ [Next]_vars => HangInv'
<1> SUFFICES ASSUME Inv, HangInv, [Next]_vars PROVE HangInv'
  OBVIOUS
<1>1. CASE UNCHANGED vars
  <2>1. file' = file /\ pc' = pc /\ buf' = buf /\ heap' = heap /\ calls' = calls /\ query' = query /\ w' = w
    BY <1>1 DEF vars
  <2> QED
    BY <2>1 DEF HangInv, ValueNames, ReadNames, Allocated, Unread, Room, First, NPoints, Sv, Vec, ParVec, ChunkAt, ValueBytes, TypeOf
<1>2. ASSUME NEW s \in {Param} \cup DOMAIN file.signals, NEW invert, s = Param => invert = FALSE,
             NewSweepValue(s, invert) \/ NoValues(s)
      PROVE  HangInv'
  BY <1>2, NewSweepValueHang, QuietHang
<1>3. CASE Call
  <2>1. CASE GetSweepValues
    BY <1>2, <2>1 DEF GetSweepValues
  <2>2. ASSUME NEW s \in DOMAIN file.signals, GetSignal(s) \/ GetSignalVector(s) PROVE HangInv'
    <3>1. s # Param
      <4>1. file \in Files
        BY DEF Inv, FileInv
      <4>2. DOMAIN file.signals = 1 .. Len(file.signals)
        BY <4>1, FileFacts
      <4> QED
        BY <4>2 DEF Param
    <3>2. CASE GetSignalSwept(s) \/ GetSignalVector(s)
      BY <1>2, <3>1, <3>2 DEF GetSignalSwept, GetSignalVector
    <3>3. CASE GetSignalScalar(s)
      BY <3>3, GetSignalScalarHang
    <3> QED
      BY <2>2, <3>2, <3>3 DEF GetSignal
  <2> QED
    BY <1>3, <2>1, <2>2 DEF Call
<1>4. CASE ParseValue
  BY <1>4, ParseValueHang
<1>5. CASE ReadWindow
  BY <1>5, ReadWindowHang
<1>6. CASE Return
  BY <1>6, ReturnHang
<1>7. CASE Convert
  BY <1>7, ConvertScalarHang, ConvertSweepHang, ConvertVectorHang, ConvertVectorStructHang DEF Convert
<1>8. CASE DeleteSet
  BY <1>8, DeleteSetHang
<1>9. ASSUME NEW r \in held, Delete(r) PROVE HangInv'
  BY <1>9, DeleteHang
<1>10. CASE ParseThrows \/ Parsed \/ SetInvertStruct \/ ReadThrows \/ \E v \in views : DropArray(v)
  BY <1>10, QuietHang
<1> QED
  BY <1>1, <1>3, <1>4, <1>5, <1>6, <1>7, <1>8, <1>9, <1>10 DEF Next, Parse, Read

-----------------------------------------------------------------------------
(* Who loses an object: what owned it does not any more.                   *)

Owned(o) ==
  \/ Len(o) >= 2 /\ (Top(o) \in held \cup views \/ (pc = "convert" /\ Top(o) = Result))
  \/ pc = "read" /\ o[1] = calls

KeptBy == \A o \in Allocated : o[1] # 0 => (Kept(o) <=> Owned(o))

LEMMA KeptOwned == Inv => KeptBy
<1> SUFFICES ASSUME Inv, NEW o \in Allocated, o[1] # 0 PROVE Kept(o) <=> Owned(o)
  BY DEF KeptBy
<1>1. Sound(heap) /\ calls \in Nat /\ Sv \in Paths /\ Len(Sv) = 1
  <2>1. Sound(heap) /\ calls \in Nat
    BY CallsAssumed DEF Inv, HeapInv, FileInv
  <2> QED
    BY <2>1, CallNames
<1>2. o \in Paths
  BY <1>1, HeapNames DEF Allocated
<1>3. ASSUME Len(o) >= 2 PROVE Top(o) \notin SectionValues /\ Top(o) # Sv
  <2>1. Len(Top(o)) = 2 /\ Top(o)[1] = o[1]
    BY <1>2, <1>3, TopNames
  <2>2. \A v : <<0, v>>[1] = 0
    OBVIOUS
  <2>3. Top(o) \notin SectionValues
    BY <2>1, <2>2 DEF SectionValues
  <2> QED
    BY <1>1, <2>1, <2>3
<1> QED
  BY <1>3 DEF Kept, Owned, Roots

LEMMA OwnedAfter == Inv' => KeptBy'
  BY KeptOwned, PTL

LEMMA ValuesAfter == Inv' /\ HangInv' => ValuesOwned'
  BY ValuesStay, PTL

(* An object that was allocated and owned, or is new, and is not owned now. *)
Lost(o) ==
  /\ o \in Paths /\ o[1] \in Nat /\ o[1] # 0 /\ ~Loose(o) /\ o \in Allocated'
  /\ o \notin Allocated \/ Owned(o)
  /\ ~Owned(o)'

(* The losses that LeaksNamed names.                                       *)
LossNamed(o) ==
  \/ last' \in Threw /\ o[1] = calls
  \/ o[1] > 0 /\ Len(o) > 1 /\ o[2] = 3
  \/ client = "python" /\ o[1] > 0 /\ Len(o) > 1 /\ o[2] = 4
  \/ o \in Reach(heap, views \ views')

LEMMA NewGarbage ==
  ASSUME Inv, HangInv, Inv', HangInv', NEW o \in Garbage' \ Garbage
  PROVE  Lost(o) \/ LossNamed(o)
<1>1. o \in Allocated' /\ Sound(heap')
  BY DEF Garbage, Inv, HeapInv
<1>2. o \in Paths /\ o[1] \in Nat
  BY <1>1, HeapNames DEF Allocated
<1>3. CASE Loose(o)
  <2>1. Len(o) >= 2 /\ o[1] # 0 /\ o[2] = 3
    BY <1>3 DEF Loose
  <2>2. Len(o) \in Nat
    BY <1>2, PathFacts
  <2>3. o[1] > 0 /\ Len(o) > 1
    <3>1. PICK n \in Nat : n = Len(o)
      BY <2>2
    <3>2. n > 1
      BY <2>1, <3>1
    <3> QED
      BY <1>2, <2>1, <3>1, <3>2
  <2> QED
    BY <2>1, <2>3 DEF LossNamed
<1>4. CASE ~Loose(o)
  <2>1. ~Kept(o)'
    <3>1. GarbageFact'
      BY KeptAfter
    <3> QED
      BY <1>1, <1>4, <3>1 DEF GarbageFact
  <2>2. o[1] # 0
    <3>1. ASSUME o[1] = 0 PROVE FALSE
      <4>1. ValuesOwned'
        BY ValuesAfter
      <4>2. Len(o) >= 2 /\ Top(o) \in SectionValues'
        BY <1>1, <3>1, <4>1 DEF ValuesOwned
      <4>3. Top(o) \in Roots'
        BY <4>2 DEF Roots
      <4> QED
        BY <2>1, <4>2, <4>3 DEF Kept
    <3> QED
      BY <3>1
  <2>3. ~Owned(o)'
    <3>1. KeptBy'
      BY OwnedAfter
    <3> QED
      BY <1>1, <2>1, <2>2, <3>1 DEF KeptBy
  <2>4. o \in Allocated => Owned(o)
    <3>1. GarbageFact
      BY KeptFacts
    <3>2. KeptBy
      BY KeptOwned
    <3> QED
      BY <1>4, <2>2, <3>1, <3>2 DEF GarbageFact, KeptBy
  <2> QED
    BY <1>1, <1>2, <1>4, <2>2, <2>3, <2>4 DEF Lost
<1> QED
  BY <1>3, <1>4

(* Nothing is lost by an action that takes nothing from an owner.          *)
LEMMA NothingLost ==
  ASSUME NEW o, Lost(o), pc \notin {"read", "convert"}, held' = held, views' = views
  PROVE  o \notin Allocated
  BY DEF Lost, Owned

LEMMA QuietLosses ==
  ASSUME \/ UNCHANGED vars \/ ParseThrows \/ Parsed \/ SetInvertStruct \/ DeleteSet
         \/ \E s \in {Param} \cup DOMAIN file.signals : NoValues(s),
         NEW o, Lost(o)
  PROVE  FALSE
<1>1. CASE UNCHANGED vars
  <2>1. Owned(o)' <=> Owned(o)
    BY <1>1 DEF vars, Owned, Result, Inverts, Scalar, ParVec, Vs, Vec, TypeOf
  <2>2. Allocated' = Allocated
    BY <1>1 DEF vars, Allocated
  <2> QED
    BY <2>1, <2>2 DEF Lost
<1>2. CASE ~(UNCHANGED vars)
  <2>1. pc \notin {"read", "convert"} /\ held' = held /\ views' = views /\ Allocated' \subseteq Allocated
    BY <1>2 DEF ParseThrows, Parsed, SetInvertStruct, DeleteSet, NoValues, Begin, Allocated, Without
  <2>2. o \notin Allocated
    BY <2>1, NothingLost
  <2> QED
    BY <2>1, <2>2 DEF Lost
<1> QED
  BY <1>1, <1>2

LEMMA ParseValueLosses ==
  ASSUME Inv, ParseValue, NEW o, Lost(o)
  PROVE  FALSE
<1>1. FileInv /\ file \in Files
  BY DEF Inv, FileInv
<1>2. pc = "parse" /\ held' = held /\ views' = views
  BY DEF ParseValue
<1>3. PICK v \in DOMAIN file.signals :
        /\ buf = ChunkAt(v)
        /\ heap' = Put(Placed(ReadTree[TypeOf(v)], <<0, v>>, buf + HEADER), heap)
        /\ buf' = buf + HEADER + Taken[TypeOf(v)] + BlockBytes(v, buf + HEADER + Taken[TypeOf(v)])
  BY Zenon DEF ParseValue
<1> DEFINE t == TypeOf(v)
           p == <<0, v>>
           new == Placed(ReadTree[t], p, buf + HEADER)
<1>4. v \in Nat /\ t \in TypeIds /\ buf + HEADER \in Nat
  BY <1>1, FileFacts DEF FileInv, HEADER
<1>5. p \in Paths /\ Len(p) = 2 /\ p[1] = 0
  BY <1>4, Names
<1>6. IsTree(ReadTree[t])
  BY <1>4, ReadFacts DEF Shape
<1>7. DOMAIN new = {p \o q : q \in DOMAIN ReadTree[t]}
  BY <1>4, <1>5, <1>6, PlacedCells
<1>8. Allocated' = DOMAIN new \cup Allocated
  <2>1. heap' = Put(new, heap)
    BY <1>3
  <2> HIDE DEF new
  <2> QED
    BY <2>1 DEF Allocated, Put
<1>9. o \in DOMAIN new
  <2>1. o \notin Allocated
    BY <1>2, NothingLost
  <2> QED
    BY <1>8, <2>1 DEF Lost
<1>10. PICK q \in DOMAIN ReadTree[t] : o = p \o q
  BY <1>7, <1>9
<1>11. o[1] = p[1]
  <2>1. q \in Paths
    BY <1>6 DEF IsTree
  <2>2. \A i \in 1 .. 2 : (p \o q)[i] = p[i]
    BY <1>5, <2>1, PathFacts
  <2>3. 1 \in 1 .. 2
    OBVIOUS
  <2> QED
    BY <1>10, <2>2, <2>3
<1> QED
  BY <1>5, <1>11 DEF Lost

LEMMA NewSweepValueLosses ==
  ASSUME Inv, NEW s \in {Param} \cup DOMAIN file.signals, NEW invert, NewSweepValue(s, invert), NEW o, Lost(o)
  PROVE  FALSE
<1>1. FileInv /\ HeapInv /\ file \in Files
  BY DEF Inv, FileInv
<1>2. file.swept /\ Begin(s, invert) /\ pc' = "read" /\ held' = held /\ views' = views
  BY DEF NewSweepValue
<1>3. heap' = Put(Begun(s), Put(SvCell(s), heap))
  BY Zenon DEF NewSweepValue, Begun, SvCell
<1>4. calls' \in Nat /\ pc = "idle"
  BY <1>1, <1>2, NextCall
<1>5. \A x \in DOMAIN Put(Begun(s), SvCell(s)) : x[1] = calls'
  <2>1. Fits(Put(Begun(s), SvCell(s)), calls')
    BY <1>1, <1>4, SweepValueFits
  <2> QED
    BY <2>1 DEF Fits
<1>6. o \notin Allocated
  BY <1>2, <1>4, NothingLost
<1>7. o \in DOMAIN Put(Begun(s), SvCell(s))
  <2>1. heap' = Put(Put(Begun(s), SvCell(s)), heap)
    BY <1>3, PutPut
  <2>2. PICK new : new = Put(Begun(s), SvCell(s))
    OBVIOUS
  <2>3. Allocated' = DOMAIN new \cup Allocated
    BY <2>1, <2>2 DEF Put, Allocated
  <2> QED
    BY <1>6, <2>2, <2>3 DEF Lost
<1>8. Owned(o)'
  BY <1>2, <1>5, <1>7 DEF Owned
<1> QED
  BY <1>8 DEF Lost

LEMMA GetSignalScalarLosses ==
  ASSUME Inv, NEW s \in DOMAIN file.signals, GetSignalScalar(s), NEW o, Lost(o)
  PROVE  FALSE
<1>1. FileInv /\ HeapInv /\ ParseInv /\ file \in Files
  BY DEF Inv, FileInv
<1>2. /\ ~file.swept /\ Begin(s, FALSE) /\ file' = file /\ views' = views
      /\ IF client = "cpp" THEN pc' = "idle" /\ held' = held \cup {Scalar'} ELSE pc' = "convert" /\ held' = held
  BY DEF GetSignalScalar
<1>3. heap' = Put(Placed(Clone(s), Scalar', 0), heap)
  BY Zenon DEF GetSignalScalar, Clone
<1>4. calls' \in Nat /\ pc = "idle"
  BY <1>1, <1>2, NextCall
<1>5. Scalar' \in Paths /\ Len(Scalar') = 2 /\ Scalar' = <<calls', 4>>
  BY <1>4, NextNames DEF Scalar
<1>6. IsValue(s)
  BY <1>1, <1>2, <1>4 DEF ParseInv
<1>7. IsTree(Clone(s))
  BY <1>1, <1>6, CloneFacts
<1>8. DOMAIN Placed(Clone(s), Scalar', 0) = {Scalar' \o q : q \in DOMAIN Clone(s)}
  BY <1>5, <1>7, PlacedCells
<1>9. o \in {Scalar' \o q : q \in DOMAIN Clone(s)}
  <2>1. PICK new : new = Placed(Clone(s), Scalar', 0)
    OBVIOUS
  <2>2. Allocated' = DOMAIN new \cup Allocated
    BY <1>3, <2>1 DEF Put, Allocated
  <2>3. o \notin Allocated
    BY <1>2, <1>4 DEF Lost, Owned
  <2> QED
    BY <1>8, <2>1, <2>2, <2>3 DEF Lost
<1>10. PICK q \in DOMAIN Clone(s) : o = Scalar' \o q
  BY <1>9
<1>11. Len(o) >= 2 /\ o[1] = calls' /\ o[2] = 4
  <2>1. q \in Paths
    BY <1>7 DEF IsTree
  <2>2. Len(o) = 2 + Len(q) /\ Len(q) \in Nat /\ \A i \in 1 .. 2 : o[i] = Scalar'[i]
    BY <1>5, <1>10, <2>1, PathFacts
  <2>3. 1 \in 1 .. 2 /\ 2 \in 1 .. 2
    OBVIOUS
  <2> QED
    BY <1>5, <2>2, <2>3
<1>12. Top(o) = Scalar'
  BY <1>5, <1>11 DEF Top
<1>13. Result' = Scalar'
  BY <1>2 DEF Result
<1>14. Owned(o)'
  BY <1>2, <1>11, <1>12, <1>13 DEF Owned
<1> QED
  BY <1>14 DEF Lost

LEMMA ReadWindowLosses ==
  ASSUME Inv, ReadWindow, NEW o, Lost(o)
  PROVE  FALSE
<1>1. FileInv /\ ReadingInv
  BY DEF Inv
<1>2. pc = "read" /\ w < Len(file.windows) /\ pc' = pc /\ calls' = calls /\ held' = held /\ views' = views
  BY DEF ReadWindow
<1>3. heap' = Put(NewWindow(file.windows[w + 1]), heap)
  BY Zenon DEF ReadWindow, NewWindow, Window
<1>4. calls \in Nat
  BY <1>1, CallsAssumed DEF FileInv
<1>5. PICK new : new = NewWindow(file.windows[w + 1])
  OBVIOUS
<1>6. Fits(new, calls)
  BY <1>1, <1>2, <1>4, <1>5, WindowMakes
<1>7. Allocated' = DOMAIN new \cup Allocated
  BY <1>3, <1>5 DEF Put, Allocated
<1>8. ~Owned(o)' /\ o[1] # calls
  BY <1>2 DEF Lost, Owned
<1>9. o \notin DOMAIN new
  BY <1>6, <1>8 DEF Fits
<1>10. Owned(o)
  BY <1>7, <1>9 DEF Lost
<1> QED
  BY <1>2, <1>8, <1>10 DEF Owned

LEMMA ReadThrowsLosses ==
  ASSUME ReadThrows, NEW o, Lost(o)
  PROVE  LossNamed(o)
<1>1. /\ pc = "read" /\ heap' = heap /\ held' = held /\ views' = views
      /\ last' \in {"IncorrectChunk", "out_of_range"}
  BY DEF ReadThrows
<1>2. o \in Allocated
  BY <1>1 DEF Lost, Allocated
<1>3. o[1] = calls
  BY <1>1, <1>2 DEF Lost, Owned
<1> QED
  BY <1>1, <1>3 DEF LossNamed, Threw

LEMMA ReturnLosses ==
  ASSUME Inv, HangInv, Return, NEW o, Lost(o)
  PROVE  FALSE
<1>1. /\ pc = "read" /\ calls' = calls /\ file' = file /\ query' = query /\ views' = views
      /\ IF client = "cpp" THEN pc' = "idle" /\ held' = held \cup {Result} ELSE pc' = "convert" /\ held' = held
  BY DEF Return
<1>2. Result' = Result
  BY <1>1 DEF Result, Inverts, Scalar, ParVec, Vs, Vec, TypeOf
<1>3. /\ o[1] = calls => Len(o) >= 2 /\ Top(o) = Result
      /\ o \in Allocated
  BY ReturnHang DEF Lost
<1>4. Owned(o) /\ ~Owned(o)'
  BY <1>3 DEF Lost
<1>5. CASE o[1] = calls
  BY <1>1, <1>2, <1>3, <1>4, <1>5 DEF Owned
<1>6. CASE o[1] # calls
  BY <1>1, <1>4, <1>6 DEF Owned
<1> QED
  BY <1>5, <1>6

(* A conversion loses at most the result.                                  *)
LEMMA ConvertedLosses ==
  ASSUME pc = "convert", NEW outcome, NEW freed, Converted(outcome, freed), views \subseteq views', NEW o, Lost(o)
  PROVE  /\ o \in Allocated /\ o \notin Reach(heap, freed)
         /\ Len(o) >= 2 /\ Top(o) = Result /\ Top(o) \notin views' /\ last' = outcome
<1>1. held' = held /\ heap' = Without(heap, Reach(heap, freed)) /\ last' = outcome
  BY DEF Converted
<1>2. Allocated' = Allocated \ Reach(heap, freed)
  BY <1>1 DEF Allocated, Without
<1>3. o \in Allocated /\ o \notin Reach(heap, freed) /\ Owned(o) /\ ~Owned(o)'
  BY <1>2 DEF Lost
<1> QED
  BY <1>1, <1>3 DEF Owned

LEMMA ConvertScalarLosses ==
  ASSUME Inv, ConvertScalar, NEW o, Lost(o)
  PROVE  LossNamed(o)
<1>1. pc = "convert" /\ Result = Scalar /\ views' = views /\ \E outcome : Converted(outcome, {})
  BY DEF ConvertScalar
<1>2. PICK outcome : Converted(outcome, {})
  BY <1>1
<1>3. Len(o) >= 2 /\ Top(o) = Scalar
  BY <1>1, <1>2, ConvertedLosses
<1>4. client = "python"
  BY <1>1 DEF Inv, ConvertInv
<1>5. o[2] = 4
  BY <1>3 DEF Top, Scalar
<1>6. o[1] > 0 /\ Len(o) > 1
  <2>1. Len(o) \in Nat
    BY PathFacts DEF Lost
  <2>2. PICK n \in Nat : n = Len(o)
    BY <2>1
  <2>3. n > 1
    BY <1>3, <2>2
  <2> QED
    BY <2>2, <2>3 DEF Lost
<1> QED
  BY <1>4, <1>5, <1>6 DEF LossNamed

LEMMA ConvertSweepLosses ==
  ASSUME Inv, ConvertSweep, NEW o, Lost(o)
  PROVE  LossNamed(o)
<1>1. pc = "convert" /\ Result = ParVec
  BY DEF ConvertSweep
<1>2. CASE NPoints = 0
  <2>1. Converted("out_of_range", {}) /\ views' = views
    BY <1>2 DEF ConvertSweep
  <2>2. Top(o) = ParVec /\ last' = "out_of_range"
    BY <1>1, <2>1, ConvertedLosses
  <2>3. o[1] = calls
    BY <2>2 DEF Top, ParVec
  <2> QED
    BY <2>2, <2>3 DEF LossNamed, Threw
<1>3. CASE NPoints # 0
  <2>1. Converted("array", {}) /\ views' = views \cup {ParVec}
    BY <1>3 DEF ConvertSweep
  <2>2. Top(o) = ParVec /\ Top(o) \notin views'
    BY <1>1, <2>1, ConvertedLosses
  <2> QED
    BY <2>1, <2>2
<1> QED
  BY <1>2, <1>3

LEMMA OutcomeNames ==
  ASSUME NEW t \in TypeIds, NEW v
  PROVE  Outcome(v, t) \in {"array", "no result"} \cup Threw
<1>1. Types[t].kind \in {"int8", "int32", "double", "complex", "struct"}
  BY TypeFacts DEF LeafKinds
<1>2. CASE Dangles(heap, v)
  BY <1>2 DEF Outcome, Threw
<1>3. CASE ~Dangles(heap, v) /\ Types[t].kind \in {"int8", "int32"}
  BY <1>3 DEF Outcome, IsStruct
<1>4. CASE ~Dangles(heap, v) /\ Types[t].kind \in {"double", "complex"}
  BY <1>4 DEF Outcome, IsStruct, Threw
<1>5. CASE ~Dangles(heap, v) /\ Types[t].kind = "struct"
  BY <1>5 DEF Outcome, IsStruct, Threw
<1> QED
  BY <1>1, <1>2, <1>3, <1>4, <1>5

LEMMA ConvertVectorLosses ==
  ASSUME Inv, HangInv, ConvertVector, NEW o, Lost(o)
  PROVE  LossNamed(o)
<1> DEFINE outcome == Outcome(Vec, TypeOf(query.signal))
           freed == IF Deletes(outcome) THEN {Vec} ELSE {}
<1>1. pc = "convert" /\ Result = Vec /\ Converted(outcome, freed) /\ views' = views
  BY DEF ConvertVector
<1>2. Sound(heap) /\ Hangs(heap) /\ FileInv
  BY DEF Inv, HeapInv, HangInv
<1>3. outcome \in {"array", "no result"} \cup Threw
  <2>1. query.signal # Param
    <3>1. ParVec # Vec /\ Scalar # Vec
      <4>1. Vec[2] = 1 /\ ParVec[2] = 2 /\ Scalar[2] = 4
        BY DEF Vec, ParVec, Scalar
      <4> QED
        BY <4>1
    <3> QED
      BY <1>1, <3>1 DEF Result
  <2>2. TypeOf(query.signal) \in TypeIds
    BY <1>2, <2>1, FileFacts DEF FileInv
  <2> QED
    BY <2>2, OutcomeNames
<1> HIDE DEF outcome
<1>4. /\ o \in Allocated /\ o \notin Reach(heap, freed)
      /\ Len(o) >= 2 /\ Top(o) = Vec /\ last' = outcome
  BY <1>1, ConvertedLosses
<1>5. ASSUME Deletes(outcome) PROVE FALSE
  <2>1. Top(o) \in Tops(heap, {Vec})
    BY <1>4 DEF Tops
  <2>2. o \in Reach(heap, {Vec})
    BY <1>2, <1>4, <2>1, ReachedDown DEF Lost, Allocated
  <2> QED
    BY <1>4, <1>5, <2>2
<1>6. last' \in Threw
  BY <1>3, <1>4, <1>5 DEF Deletes
<1>7. o[1] = calls
  BY <1>4 DEF Top, Vec
<1> QED
  BY <1>6, <1>7 DEF LossNamed

LEMMA ConvertVectorStructLosses ==
  ASSUME Inv, ConvertVectorStruct, NEW o, Lost(o)
  PROVE  FALSE
<1>1. /\ pc = "convert" /\ Result = Vs /\ views' = views
      /\ \E outcome, freed : Converted(outcome, freed)
  BY DEF ConvertVectorStruct
<1>2. PICK outcome, freed : Converted(outcome, freed)
  BY <1>1
<1>3. Len(o) >= 2 /\ Top(o) = Vs
  BY <1>1, <1>2, ConvertedLosses
<1>4. o[2] = 3
  BY <1>3 DEF Top, Vs
<1> QED
  BY <1>3, <1>4 DEF Lost, Loose

LEMMA DeleteLosses ==
  ASSUME Inv, HangInv, NEW r \in held, Delete(r), NEW o, Lost(o)
  PROVE  FALSE
<1>1. pc \in {"idle", "deleted"} /\ views' = views /\ Sound(heap) /\ Hangs(heap)
  BY DEF Delete, Inv, HeapInv, HangInv
<1>2. CASE heap' = heap /\ held' = held
  <2>1. o \notin Allocated
    BY <1>1, <1>2, NothingLost
  <2> QED
    BY <1>2, <2>1 DEF Lost, Allocated
<1> DEFINE freed == IF IsVectorStruct(r) THEN {r} ELSE Reach(heap, {r})
<1>3. CASE heap' = Without(heap, freed) /\ held' = held \ {r}
  <2>1. o \in Allocated /\ o \notin freed
    BY <1>3 DEF Lost, Allocated, Without
  <2>2. Owned(o) /\ ~Owned(o)'
    BY <2>1 DEF Lost
  <2>3. Len(o) >= 2 /\ Top(o) = r
    BY <1>1, <1>3, <2>2 DEF Owned
  <2>4. ~IsVectorStruct(r)
    <3>1. ASSUME IsVectorStruct(r) PROVE FALSE
      <4>1. o[2] = 3
        BY <2>3, <3>1 DEF Top, IsVectorStruct
      <4> QED
        BY <2>3, <4>1 DEF Lost, Loose
    <3> QED
      BY <3>1
  <2>5. Top(o) \in Tops(heap, {r})
    BY <2>3 DEF Tops
  <2>6. o \in Reach(heap, {r})
    BY <1>1, <2>1, <2>3, <2>5, ReachedDown DEF Lost, Allocated
  <2> QED
    BY <2>1, <2>4, <2>6
<1> QED
  BY <1>2, <1>3 DEF Delete

LEMMA DropArrayLosses ==
  ASSUME Inv, HangInv, NEW v \in views, DropArray(v), NEW o, Lost(o)
  PROVE  LossNamed(o)
<1>1. pc \in {"idle", "deleted"} /\ heap' = heap /\ held' = held /\ Sound(heap) /\ Hangs(heap)
  BY DEF DropArray, Inv, HeapInv, HangInv
<1>2. o \in Allocated /\ Owned(o) /\ ~Owned(o)'
  BY <1>1 DEF Lost, Allocated
<1>3. Len(o) >= 2 /\ Top(o) \in views \ views'
  BY <1>1, <1>2 DEF Owned
<1>4. Top(o) \in Tops(heap, views \ views')
  BY <1>3 DEF Tops
<1>5. o \in Reach(heap, views \ views')
  BY <1>1, <1>2, <1>3, <1>4, ReachedDown DEF Lost, Allocated
<1> QED
  BY <1>5 DEF LossNamed

LossesNamed == \A o \in Garbage' \ Garbage : LossNamed(o)

LEMMA LossStep == Inv /\ HangInv /\ Inv' /\ HangInv' /\ [Next]_vars => LossesNamed
<1> SUFFICES ASSUME Inv, HangInv, Inv', HangInv', [Next]_vars, NEW o \in Garbage' \ Garbage, Lost(o)
             PROVE  LossNamed(o)
  BY NewGarbage DEF LossesNamed
<1>1. ASSUME NEW s \in {Param} \cup DOMAIN file.signals, NEW invert, NewSweepValue(s, invert) \/ NoValues(s)
      PROVE  LossNamed(o)
  BY <1>1, NewSweepValueLosses, QuietLosses
<1>2. CASE Call
  <2>1. CASE GetSweepValues
    BY <1>1, <2>1 DEF GetSweepValues
  <2>2. ASSUME NEW s \in DOMAIN file.signals, GetSignal(s) \/ GetSignalVector(s) PROVE LossNamed(o)
    <3>1. CASE GetSignalSwept(s) \/ GetSignalVector(s)
      BY <1>1, <3>1 DEF GetSignalSwept, GetSignalVector
    <3>2. CASE GetSignalScalar(s)
      BY <3>2, GetSignalScalarLosses
    <3> QED
      BY <2>2, <3>1, <3>2 DEF GetSignal
  <2> QED
    BY <1>2, <2>1, <2>2 DEF Call
<1>3. CASE Parse
  BY <1>3, ParseValueLosses, QuietLosses DEF Parse
<1>4. CASE Read
  BY <1>4, ReadWindowLosses, ReadThrowsLosses, ReturnLosses DEF Read
<1>5. CASE Convert
  BY <1>5, ConvertScalarLosses, ConvertSweepLosses, ConvertVectorLosses, ConvertVectorStructLosses DEF Convert
<1>6. CASE SetInvertStruct \/ DeleteSet \/ UNCHANGED vars
  BY <1>6, QuietLosses
<1>7. ASSUME NEW r \in held, Delete(r) PROVE LossNamed(o)
  BY <1>7, DeleteLosses
<1>8. ASSUME NEW v \in views, DropArray(v) PROVE LossNamed(o)
  BY <1>8, DropArrayLosses
<1> QED
  BY <1>2, <1>3, <1>4, <1>5, <1>6, <1>7, <1>8 DEF Next

(* Memory is lost only by an exception of the call that made it, by a      *)
(* VectorStruct, by the scalars that Python gets, and by the last          *)
(* reference to an array over a vector (psfdataset.cc, psfpython.cc).      *)
THEOREM LossesAreNamed == Spec => LeaksNamed
<1>1. Init => Inv /\ HangInv
  BY InitInv, InitHang
<1>2. Inv /\ HangInv /\ [Next]_vars => (Inv /\ HangInv)'
  BY NextInv, HangStep
<1>3. Spec => [](Inv /\ HangInv)
  BY <1>1, <1>2, PTL DEF Spec
<1>4. Inv /\ HangInv /\ (Inv /\ HangInv)' /\ [Next]_vars => [LossesNamed]_vars
  BY LossStep
<1>5. [][LossesNamed]_vars => LeaksNamed
  BY PTL DEF LeaksNamed, LossesNamed, LossNamed
<1> QED
  BY <1>3, <1>4, <1>5, PTL DEF Spec
=============================================================================
