-------------------------- MODULE TraceSection_proofs --------------------------
(***************************************************************************)
(* Theorems about TraceSection, for every trace section and every set of   *)
(* names: the name maps are complete, and lookups find what is listed.     *)
(***************************************************************************)
EXTENDS TraceSection, SequenceTheorems, WellFoundedInduction, TLAPS

(* One more pair in a map.                                                 *)
LEMMA BindFacts ==
  ASSUME NEW f, NEW k, NEW v
  PROVE  /\ DOMAIN Bind(f, k, v) = DOMAIN f \cup {k}
         /\ Bind(f, k, v)[k] = v
         /\ \A x \in DOMAIN f : x # k => Bind(f, k, v)[x] = f[x]
         /\ \A S : v \in S /\ f \in [DOMAIN f -> S] =>
              Bind(f, k, v) \in [DOMAIN Bind(f, k, v) -> S]
  BY DEF Bind

(* A child of a section.                                                   *)
LEMMA ChildFacts ==
  ASSUME NamesTypeOK, NEW c \in DOMAIN children
  PROVE  /\ c \in Nat \ {0}
         /\ children[c] \in Child
         /\ DOMAIN children[c].refs \subseteq Nat \ {0}
         /\ c \notin Groups => /\ DOMAIN children[c].refs = {1}
                              /\ children[c].refs[1] = children[c].name
<1>1. children \in Seq(Child)
  BY SectionsAssumed DEF NamesTypeOK
<1>2. c \in 1 .. Len(children) /\ children[c] \in Child
  BY <1>1
<1>3. children[c].refs \in Seq(Names) /\ DOMAIN children[c].refs = 1 .. Len(children[c].refs)
  BY <1>2 DEF Child
<1>4. ASSUME c \notin Groups
      PROVE  Len(children[c].refs) = 1 /\ children[c].refs[1] = children[c].name
  BY <1>4, SectionsAssumed DEF Groups, NamesTypeOK
<1>5. DOMAIN children[c].refs \subseteq Nat \ {0}
  BY <1>3
<1>6. ASSUME c \notin Groups
      PROVE  DOMAIN children[c].refs = {1}
  <2>1. \A q : q \in 1 .. 1 <=> q = 1
    OBVIOUS
  <2> QED
    BY <1>3, <1>4, <1>6, <2>1
<1>7. c \in Nat \ {0}
  BY <1>2
<1> QED
  BY <1>2, <1>4, <1>5, <1>6, <1>7

(* The constructors and the first steps of deserialize.                    *)
LEMMA NamesInitType == NamesInit => NamesTypeOK
<1> SUFFICES ASSUME NamesInit PROVE NamesTypeOK
  OBVIOUS
<1>1. /\ children \in TraceSections /\ phase \in {"groups", "index", "ready"}
      /\ ichild \in Nat \ {0} /\ iname \in Nat \ {0}
      /\ DOMAIN groupmap = DOMAIN children
  BY DEF NamesInit
<1>2. \A c \in DOMAIN children : groupmap[c] \in [DOMAIN groupmap[c] -> DOMAIN children[c].refs]
  BY DEF NamesInit
<1>3. namemap \in [DOMAIN namemap -> DOMAIN children]
  BY DEF NamesInit
<1>4. sought.name \in Names /\ sought.found.at \in {Nobody} \cup Positions
  BY DEF NamesInit
<1> QED
  BY <1>1, <1>2, <1>3, <1>4 DEF NamesTypeOK

(* The search comes to the first group if there is one.                    *)
LEMMA FirstGroupExists ==
  ASSUME NamesTypeOK, Groups # {}
  PROVE  /\ FirstGroup \in Groups
         /\ \A d \in Groups : FirstGroup <= d
<1>1. Groups \subseteq Nat
  BY ChildFacts DEF Groups
<1>2. PICK c \in Groups : \A d \in Groups : ~(<<d, c>> \in OpToRel(<, Nat))
  BY <1>1, WFMin, NatLessThanWellFounded
<1>3. \A d \in Groups : ~(d < c)
  BY <1>1, <1>2 DEF OpToRel
<1>4. \A d \in Groups : c <= d
  BY <1>1, <1>3
<1> QED
  BY <1>4 DEF FirstGroup

-----------------------------------------------------------------------------
(* A lookup answers with a place in the section, and with the name asked   *)
(* for.                                                                    *)
LEMMA LookupType ==
  ASSUME NamesTypeOK, NEW name \in Names
  PROVE  ByName(name).at \in {Nobody} \cup Positions
<1>1. CASE name \in DOMAIN namemap /\ namemap[name] \in Groups
  BY <1>1 DEF ByName, InSection, Fails
<1>2. CASE name \in DOMAIN namemap /\ namemap[name] \notin Groups
  <2>1. namemap[name] \in DOMAIN children
    BY <1>2 DEF NamesTypeOK
  <2>2. 1 \in DOMAIN children[namemap[name]].refs
    BY <1>2, <2>1, ChildFacts
  <2>3. <<namemap[name], 1>> \in Positions
    BY <2>1, <2>2 DEF Positions
  <2> QED
    BY <1>2, <2>3 DEF ByName, InSection, Found
<1>3. CASE name \notin DOMAIN namemap /\ Groups # {} /\ name \in DOMAIN groupmap[FirstGroup]
  <2>1. FirstGroup \in Groups
    BY <1>3, FirstGroupExists
  <2>2. groupmap[FirstGroup][name] \in DOMAIN children[FirstGroup].refs
    BY <1>3, <2>1 DEF NamesTypeOK, Groups
  <2>3. <<FirstGroup, groupmap[FirstGroup][name]>> \in Positions
    BY <2>1, <2>2 DEF Positions, Groups
  <2> QED
    BY <1>3, <2>3 DEF ByName, InGroup, Found
<1>4. CASE name \notin DOMAIN namemap /\ Groups # {} /\ name \notin DOMAIN groupmap[FirstGroup]
  BY <1>4 DEF ByName, InGroup, Fails
<1>5. CASE name \notin DOMAIN namemap /\ Groups = {}
  BY <1>5 DEF ByName, Fails
<1> QED
  BY <1>1, <1>2, <1>3, <1>4, <1>5

-----------------------------------------------------------------------------
(* NamesTypeOK is kept by every step.                                           *)
LEMMA NamesStepType == NamesTypeOK /\ [NamesNext]_nameVars => NamesTypeOK'
<1> SUFFICES ASSUME NamesTypeOK, [NamesNext]_nameVars PROVE NamesTypeOK'
  OBVIOUS
<1>1. CASE ReadTrace
  <2>1. ichild \in DOMAIN groupmap /\ iname \in DOMAIN children[ichild].refs /\ children' = children
    BY <1>1 DEF ReadTrace, ReadTraceAs, NamesTypeOK
  <2>2. ASSUME NEW c \in DOMAIN children
        PROVE  groupmap'[c] \in [DOMAIN groupmap'[c] -> DOMAIN children[c].refs]
    <3>1. CASE c = ichild /\ children[ichild].group
      <4>1. groupmap'[c] = Bind(groupmap[ichild], children[ichild].refs[iname], iname)
        BY <1>1, <2>1, <3>1 DEF ReadTrace, ReadTraceAs
      <4>2. groupmap[ichild] \in [DOMAIN groupmap[ichild] -> DOMAIN children[ichild].refs]
        BY <3>1 DEF NamesTypeOK
      <4>3. Bind(groupmap[ichild], children[ichild].refs[iname], iname)
              \in [DOMAIN Bind(groupmap[ichild], children[ichild].refs[iname], iname) -> DOMAIN children[ichild].refs]
        BY <2>1, <4>2, BindFacts
      <4> QED
        BY <3>1, <4>1, <4>3
    <3>2. CASE ~(c = ichild /\ children[ichild].group)
      <4>1. groupmap'[c] = groupmap[c]
        BY <1>1, <3>2 DEF ReadTrace, ReadTraceAs, NamesTypeOK
      <4> QED
        BY <4>1 DEF NamesTypeOK
    <3> QED
      BY <3>1, <3>2
  <2>3. DOMAIN groupmap' = DOMAIN children
    BY <1>1 DEF ReadTrace, ReadTraceAs, NamesTypeOK
  <2> QED
    BY <1>1, <2>2, <2>3 DEF ReadTrace, ReadTraceAs, NamesTypeOK, Positions, Nobody
<1>2. CASE EndChild
  BY <1>2 DEF EndChild, NamesTypeOK, Positions, Nobody
<1>3. CASE EndChildren
  BY <1>3 DEF EndChildren, NamesTypeOK, Positions, Nobody
<1>4. CASE IndexChild
  <2>1. namemap' \in [DOMAIN namemap' -> DOMAIN children]
    BY <1>4, BindFacts DEF IndexChild, NamesTypeOK
  <2> QED
    BY <1>4, <2>1 DEF IndexChild, NamesTypeOK, Positions, Nobody
<1>5. CASE EndIndex
  BY <1>5 DEF EndIndex, NamesTypeOK, Positions, Nobody
<1>6. ASSUME NEW name \in Names, Lookup(name)
      PROVE  NamesTypeOK'
  <2>1. sought'.name = name /\ sought'.found = ByName(name)
    BY <1>6 DEF Lookup
  <2> QED
    BY <1>6, <2>1, LookupType DEF Lookup, NamesTypeOK, Positions, Nobody
<1>7. CASE UNCHANGED nameVars
  BY <1>7 DEF nameVars, NamesTypeOK, Positions, Nobody
<1> QED
  BY <1>1, <1>2, <1>3, <1>4, <1>5, <1>6, <1>7 DEF NamesNext

(* The state of the names has its type, in every section.                  *)
THEOREM NamesTypeCorrect == NamesSpec => []NamesTypeOK
BY NamesInitType, NamesStepType, PTL DEF NamesSpec

-----------------------------------------------------------------------------
(* namemap[name] = i, for an ichild that comes after those passed.              *)
LEMMA LastOfBind ==
  ASSUME NEW map, NEW names, NEW passed \in SUBSET Nat, NEW k \in Nat,
         \A q \in passed : q < k,
         NEW name, LastOf(map, name, passed, names)
  PROVE  LastOf(Bind(map, names[k], k), name, passed \cup {k}, names)
<1>1. CASE name = names[k]
  <2>1. name \in DOMAIN Bind(map, names[k], k) /\ Bind(map, names[k], k)[name] = k
    BY <1>1 DEF Bind
  <2>2. \A q \in passed \cup {k} : q <= k
    OBVIOUS
  <2> QED
    BY <1>1, <2>1, <2>2 DEF LastOf
<1>2. CASE name # names[k] /\ name \in DOMAIN map
  <2>1. name \in DOMAIN Bind(map, names[k], k) /\ Bind(map, names[k], k)[name] = map[name]
    BY <1>2 DEF Bind
  <2> QED
    BY <1>2, <2>1 DEF LastOf
<1>3. CASE name # names[k] /\ name \notin DOMAIN map
  <2>1. name \notin DOMAIN Bind(map, names[k], k)
    BY <1>3 DEF Bind
  <2> QED
    BY <1>3, <2>1 DEF LastOf
<1> QED
  BY <1>1, <1>2, <1>3

(* A loop that ends has passed everything.                                 *)
LEMMA ChildrenPassed ==
  ASSUME NamesTypeOK, ichild \notin DOMAIN children
  PROVE  \A c \in DOMAIN children : c < ichild
<1>1. DOMAIN children = 1 .. Len(children) /\ Len(children) \in Nat
  BY SectionsAssumed DEF NamesTypeOK
<1> QED
  BY <1>1 DEF NamesTypeOK

LEMMA RefsPassed ==
  ASSUME NamesTypeOK, ichild \in DOMAIN children, iname \notin DOMAIN children[ichild].refs
  PROVE  \A q \in DOMAIN children[ichild].refs : q < iname
<1>1. children[ichild].refs \in Seq(Names)
  BY ChildFacts DEF Child
<1>2. DOMAIN children[ichild].refs = 1 .. Len(children[ichild].refs) /\ Len(children[ichild].refs) \in Nat
  BY <1>1
<1> QED
  BY <1>2 DEF NamesTypeOK

(* What the loops have passed, before and after their turns.               *)
LEMMA InitNames == NamesInit => NamesIndexed
<1> SUFFICES ASSUME NamesInit PROVE NamesIndexed
  OBVIOUS
<1>1. NamesTypeOK
  BY NamesInitType
<1>2. Indexed = {}
  BY DEF NamesInit, Indexed
<1>3. ASSUME NEW c \in Groups
      PROVE  NamesPassed(c) = {} /\ DOMAIN groupmap[c] = {}
  BY <1>1, ChildFacts DEF NamesInit, NamesPassed, Groups
<1>4. DOMAIN namemap = {}
  BY DEF NamesInit
<1> QED
  BY <1>2, <1>3, <1>4 DEF NamesIndexed, LastOf

LEMMA StepNames == NamesTypeOK /\ NamesIndexed /\ [NamesNext]_nameVars => NamesIndexed'
<1> SUFFICES ASSUME NamesTypeOK, NamesIndexed, [NamesNext]_nameVars PROVE NamesIndexed'
  OBVIOUS
<1>0. children' = children /\ Groups' = Groups /\ ChildNames' = ChildNames
  BY DEF NamesNext, nameVars, ReadTrace, ReadTraceAs, EndChild, EndChildren, IndexChild, EndIndex, Lookup,
         Groups, ChildNames
<1>a. \A c \in DOMAIN children : c \in Nat \ {0} /\ DOMAIN children[c].refs \subseteq Nat \ {0}
  BY ChildFacts
<1>b. ichild \in Nat \ {0} /\ iname \in Nat \ {0}
  BY DEF NamesTypeOK
<1>c. Groups \subseteq DOMAIN children
  BY DEF Groups
<1>1. CASE ReadTrace
  <2>1. namemap' = namemap /\ Indexed' = Indexed /\ phase = "groups" /\ phase' = "groups"
    BY <1>0, <1>1 DEF ReadTrace, ReadTraceAs, Indexed
  <2>2. ichild \in DOMAIN children /\ iname \in DOMAIN children[ichild].refs /\ iname' = iname + 1 /\ ichild' = ichild
    BY <1>1 DEF ReadTrace, ReadTraceAs
  <2>3. ASSUME NEW c \in Groups, c # ichild
        PROVE  groupmap'[c] = groupmap[c] /\ NamesPassed(c)' = NamesPassed(c)
    BY <1>0, <1>1, <1>c, <2>1, <2>2, <2>3 DEF ReadTrace, ReadTraceAs, NamesTypeOK, NamesPassed
  <2>4. ASSUME ichild \in Groups
        PROVE  groupmap'[ichild] = Bind(groupmap[ichild], children[ichild].refs[iname], iname)
    BY <1>1, <2>2, <2>4 DEF ReadTrace, ReadTraceAs, NamesTypeOK, Groups
  <2>5. ASSUME NEW c \in Groups, c = ichild
        PROVE  /\ NamesPassed(c)' = NamesPassed(c) \cup {iname}
               /\ \A q \in NamesPassed(c) : q < iname
               /\ NamesPassed(c) \subseteq Nat
    BY <1>0, <1>a, <1>b, <2>1, <2>2, <2>5 DEF NamesPassed
  <2>6. ASSUME NEW name \in Names, NEW c \in Groups
        PROVE  LastOf(groupmap'[c], name, NamesPassed(c)', children[c].refs)
    <3>1. LastOf(groupmap[c], name, NamesPassed(c), children[c].refs)
      BY DEF NamesIndexed
    <3>2. CASE c = ichild
      <4>1. LastOf(Bind(groupmap[c], children[c].refs[iname], iname), name, NamesPassed(c) \cup {iname}, children[c].refs)
        BY <1>b, <2>5, <3>1, <3>2, LastOfBind
      <4>2. groupmap'[c] = Bind(groupmap[c], children[c].refs[iname], iname)
        BY <2>4, <3>2
      <4> QED
        BY <2>5, <3>2, <4>1, <4>2
    <3>3. CASE c # ichild
      BY <2>3, <3>1, <3>3
    <3> QED
      BY <3>2, <3>3
  <2> QED
    BY <1>0, <2>1, <2>6 DEF NamesIndexed
<1>2. CASE EndChild
  <2>1. namemap' = namemap /\ groupmap' = groupmap /\ Indexed' = Indexed
    BY <1>0, <1>2 DEF EndChild, Indexed
  <2>2. ASSUME NEW c \in DOMAIN children
        PROVE  NamesPassed(c)' = NamesPassed(c)
    BY <1>0, <1>a, <1>b, <1>2, RefsPassed DEF EndChild, NamesPassed
  <2> QED
    BY <1>0, <1>c, <2>1, <2>2 DEF NamesIndexed
<1>3. CASE EndChildren
  <2>1. namemap' = namemap /\ groupmap' = groupmap
    BY <1>3 DEF EndChildren
  <2>2. Indexed' = Indexed
    BY <1>0, <1>a, <1>3 DEF EndChildren, Indexed
  <2>3. ASSUME NEW c \in DOMAIN children
        PROVE  NamesPassed(c)' = NamesPassed(c)
    BY <1>0, <1>a, <1>b, <1>3, ChildrenPassed DEF EndChildren, NamesPassed
  <2> QED
    BY <1>0, <1>c, <2>1, <2>2, <2>3 DEF NamesIndexed
<1>4. CASE IndexChild
  <2>1. groupmap' = groupmap /\ \A c \in DOMAIN children : NamesPassed(c)' = NamesPassed(c)
    BY <1>0, <1>4 DEF IndexChild, NamesPassed
  <2>2. /\ Indexed' = Indexed \cup {ichild} /\ Indexed \subseteq Nat
        /\ \A c \in Indexed : c < ichild
    BY <1>0, <1>a, <1>b, <1>4 DEF IndexChild, Indexed
  <2>3. namemap' = Bind(namemap, ChildNames[ichild], ichild)
    BY <1>4 DEF IndexChild, ChildNames
  <2>4. ASSUME NEW name \in Names
        PROVE  LastOf(namemap', name, Indexed', ChildNames)
    <3>1. LastOf(namemap, name, Indexed, ChildNames)
      BY DEF NamesIndexed
    <3> QED
      BY <1>b, <2>2, <2>3, <3>1, LastOfBind
  <2> QED
    BY <1>0, <1>c, <2>1, <2>4 DEF NamesIndexed
<1>5. CASE EndIndex
  <2>1. namemap' = namemap /\ groupmap' = groupmap
    BY <1>5 DEF EndIndex
  <2>2. Indexed' = Indexed
    BY <1>0, <1>a, <1>b, <1>5, ChildrenPassed DEF EndIndex, Indexed
  <2>3. \A c \in DOMAIN children : NamesPassed(c)' = NamesPassed(c)
    BY <1>0, <1>5 DEF EndIndex, NamesPassed
  <2> QED
    BY <1>0, <1>c, <2>1, <2>2, <2>3 DEF NamesIndexed
<1>6. CASE \E name \in Names : Lookup(name)
  BY <1>0, <1>c, <1>6 DEF Lookup, NamesIndexed, Indexed, NamesPassed
<1>7. CASE UNCHANGED nameVars
  BY <1>0, <1>c, <1>7 DEF nameVars, NamesIndexed, Indexed, NamesPassed
<1> QED
  BY <1>1, <1>2, <1>3, <1>4, <1>5, <1>6, <1>7 DEF NamesNext

(* Each map has every name that was passed, and for it the last of those   *)
(* so named (GroupDef::deserialize, IndexedContainer::deserialize): at     *)
(* every moment, names repeated or not.                                    *)
THEOREM NamesAreIndexed == NamesSpec => []NamesIndexed
<1>1. NamesInit => NamesTypeOK /\ NamesIndexed
  BY NamesInitType, InitNames
<1>2. NamesTypeOK /\ NamesIndexed /\ [NamesNext]_nameVars => (NamesTypeOK /\ NamesIndexed)'
  BY NamesStepType, StepNames
<1> QED
  BY <1>1, <1>2, PTL DEF NamesSpec

-----------------------------------------------------------------------------
(* What a lookup finds has the name it looks for.                          *)
LEMMA FoundIsNamed ==
  ASSUME NamesTypeOK, NamesIndexed, NEW name \in Names, ByName(name).res = "ok"
  PROVE  NameAt(ByName(name).at) = name
<1>1. CASE name \in DOMAIN namemap
  <2>1. namemap[name] \in DOMAIN children /\ children[namemap[name]].name = name
    BY <1>1 DEF NamesIndexed, LastOf, ChildNames, NamesTypeOK
  <2>2. namemap[name] \notin Groups /\ ByName(name) = Found(<<namemap[name], 1>>)
    BY <1>1 DEF ByName, InSection, Fails
  <2>3. children[namemap[name]].refs[1] = children[namemap[name]].name
    BY <2>1, <2>2, ChildFacts
  <2> QED
    BY <2>1, <2>2, <2>3 DEF Found, NameAt
<1>2. CASE name \notin DOMAIN namemap
  <2>1. Groups # {} /\ ByName(name) = InGroup(name, FirstGroup)
    BY <1>2 DEF ByName, Fails
  <2>2. FirstGroup \in Groups
    BY <2>1, FirstGroupExists
  <2>3. /\ name \in DOMAIN groupmap[FirstGroup]
        /\ ByName(name) = Found(<<FirstGroup, groupmap[FirstGroup][name]>>)
    BY <2>1 DEF InGroup, Fails
  <2>4. children[FirstGroup].refs[groupmap[FirstGroup][name]] = name
    BY <2>2, <2>3 DEF NamesIndexed, LastOf
  <2> QED
    BY <2>3, <2>4 DEF Found, NameAt
<1> QED
  BY <1>1, <1>2

(* With distinct names, a trace outside groups or in the first is found    *)
(* where it is.                                                            *)
LEMMA ListedIsFound ==
  ASSUME NamesTypeOK, NamesIndexed, phase = "ready", DistinctNames,
         NEW a \in Positions, a[1] \notin Groups \/ a[1] = FirstGroup
  PROVE  ByName(NameAt(a)) = Found(a)
<1>1. PICK c \in DOMAIN children : \E q \in DOMAIN children[c].refs : a = <<c, q>>
  BY DEF Positions
<1>2. PICK q \in DOMAIN children[c].refs : a = <<c, q>>
  BY <1>1
<1> DEFINE n == NameAt(a)
<1>3. n = children[c].refs[q] /\ n \in Names
  <2>1. children[c].refs \in Seq(Names)
    BY ChildFacts DEF Child
  <2>2. children[c].refs[q] \in Names
    BY <2>1, ElementOfSeq
  <2> QED
    BY <1>2, <2>2 DEF NameAt
<1>4. Indexed = DOMAIN children /\ NamesPassed(c) = DOMAIN children[c].refs
  BY DEF Indexed, NamesPassed
<1>5. LastOf(namemap, n, DOMAIN children, ChildNames)
  BY <1>3, <1>4 DEF NamesIndexed
<1>6. ASSUME n \in DOMAIN namemap
      PROVE  namemap[n] \in DOMAIN children /\ children[namemap[n]].name = n
  BY <1>5, <1>6 DEF LastOf, ChildNames
<1>7. CASE c \notin Groups
  <2>1. q = 1 /\ children[c].name = n
    BY <1>3, <1>7, ChildFacts
  <2>2. n \in DOMAIN namemap
    BY <1>5, <2>1 DEF LastOf, ChildNames
  <2>3. namemap[n] = c
    BY <1>6, <2>1, <2>2 DEF DistinctNames
  <2> QED
    BY <1>2, <1>7, <2>1, <2>2, <2>3 DEF ByName, InSection
<1>8. CASE c \in Groups
  <2>1. c = FirstGroup
    BY <1>2, <1>8
  <2>2. ASSUME n \in DOMAIN namemap
        PROVE  FALSE
    <3>1. namemap[n] \notin Groups
      BY <1>6, <2>2 DEF DistinctNames
    <3>2. <<namemap[n], 1>> \in Positions /\ NameAt(<<namemap[n], 1>>) = n
      BY <1>6, <2>2, <3>1, ChildFacts DEF Positions, NameAt
    <3>3. <<namemap[n], 1>> = <<c, q>>
      BY <1>2, <3>2 DEF DistinctNames
    <3> QED
      BY <1>8, <3>1, <3>3
  <2>3. LastOf(groupmap[c], n, DOMAIN children[c].refs, children[c].refs)
    BY <1>3, <1>4, <1>8 DEF NamesIndexed
  <2>4. n \in DOMAIN groupmap[c] /\ groupmap[c][n] \in DOMAIN children[c].refs
        /\ children[c].refs[groupmap[c][n]] = n
    BY <1>3, <2>3 DEF LastOf
  <2>5. <<c, groupmap[c][n]>> \in Positions /\ NameAt(<<c, groupmap[c][n]>>) = n
    <3>1. \A p \in DOMAIN children[c].refs :
            <<c, p>> \in Positions /\ NameAt(<<c, p>>) = children[c].refs[p]
      BY DEF Positions, NameAt
    <3> QED
      BY <2>4, <3>1
  <2>6. <<c, groupmap[c][n]>> = a
    BY <2>5 DEF DistinctNames
  <2> QED
    BY <1>8, <2>1, <2>2, <2>4, <2>6 DEF ByName, InGroup
<1> QED
  BY <1>7, <1>8

(* get_trace_by_name never answers with a trace of another name, and finds *)
(* every trace outside groups and in the first group where get_names lists *)
(* it, if names are distinct.                                              *)
THEOREM NamesAreFound == NamesSpec => []FoundWhereListed
<1> DEFINE Named == sought.found.res = "ok" => NameAt(sought.found.at) = sought.name
<1>1. NamesInit => Named
  BY DEF NamesInit
<1>2. NamesTypeOK /\ NamesIndexed /\ Named /\ [NamesNext]_nameVars => Named'
  <2> SUFFICES ASSUME NamesTypeOK, NamesIndexed, Named, [NamesNext]_nameVars PROVE Named'
    OBVIOUS
  <2>1. children' = children
    BY DEF NamesNext, nameVars, ReadTrace, ReadTraceAs, EndChild, EndChildren, IndexChild, EndIndex, Lookup
  <2>2. CASE sought' = sought
    BY <2>1, <2>2 DEF NameAt
  <2>3. ASSUME NEW name \in Names, Lookup(name)
        PROVE  Named'
    <3>1. sought'.name = name /\ sought'.found = ByName(name)
      BY <2>3 DEF Lookup
    <3>2. ByName(name).res = "ok" => NameAt(ByName(name).at) = name
      BY FoundIsNamed
    <3> QED
      BY <2>1, <3>1, <3>2 DEF NameAt
  <2> QED
    BY <2>2, <2>3 DEF NamesNext, nameVars, ReadTrace, ReadTraceAs, EndChild, EndChildren, IndexChild, EndIndex
<1>3. NamesTypeOK /\ NamesIndexed /\ Named => FoundWhereListed
  BY ListedIsFound DEF FoundWhereListed
<1> QED
  BY <1>1, <1>2, <1>3, NamesTypeCorrect, NamesAreIndexed, PTL DEF NamesSpec

=============================================================================
