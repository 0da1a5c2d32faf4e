----------------------- MODULE ValueSectionSweep_proofs -----------------------
(***************************************************************************)
(* Theorems about ValueSectionSweep, for every file: the offset map sends  *)
(* different traces to different bytes, and lacks only traces that stand   *)
(* for the sweep; no query returns part of a waveform.  Well-formed files  *)
(* are read back as they were recorded, and of them the reader implements  *)
(* the abstract one of SweepReader.                                        *)
(***************************************************************************)
EXTENDS ValueSectionSweep, SequenceTheorems, TLAPS

-----------------------------------------------------------------------------
(* What the state says of the file.                                        *)

LEMMA RefFacts ==
  ASSUME FileOK(file), NEW c \in DOMAIN file.children
  PROVE  /\ c \in Nat \ {0} /\ c <= Len(file.children)
         /\ DOMAIN file.children[c].refs = 1 .. Len(file.children[c].refs)
         /\ Len(file.children[c].refs) \in Nat
         /\ \A r \in RefsOf(file, c) : Ref(file, c, r) \in Ids
         /\ ~file.children[c].group => RefsOf(file, c) = {1}
<1>1. file.children \in Seq([group : BOOLEAN, refs : Seq(Ids)])
  BY DEF FileOK
<1>2. c \in 1 .. Len(file.children) /\ Len(file.children) \in Nat /\ file.children[c] \in [group : BOOLEAN, refs : Seq(Ids)]
  BY <1>1, LenProperties, ElementOfSeq
<1>3. file.children[c].refs \in Seq(Ids)
  BY <1>2
<1>4. \A r \in RefsOf(file, c) : Ref(file, c, r) \in Ids
  BY <1>3, ElementOfSeq DEF RefsOf, Ref
<1>5. /\ DOMAIN file.children[c].refs = 1 .. Len(file.children[c].refs)
      /\ Len(file.children[c].refs) \in Nat
  BY <1>3
<1>6. ASSUME ~file.children[c].group
      PROVE  RefsOf(file, c) = {1}
  <2>1. Len(file.children[c].refs) = 1
    BY <1>6 DEF FileOK
  <2>2. \A r : r \in 1 .. 1 <=> r = 1
    OBVIOUS
  <2> QED
    BY <1>5, <2>1, <2>2 DEF RefsOf
<1> QED
  BY <1>2, <1>4, <1>5, <1>6

LEMMA FileFacts ==
  ASSUME TypeOK
  PROVE  /\ FileOK(file)
         /\ Children = 1 .. Len(file.children) /\ Len(file.children) \in Nat
         /\ file.npoints \in Nat /\ file.paramsize \in Nat /\ file.windowsize \in Nat /\ file.ntraces \in Nat
         /\ file.windowed \in BOOLEAN
         /\ \A id \in Ids : file.size[id] \in Nat /\ Width(file, id) \in Nat
         /\ \A a : Word(file, a) \in Int /\ Value(file, a) \in Values
         /\ Listed \subseteq Ids
<1>1. FileOK(file)
  BY FilesAssumed DEF TypeOK
<1>2. file.children \in Seq([group : BOOLEAN, refs : Seq(Ids)])
  BY <1>1 DEF FileOK
<1>3. Listed \subseteq Ids
  BY <1>1, RefFacts DEF Listed, Refs
<1>4. \A a : Word(file, a) \in Int /\ Value(file, a) \in Values
  BY <1>1, ValuesAssumed DEF FileOK, Word, Value
<1> QED
  BY <1>1, <1>2, <1>3, <1>4 DEF FileOK, Width, Children

LEMMA WordFacts ==
  ASSUME TypeOK
  PROVE  Points \in Nat
<1>1. Word(file, buf + 4) \in Int
  BY FileFacts
<1> QED
  BY <1>1 DEF Points

(* Vectors that are made element by element.                               *)
LEMMA VectorFacts ==
  ASSUME NEW S, NEW n \in Nat, NEW v \in [1 .. n -> S]
  PROVE  v \in Seq(S) /\ Len(v) = n
<1>1. v \in Seq(S)
  OBVIOUS
<1>2. 1 .. Len(v) = 1 .. n /\ Len(v) \in Nat
  BY <1>1
<1>3. Len(v) <= n
  <2>1. CASE Len(v) = 0
    BY <2>1
  <2>2. CASE Len(v) # 0
    <3>1. Len(v) \in 1 .. Len(v)
      BY <1>2, <2>2
    <3> QED
      BY <1>2, <3>1
  <2> QED
    BY <2>1, <2>2
<1>4. n <= Len(v)
  <2>1. CASE n = 0
    BY <1>2, <2>1
  <2>2. CASE n # 0
    <3>1. n \in 1 .. n
      BY <2>2
    <3> QED
      BY <1>2, <3>1
  <2> QED
    BY <2>1, <2>2
<1> QED
  BY <1>1, <1>2, <1>3, <1>4

-----------------------------------------------------------------------------
(* Types.  Queries begin when all references are mapped, ask for a trace   *)
(* that is listed, and in files without windows start with a vector of     *)
(* all points.                                                             *)
Books ==
  /\ pc \in {"ready", "read"} => itrace = Len(file.children) + 1 /\ iref = 0
  /\ query \in Listed \cup {Sweep}
  /\ pc = "read" /\ ~file.windowed => Len(m_paramvalues) = file.npoints

TypeInv == TypeOK /\ Books

LEMMA EmptyFacts ==
  /\ \A S : << >> \in Seq(S) /\ << >> \in [1 .. 0 -> S] /\ << >> \in [{} -> S]
  /\ DOMAIN << >> = {}
  OBVIOUS

LEMMA InitType == Init => TypeInv
<1> SUFFICES ASSUME Init PROVE TypeInv
  OBVIOUS
<1>1. FileOK(file) /\ file \in Files
  BY FilesAssumed DEF Init
<1>2. 1 \in 1 .. Len(file.children) + 1
  <2>1. Len(file.children) \in Nat
    BY <1>1 DEF FileOK
  <2> QED
    BY <2>1
<1>3. data \in [1 .. (IF query = Sweep THEN 0 ELSE file.npoints) -> Values \cup {Unset}]
  BY EmptyFacts DEF Init
<1>4. TypeOK
  BY <1>1, <1>2, <1>3, EmptyFacts DEF Init, TypeOK, Outcomes
<1> QED
  BY <1>4 DEF TypeInv, Books, Init

(* The steps of opening a file.                                            *)
LEMMA MapFacts ==
  ASSUME TypeOK, NEW id \in Ids, NEW a \in Nat, Map(id, a)
  PROVE  /\ DOMAIN m_offsetmap' = DOMAIN m_offsetmap \cup {id}
         /\ m_offsetmap'[id] = a
         /\ \A x \in DOMAIN m_offsetmap \ {id} : m_offsetmap'[x] = m_offsetmap[x]
         /\ DOMAIN m_offsetmap' \subseteq Ids /\ \A x \in DOMAIN m_offsetmap' : m_offsetmap'[x] \in Nat
<1>1. /\ DOMAIN m_offsetmap' = DOMAIN m_offsetmap \cup {id}
      /\ m_offsetmap'[id] = a
      /\ \A x \in DOMAIN m_offsetmap \ {id} : m_offsetmap'[x] = m_offsetmap[x]
  BY DEF Map
<1> QED
  BY <1>1 DEF TypeOK

(* A reference outside groups is mapped, passed over, or refused.          *)
LEMMA MapRefFacts ==
  ASSUME TypeOK, MapRef
  PROVE  LET id == Ref(file, itrace, 1)
         IN /\ itrace \in Children /\ ~file.children[itrace].group /\ id \in Ids /\ iref = 0 /\ pc = "map"
            /\ UNCHANGED <<file, iref, offset, queryVars>>
            /\ \/ /\ file.windowed \/ file.key[id] = "absent"
                  /\ pc' = "failed" /\ answer'.res \in {"IncorrectChunk", "PropertyNotFound"}
                  /\ answer'.data = << >>
                  /\ UNCHANGED mapVars
               \/ /\ Skipped(file, itrace)
                  /\ itrace' = itrace + 1
                  /\ UNCHANGED <<pc, answer, m_offsetmap, m_valuesize>>
               \/ /\ ~file.windowed /\ ~Skipped(file, itrace)
                  /\ Map(id, m_valuesize + 8)
                  /\ m_valuesize' = m_valuesize + 8 + file.size[id]
                  /\ itrace' = itrace + 1
                  /\ UNCHANGED <<pc, answer>>
<1>1. itrace \in Children /\ ~file.children[itrace].group /\ iref = 0 /\ pc = "map"
  BY DEF MapRef, TypeOK
<1>2. Ref(file, itrace, 1) \in Ids
  BY <1>1, FileFacts, RefFacts DEF Children
<1> QED
  BY <1>1, <1>2 DEF MapRef, OpenFails, Answer, Skipped, mapVars

(* A turn of the loops that keeps the types of its own variables.          *)
LEMMA LoopType ==
  ASSUME TypeInv, pc = "map", UNCHANGED <<file, pc, answer, queryVars>>,
         itrace' \in 1 .. Len(file.children) + 1,
         iref' # 0 => /\ itrace' \in Children /\ file.children[itrace'].group
                      /\ iref' \in 1 .. Len(file.children[itrace'].refs) + 1,
         offset' \in Nat, m_valuesize' \in Nat,
         DOMAIN m_offsetmap' \subseteq Ids, \A x \in DOMAIN m_offsetmap' : m_offsetmap'[x] \in Nat
  PROVE  TypeInv'
<1>1. Books'
  BY DEF TypeInv, Books, Listed, queryVars
<1>2. /\ file' \in Files /\ pc' \in {"open", "map", "ready", "read", "failed"}
      /\ buf' \in Nat /\ i' \in Nat /\ answer'.res \in Outcomes
      /\ query' \in Ids \cup {Sweep} /\ m_paramvalues' \in Seq(Values \cup {Unset})
      /\ data' \in [1 .. (IF query' = Sweep THEN 0 ELSE file'.npoints) -> Values \cup {Unset}]
  BY DEF TypeInv, TypeOK, queryVars
<1>3. itrace' \in 1 .. Len(file'.children) + 1
      /\ (iref' # 0 => /\ itrace' \in Children' /\ file'.children[itrace'].group
                       /\ iref' \in 1 .. Len(file'.children[itrace'].refs) + 1)
  BY DEF Children
<1> QED
  BY <1>1, <1>2, <1>3 DEF TypeInv, TypeOK

LEMMA OpenType == TypeInv /\ MapNext => TypeInv'
<1> SUFFICES ASSUME TypeInv, MapNext PROVE TypeInv'
  OBVIOUS
<1>0. TypeOK /\ Books
  BY DEF TypeInv
<1>1. UNCHANGED <<file, queryVars>> /\ Listed' = Listed
  BY DEF MapNext, Deserialize, MapRef, EnterGroup, MapGroupRef, LeaveGroup, Mapped, Listed
<1>2. CASE Deserialize
  <2>1. pc' \in {"map", "failed"} /\ answer'.res \in Outcomes /\ UNCHANGED mapVars
    BY <1>0, <1>2 DEF Deserialize, OpenFails, Answer, TypeOK, Outcomes
  <2> QED
    BY <1>0, <1>1, <2>1 DEF TypeInv, TypeOK, Books, Children, mapVars, queryVars
<1>3. CASE MapRef
  <2> DEFINE id == Ref(file, itrace, 1)
  <2>1. itrace \in 1 .. Len(file.children) /\ itrace + 1 \in 1 .. Len(file.children) + 1
    BY <1>0, <1>3, MapRefFacts, FileFacts
  <2>2. iref' = 0 /\ iref = 0 /\ pc' \in {"map", "failed"} /\ offset' = offset
    BY <1>0, <1>3, MapRefFacts
  <2>3. /\ itrace' \in 1 .. Len(file.children) + 1 /\ answer'.res \in Outcomes
        /\ m_valuesize' \in Nat
        /\ DOMAIN m_offsetmap' \subseteq Ids /\ \A x \in DOMAIN m_offsetmap' : m_offsetmap'[x] \in Nat
    <3>1. CASE UNCHANGED mapVars /\ answer'.res \in {"IncorrectChunk", "PropertyNotFound"}
      BY <1>0, <3>1 DEF TypeOK, mapVars, Outcomes
    <3>2. CASE itrace' = itrace + 1 /\ UNCHANGED <<answer, m_offsetmap, m_valuesize>>
      BY <1>0, <2>1, <3>2 DEF TypeOK
    <3>3. CASE /\ itrace' = itrace + 1 /\ UNCHANGED answer /\ id \in Ids
               /\ Map(id, m_valuesize + 8) /\ m_valuesize' = m_valuesize + 8 + file.size[id]
      <4>1. m_valuesize \in Nat /\ m_valuesize + 8 \in Nat /\ file.size[id] \in Nat
        BY <1>0, <3>3, FileFacts DEF TypeOK
      <4>2. DOMAIN m_offsetmap' \subseteq Ids /\ \A x \in DOMAIN m_offsetmap' : m_offsetmap'[x] \in Nat
        BY <1>0, <3>3, <4>1, MapFacts
      <4> QED
        BY <1>0, <2>1, <3>3, <4>1, <4>2 DEF TypeOK
    <3> QED
      BY <1>0, <1>3, <3>1, <3>2, <3>3, MapRefFacts
  <2> QED
    BY <1>0, <1>1, <2>2, <2>3 DEF TypeInv, TypeOK, Books, Children, queryVars
<1>4. CASE EnterGroup
  <2>1. itrace \in Children /\ Len(file.children[itrace].refs) \in Nat /\ Prefix(file) \in Nat
    BY <1>0, <1>4, FileFacts, RefFacts DEF EnterGroup, Children, Prefix
  <2>2. iref' = 1 /\ 1 \in 1 .. Len(file.children[itrace].refs) + 1 /\ offset' \in Nat
    <3>1. iref' = 1 /\ offset' = m_valuesize + Prefix(file) /\ m_valuesize \in Nat
      BY <1>0, <1>4 DEF EnterGroup, TypeOK
    <3> QED
      BY <2>1, <3>1
  <2>3. itrace' \in 1 .. Len(file.children) + 1 /\ m_valuesize' \in Nat
        /\ DOMAIN m_offsetmap' \subseteq Ids /\ \A x \in DOMAIN m_offsetmap' : m_offsetmap'[x] \in Nat
    BY <1>0, <1>4 DEF EnterGroup, TypeOK
  <2>4. itrace' \in Children /\ file.children[itrace'].group
        /\ iref' \in 1 .. Len(file.children[itrace'].refs) + 1
    BY <1>4, <2>1, <2>2 DEF EnterGroup
  <2>5. pc = "map" /\ UNCHANGED <<file, pc, answer, queryVars>>
    BY <1>4 DEF EnterGroup
  <2> QED
    BY <2>2, <2>3, <2>4, <2>5, LoopType
<1>5. CASE MapGroupRef
  <2> DEFINE id == Ref(file, itrace, iref)
  <2>1. itrace \in Children /\ file.children[itrace].group /\ pc = "map" /\ iref # 0
    BY <1>0, <1>5 DEF MapGroupRef, TypeOK
  <2>2. /\ iref \in 1 .. Len(file.children[itrace].refs) /\ Len(file.children[itrace].refs) \in Nat
        /\ id \in Ids
    BY <1>0, <1>5, <2>1, FileFacts, RefFacts DEF MapGroupRef, Children, RefsOf
  <2>3. /\ DOMAIN m_offsetmap' \subseteq Ids /\ \A x \in DOMAIN m_offsetmap' : m_offsetmap'[x] \in Nat
    BY <1>0, <1>5, <2>2, MapFacts DEF MapGroupRef, TypeOK
  <2>4. offset' \in Nat /\ iref' # 0 /\ iref' \in 1 .. Len(file.children[itrace].refs) + 1
    <3>1. /\ offset' = offset + Width(file, id) /\ iref' = iref + 1
          /\ offset \in Nat /\ iref \in 1 .. Len(file.children[itrace].refs)
      BY <1>0, <1>5, <2>2 DEF MapGroupRef, TypeOK
    <3>2. Width(file, id) \in Nat
      BY <1>0, <2>2, FileFacts
    <3> QED
      BY <2>2, <3>1, <3>2
  <2>5. itrace' = itrace /\ itrace' \in 1 .. Len(file.children) + 1 /\ m_valuesize' \in Nat
        /\ UNCHANGED <<file, pc, answer, queryVars>>
    BY <1>0, <1>5 DEF MapGroupRef, TypeOK
  <2> QED
    BY <2>1, <2>3, <2>4, <2>5, LoopType
<1>6. CASE LeaveGroup
  <2>1. itrace \in Children /\ itrace + 1 \in 1 .. Len(file.children) + 1
    BY <1>0, <1>6, FileFacts DEF LeaveGroup, TypeOK
  <2> QED
    BY <1>0, <1>1, <1>6, <2>1 DEF LeaveGroup, TypeInv, TypeOK, Books, queryVars
<1>7. CASE Mapped
  <2>1. itrace = Len(file.children) + 1
    BY <1>0, <1>7, FileFacts DEF Mapped, TypeOK
  <2> QED
    BY <1>0, <1>1, <1>7, <2>1 DEF Mapped, TypeInv, TypeOK, Books, mapVars, queryVars, Children
<1> QED
  BY <1>2, <1>3, <1>4, <1>5, <1>6, <1>7 DEF MapNext

(* A query ends with an exception, or with its vector.                     *)
LEMMA EndType ==
  ASSUME TypeInv, pc' \in {"ready", "failed"}, pc = "read", UNCHANGED <<file, mapVars, queryVars>>,
         answer'.res \in Outcomes
  PROVE  TypeInv'
BY DEF TypeInv, TypeOK, Books, Children, Listed, mapVars, queryVars

LEMMA QueryType == ASSUME TypeInv, NEW q \in Listed \cup {Sweep}, Query(q) PROVE TypeInv'
<1> DEFINE n == file.npoints
           V == Values \cup {Unset}
<1>1. /\ TypeOK /\ Books /\ n \in Nat /\ Listed \subseteq Ids
      /\ UNCHANGED <<file, mapVars, answer>> /\ pc' = "read" /\ pc = "ready" /\ query' = q /\ buf' = 0 /\ i' = 0
  BY FileFacts DEF TypeInv, Query
<1>2. [k \in 1 .. n |-> Unset] \in Seq(V) /\ Len([k \in 1 .. n |-> Unset]) = n
      /\ [k \in 1 .. n |-> Unset] \in [1 .. n -> V]
  <2>1. [k \in 1 .. n |-> Unset] \in [1 .. n -> V]
    OBVIOUS
  <2> HIDE DEF V, n
  <2> QED
    BY <1>1, <2>1, VectorFacts
<1>3. m_paramvalues' \in Seq(V) /\ (~file.windowed => Len(m_paramvalues') = n)
  BY <1>2, EmptyFacts DEF Query
<1>4. data' \in [1 .. (IF q = Sweep THEN 0 ELSE n) -> V]
  BY <1>2, EmptyFacts DEF Query
<1> QED
  BY <1>1, <1>3, <1>4 DEF TypeInv, TypeOK, Books, Children, Listed, mapVars

(* The vectors after a window or a point.                                  *)
LEMMA ReadValuesFacts ==
  ASSUME TypeInv, NEW n \in Nat, ReadValues(n)
  PROVE  /\ m_paramvalues' \in Seq(Values \cup {Unset}) /\ Len(m_paramvalues') = Len(m_paramvalues) + n
         /\ data' \in [DOMAIN data -> Values \cup {Unset}]
<1> DEFINE V == Values \cup {Unset}
           old == Len(m_paramvalues)
           new == [k \in 1 .. old + n |->
                     IF k <= old THEN m_paramvalues[k]
                     ELSE Value(file, buf + 8 + (k - old - 1) * file.paramsize)]
<1>1. old \in Nat /\ m_paramvalues \in Seq(V) /\ \A a : Value(file, a) \in V
  BY FileFacts DEF TypeInv, TypeOK
<1>2. \A k \in 1 .. old : m_paramvalues[k] \in V
  BY <1>1, ElementOfSeq
<1>3. m_paramvalues' = new
  BY DEF ReadValues
<1>4. new \in [1 .. old + n -> V]
  <2>1. ASSUME NEW k \in 1 .. old + n
        PROVE  (IF k <= old THEN m_paramvalues[k]
                ELSE Value(file, buf + 8 + (k - old - 1) * file.paramsize)) \in V
    <3>1. CASE k <= old
      <4>1. k \in 1 .. old
        BY <1>1, <3>1
      <4> QED
        BY <1>2, <3>1, <4>1
    <3>2. CASE ~(k <= old)
      BY <1>1, <3>2
    <3> QED
      BY <3>1, <3>2
  <2> QED
    BY <2>1
<1>5. old + n \in Nat
  BY <1>1
<1>6. data' \in [DOMAIN data -> V]
  <2>1. \A k \in DOMAIN data : data[k] \in V
    BY DEF TypeInv, TypeOK
  <2> QED
    BY <1>1, <2>1 DEF ReadValues
<1> HIDE DEF new, V, old
<1>7. new \in Seq(V) /\ Len(new) = old + n
  BY <1>4, <1>5, VectorFacts
<1> QED
  BY <1>3, <1>6, <1>7 DEF V, old

LEMMA ReadType == TypeInv /\ ReadNext => TypeInv'
<1> SUFFICES ASSUME TypeInv, ReadNext PROVE TypeInv'
  OBVIOUS
<1>0. TypeOK /\ Books
  BY DEF TypeInv
<1>1. CASE WrongChunk \/ NoOffset \/ WrongParam \/ Overrun
  BY <1>1, EndType DEF WrongChunk, NoOffset, WrongParam, Overrun, Reading, QueryFails, Answer, Outcomes
<1>2. CASE Return
  BY <1>2, EndType DEF Return, Answer, Outcomes
<1>3. CASE ReadWindow
  <2>1. /\ UNCHANGED <<file, pc, mapVars, query, answer>> /\ file.windowed /\ pc = "read"
        /\ ReadValues(Points) /\ Points \in Nat
        /\ buf' = buf + 8 + Points * file.paramsize + file.ntraces * file.windowsize /\ i' = i + Points
    BY <1>0, <1>3, WordFacts DEF ReadWindow, WindowFits, Reading
  <2>2. /\ m_paramvalues' \in Seq(Values \cup {Unset})
        /\ data' \in [DOMAIN data -> Values \cup {Unset}]
    BY <2>1, ReadValuesFacts
  <2>3. buf' \in Nat /\ i' \in Nat
    <3>1. Points * file.paramsize \in Nat /\ file.ntraces * file.windowsize \in Nat
      BY <1>0, <2>1, FileFacts
    <3> QED
      BY <1>0, <2>1, <3>1 DEF TypeOK
  <2> QED
    BY <1>0, <2>1, <2>2, <2>3 DEF TypeInv, TypeOK, Books, Children, Listed, mapVars
<1>4. CASE ReadPoint
  <2> DEFINE V == Values \cup {Unset}
             valuebuf == buf + 8 + file.paramsize
  <2>1. /\ UNCHANGED <<file, pc, mapVars, query, answer>> /\ ~file.windowed /\ pc = "read" /\ i < file.npoints
        /\ m_paramvalues' = [m_paramvalues EXCEPT ![i + 1] = Value(file, buf + 8)]
        /\ data' = [k \in DOMAIN data |->
                      IF k # i + 1 THEN data[k] ELSE Value(file, valuebuf + m_offsetmap[query])]
        /\ buf' = valuebuf + m_valuesize /\ i' = i + 1
    BY <1>4 DEF ReadPoint, Reading
  <2>2. Len(m_paramvalues) = file.npoints /\ m_paramvalues \in Seq(V) /\ i + 1 \in 1 .. Len(m_paramvalues)
    BY <1>0, <2>1, FileFacts DEF Books, TypeOK
  <2>3. m_paramvalues' \in Seq(V) /\ Len(m_paramvalues') = file.npoints
    <3>1. Value(file, buf + 8) \in V
      BY <1>0, FileFacts
    <3> QED
      BY <2>1, <2>2, <3>1, ExceptSeq
  <2>4. data' \in [DOMAIN data -> V]
    <3>1. \A k \in DOMAIN data : data[k] \in V
      BY <1>0 DEF TypeOK
    <3>2. Value(file, valuebuf + m_offsetmap[query]) \in V
      BY <1>0, FileFacts
    <3> QED
      BY <2>1, <3>1, <3>2
  <2>5. buf' \in Nat /\ i' \in Nat
    BY <1>0, <2>1, FileFacts DEF TypeOK
  <2> QED
    BY <1>0, <2>1, <2>3, <2>4, <2>5 DEF TypeInv, TypeOK, Books, Children, Listed, mapVars
<1> QED
  BY <1>1, <1>2, <1>3, <1>4 DEF ReadNext

LEMMA StepType == TypeInv /\ [Next]_vars => TypeInv'
<1> SUFFICES ASSUME TypeInv, [Next]_vars PROVE TypeInv'
  OBVIOUS
<1>1. CASE UNCHANGED vars
  BY <1>1 DEF vars, TypeInv, TypeOK, Books, Children, Listed, mapVars, queryVars
<1> QED
  BY <1>1, OpenType, ReadType, QueryType DEF Next

(* The reader's state has its type, for every file.                        *)
THEOREM TypeCorrect == Spec => []TypeOK
<1>1. TypeInv => TypeOK
  BY DEF TypeInv
<1> QED
  BY <1>1, InitType, StepType, PTL DEF Spec

-----------------------------------------------------------------------------
(* The offset map.  Everything mapped ends before the place where the next *)
(* reference goes: a trace mapped later takes other bytes, and one that is *)
(* mapped again leaves its first place.                                    *)
Frontier == IF iref = 0 THEN m_valuesize ELSE offset

Behind == \A a \in DOMAIN m_offsetmap : m_offsetmap[a] + Width(file, a) <= Frontier

(* Every reference passed is mapped, unless it stands for the sweep.       *)
Complete == \A x \in Passed : ~Skipped(file, x[1]) => Ref(file, x[1], x[2]) \in DOMAIN m_offsetmap

MapInv == Behind /\ OffsetsDisjoint /\ Complete /\ UndefinedOnlyForSkipped

LEMMA PassedFacts ==
  ASSUME FileOK(file), NEW x
  PROVE  x \in Passed <=>
           \E c \in DOMAIN file.children : \E r \in RefsOf(file, c) :
             x = <<c, r>> /\ (c < itrace \/ (c = itrace /\ r < iref))
BY DEF Passed, Refs

(* A turn of the loops passes at most the reference it looks at.           *)
LEMMA PassedGrows ==
  ASSUME TypeOK, file' = file
  PROVE  /\ itrace' = itrace /\ iref' = iref => Passed' = Passed
         /\ itrace' = itrace /\ iref = 0 /\ iref' = 1 => Passed' \subseteq Passed
         /\ itrace' = itrace + 1 /\ iref' = 0 /\ itrace \in Children /\ ~file.children[itrace].group
              => Passed' \subseteq Passed \cup {<<itrace, 1>>}
         /\ itrace' = itrace /\ iref # 0 /\ iref' = iref + 1 => Passed' \subseteq Passed \cup {<<itrace, iref>>}
         /\ itrace' = itrace + 1 /\ iref' = 0 /\ iref # 0 /\ iref \notin RefsOf(file, itrace) => Passed' \subseteq Passed
<1>1. FileOK(file) /\ itrace \in Nat /\ \A c \in DOMAIN file.children : c \in Nat
  BY FileFacts DEF TypeOK, Children
<1>2. \A c \in DOMAIN file.children : RefsOf(file, c) = 1 .. Len(file.children[c].refs)
                                        /\ Len(file.children[c].refs) \in Nat
  BY <1>1, RefFacts DEF RefsOf
<1>3. iref # 0 => itrace \in DOMAIN file.children /\ iref \in 1 .. Len(file.children[itrace].refs) + 1
  BY DEF TypeOK, Children
<1>4. itrace' = itrace /\ iref' = iref => Passed' = Passed
  BY DEF Passed
<1>5. ASSUME NEW x \in Passed'
      PROVE  \E c \in DOMAIN file.children : \E r \in RefsOf(file, c) :
               x = <<c, r>> /\ (c < itrace' \/ (c = itrace' /\ r < iref'))
  BY <1>5 DEF Passed, Refs
<1>6. \A c \in DOMAIN file.children : \A r \in RefsOf(file, c) :
         c < itrace \/ (c = itrace /\ r < iref) => <<c, r>> \in Passed
  BY <1>1, PassedFacts
<1>7. itrace' = itrace /\ iref = 0 /\ iref' = 1 => Passed' \subseteq Passed
  BY <1>1, <1>2, <1>5, <1>6
<1>8. itrace' = itrace + 1 /\ iref' = 0 /\ itrace \in Children /\ ~file.children[itrace].group
        => Passed' \subseteq Passed \cup {<<itrace, 1>>}
  <2>1. itrace \in Children /\ ~file.children[itrace].group => RefsOf(file, itrace) = {1}
    BY <1>1, RefFacts DEF Children
  <2> QED
    BY <1>1, <1>2, <1>5, <1>6, <2>1
<1>9. itrace' = itrace /\ iref # 0 /\ iref' = iref + 1 => Passed' \subseteq Passed \cup {<<itrace, iref>>}
  BY <1>1, <1>2, <1>3, <1>5, <1>6
<1>10. itrace' = itrace + 1 /\ iref' = 0 /\ iref # 0 /\ iref \notin RefsOf(file, itrace) => Passed' \subseteq Passed
  BY <1>1, <1>2, <1>3, <1>5, <1>6
<1> QED
  BY <1>4, <1>7, <1>8, <1>9, <1>10

LEMMA InitMap == Init => MapInv
<1> SUFFICES ASSUME Init PROVE MapInv
  OBVIOUS
<1>1. TypeOK
  BY InitType DEF TypeInv
<1>2. Passed = {}
  <2>1. FileOK(file) /\ itrace = 1 /\ iref = 0 /\ \A c \in DOMAIN file.children : c \in Nat \ {0}
    BY <1>1, FileFacts DEF Init, Children
  <2>2. \A c \in Nat \ {0} : ~(c < 1)
    OBVIOUS
  <2>3. \A c \in DOMAIN file.children : \A r \in RefsOf(file, c) : r \in Nat \ {0}
    BY <2>1, RefFacts DEF RefsOf
  <2> QED
    BY <2>1, <2>2, <2>3, PassedFacts
<1> QED
  BY <1>2, EmptyFacts DEF Init, MapInv, Behind, OffsetsDisjoint, Complete, UndefinedOnlyForSkipped

(* A new place at the frontier, or behind it, keeps the map disjoint.      *)
LEMMA MapDisjoint ==
  ASSUME TypeOK, Behind, OffsetsDisjoint, file' = file,
         NEW id \in Ids, NEW a \in Nat, Map(id, a), Frontier <= a
  PROVE  /\ OffsetsDisjoint'
         /\ \A x \in DOMAIN m_offsetmap' : m_offsetmap'[x] + Width(file, x) <= a + Width(file, id)
<1>1. /\ DOMAIN m_offsetmap' = DOMAIN m_offsetmap \cup {id}
      /\ m_offsetmap'[id] = a
      /\ \A x \in DOMAIN m_offsetmap \ {id} : m_offsetmap'[x] = m_offsetmap[x]
  BY MapFacts
<1>2. \A x \in DOMAIN m_offsetmap \cup {id} : Width(file, x) \in Nat
  BY FileFacts DEF TypeOK
<1>3. Frontier \in Nat /\ \A x \in DOMAIN m_offsetmap : m_offsetmap[x] \in Nat
  BY DEF TypeOK, Frontier
<1>4. \A x \in DOMAIN m_offsetmap \ {id} : m_offsetmap'[x] \in Nat /\ m_offsetmap'[x] + Width(file, x) <= a
  BY <1>1, <1>2, <1>3 DEF Behind
<1>5. \A x, y \in DOMAIN m_offsetmap \ {id} :
        x # y => \/ m_offsetmap'[x] + Width(file, x) <= m_offsetmap'[y]
                 \/ m_offsetmap'[y] + Width(file, y) <= m_offsetmap'[x]
  BY <1>1 DEF OffsetsDisjoint
<1>6. OffsetsDisjoint'
  <2> SUFFICES ASSUME NEW x \in DOMAIN m_offsetmap \cup {id}, NEW y \in DOMAIN m_offsetmap \cup {id}, x # y
               PROVE  \/ m_offsetmap'[x] + Width(file, x) <= m_offsetmap'[y]
                      \/ m_offsetmap'[y] + Width(file, y) <= m_offsetmap'[x]
    BY <1>1 DEF OffsetsDisjoint, Width
  <2> QED
    BY <1>1, <1>4, <1>5
<1>7. \A x \in DOMAIN m_offsetmap' : m_offsetmap'[x] + Width(file, x) <= a + Width(file, id)
  <2> SUFFICES ASSUME NEW x \in DOMAIN m_offsetmap \cup {id}
               PROVE  m_offsetmap'[x] + Width(file, x) <= a + Width(file, id)
    BY <1>1
  <2>1. CASE x = id
    BY <1>1, <1>2, <2>1
  <2>2. CASE x # id
    <3>1. m_offsetmap'[x] \in Nat /\ m_offsetmap'[x] + Width(file, x) <= a
      BY <1>4, <2>2
    <3> QED
      BY <1>2, <3>1
  <2> QED
    BY <2>1, <2>2
<1> QED
  BY <1>6, <1>7

(* A place for the reference just passed keeps the map complete.           *)
LEMMA MapComplete ==
  ASSUME TypeOK, Complete, file' = file, NEW c, NEW r, NEW a, Map(Ref(file, c, r), a),
         Passed' \subseteq Passed \cup {<<c, r>>}
  PROVE  Complete'
<1>1. DOMAIN m_offsetmap' = DOMAIN m_offsetmap \cup {Ref(file, c, r)}
  BY DEF Map
<1> SUFFICES ASSUME NEW x \in Passed', ~Skipped(file, x[1])
             PROVE  Ref(file, x[1], x[2]) \in DOMAIN m_offsetmap'
  BY DEF Complete, Skipped, Ref
<1>2. CASE x \in Passed
  <2>1. Ref(file, x[1], x[2]) \in DOMAIN m_offsetmap
    BY <1>2 DEF Complete
  <2> QED
    BY <1>1, <2>1
<1>3. CASE x = <<c, r>>
  BY <1>1, <1>3
<1> QED
  BY <1>2, <1>3

LEMMA MapStep == TypeInv /\ MapInv /\ MapNext => MapInv'
<1> SUFFICES ASSUME TypeInv, MapInv, MapNext PROVE MapInv'
  OBVIOUS
<1>0. TypeOK /\ Books /\ Behind /\ OffsetsDisjoint /\ Complete /\ UndefinedOnlyForSkipped /\ file' = file
  BY DEF TypeInv, MapInv, MapNext, Deserialize, MapRef, EnterGroup, MapGroupRef, LeaveGroup, Mapped
<1>1. ASSUME answer' = answer \/ answer'.res \in {"IncorrectChunk", "PropertyNotFound"}
      PROVE  UndefinedOnlyForSkipped'
  BY <1>0, <1>1 DEF UndefinedOnlyForSkipped, Children, Skipped, Ref
<1>2. ASSUME UNCHANGED mapVars
      PROVE  Behind' /\ OffsetsDisjoint' /\ Complete'
  BY <1>0, <1>2, PassedGrows DEF Behind, OffsetsDisjoint, Complete, Frontier, Width, Skipped, Ref, mapVars
<1>3. CASE Deserialize
  BY <1>1, <1>2, <1>3 DEF Deserialize, OpenFails, Answer, MapInv
<1>4. CASE Mapped
  BY <1>1, <1>2, <1>4 DEF Mapped, MapInv
<1>5. CASE MapRef
  <2> DEFINE id == Ref(file, itrace, 1)
  <2>1. CASE UNCHANGED mapVars /\ answer'.res \in {"IncorrectChunk", "PropertyNotFound"}
    BY <1>1, <1>2, <2>1 DEF MapInv
  <2>2. CASE Skipped(file, itrace) /\ itrace' = itrace + 1 /\ UNCHANGED <<answer, m_offsetmap, m_valuesize>>
    <3>1. iref = 0 /\ iref' = 0 /\ itrace \in Children /\ ~file.children[itrace].group
      BY <1>0, <1>5, MapRefFacts
    <3>2. Passed' \subseteq Passed \cup {<<itrace, 1>>}
      BY <1>0, <2>2, <3>1, PassedGrows
    <3>3. Complete'
      BY <1>0, <2>2, <3>2 DEF Complete, Skipped, Ref
    <3> QED
      BY <1>0, <1>1, <2>2, <3>1, <3>3 DEF MapInv, Behind, OffsetsDisjoint, Frontier, Width
  <2>3. CASE /\ ~file.windowed /\ Map(id, m_valuesize + 8) /\ m_valuesize' = m_valuesize + 8 + file.size[id]
             /\ itrace' = itrace + 1 /\ UNCHANGED <<pc, answer>>
    <3>1. iref = 0 /\ iref' = 0 /\ itrace \in Children /\ ~file.children[itrace].group /\ id \in Ids
      BY <1>0, <1>5, MapRefFacts
    <3>2. Passed' \subseteq Passed \cup {<<itrace, 1>>}
      BY <1>0, <2>3, <3>1, PassedGrows
    <3>3. m_valuesize \in Nat /\ m_valuesize + 8 \in Nat /\ Frontier <= m_valuesize + 8
      BY <1>0, <3>1 DEF TypeOK, Frontier
    <3>4. /\ OffsetsDisjoint'
          /\ \A x \in DOMAIN m_offsetmap' : m_offsetmap'[x] + Width(file, x) <= m_valuesize + 8 + Width(file, id)
      BY <1>0, <2>3, <3>1, <3>3, MapDisjoint
    <3>5. Behind'
      BY <1>0, <2>3, <3>1, <3>4 DEF Behind, Frontier, Width
    <3>6. Complete'
      BY <1>0, <2>3, <3>2, MapComplete
    <3> QED
      BY <1>1, <2>3, <3>4, <3>5, <3>6 DEF MapInv
  <2> QED
    BY <1>0, <1>5, <2>1, <2>2, <2>3, MapRefFacts
<1>6. CASE EnterGroup
  <2>1. Frontier' = m_valuesize + Prefix(file) /\ Prefix(file) \in Nat /\ Frontier = m_valuesize
    BY <1>0, <1>6 DEF EnterGroup, Frontier, Prefix
  <2>2. Behind'
    <3> SUFFICES ASSUME NEW a \in DOMAIN m_offsetmap
                 PROVE  m_offsetmap[a] + Width(file, a) <= Frontier'
      BY <1>0, <1>6 DEF Behind, EnterGroup, Width
    <3>1. m_offsetmap[a] \in Nat /\ Width(file, a) \in Nat /\ m_valuesize \in Nat
      BY <1>0, FileFacts DEF TypeOK
    <3>2. m_offsetmap[a] + Width(file, a) <= m_valuesize
      BY <1>0, <2>1 DEF Behind
    <3> QED
      BY <2>1, <3>1, <3>2
  <2>3. Complete' /\ OffsetsDisjoint'
    BY <1>0, <1>6, PassedGrows DEF EnterGroup, Complete, OffsetsDisjoint, Skipped, Ref, Width
  <2> QED
    BY <1>1, <1>6, <2>2, <2>3 DEF EnterGroup, MapInv
<1>7. CASE MapGroupRef
  <2> DEFINE id == Ref(file, itrace, iref)
  <2>1. id \in Ids /\ offset \in Nat /\ Frontier <= offset /\ iref # 0 /\ iref + 1 # 0
    BY <1>0, <1>7, FileFacts, RefFacts DEF MapGroupRef, TypeOK, Children, Frontier
  <2>2. Map(id, offset) /\ offset' = offset + Width(file, id) /\ iref' = iref + 1 /\ itrace' = itrace
        /\ answer' = answer
    BY <1>7 DEF MapGroupRef
  <2>3. /\ OffsetsDisjoint'
        /\ \A x \in DOMAIN m_offsetmap' : m_offsetmap'[x] + Width(file, x) <= offset + Width(file, id)
    BY <1>0, <2>1, <2>2, MapDisjoint
  <2>4. Behind'
    BY <1>0, <2>1, <2>2, <2>3 DEF Behind, Frontier, Width
  <2>5. Passed' \subseteq Passed \cup {<<itrace, iref>>}
    BY <1>0, <2>1, <2>2, PassedGrows
  <2>6. Complete'
    BY <1>0, <2>2, <2>5, MapComplete
  <2> QED
    BY <1>1, <2>2, <2>3, <2>4, <2>6 DEF MapInv
<1>8. CASE LeaveGroup
  <2>1. Frontier' = Frontier
    BY <1>0, <1>8 DEF LeaveGroup, Frontier
  <2>2. Complete' /\ OffsetsDisjoint' /\ Behind'
    BY <1>0, <1>8, <2>1, PassedGrows DEF LeaveGroup, Complete, OffsetsDisjoint, Behind, Skipped, Ref, Width
  <2> QED
    BY <1>1, <1>8, <2>2 DEF LeaveGroup, MapInv
<1> QED
  BY <1>3, <1>4, <1>5, <1>6, <1>7, <1>8 DEF MapNext

(* A query of a trace that is listed looks in a map of all references.     *)
LEMMA AllPassed ==
  ASSUME TypeInv, Complete, pc \in {"ready", "read"}, query \in Listed
  PROVE  \E c \in Children : \E r \in RefsOf(file, c) :
           /\ query = Ref(file, c, r) /\ <<c, r>> \in Passed
           /\ ~Skipped(file, c) => query \in DOMAIN m_offsetmap
<1>1. PICK x \in Refs(file) : query = Ref(file, x[1], x[2])
  BY DEF Listed
<1>2. PICK c \in DOMAIN file.children : x \in {<<c, r>> : r \in RefsOf(file, c)}
  BY <1>1 DEF Refs
<1>3. PICK r \in RefsOf(file, c) : x = <<c, r>>
  BY <1>2
<1>4. FileOK(file) /\ c \in Nat /\ c < itrace
  <2>1. TypeOK /\ itrace = Len(file.children) + 1
    BY DEF TypeInv, Books
  <2> QED
    BY <1>2, <2>1, FileFacts DEF Children
<1>5. <<c, r>> \in Passed
  BY <1>2, <1>3, <1>4, PassedFacts
<1> QED
  BY <1>1, <1>2, <1>3, <1>5 DEF Complete, Children

LEMMA QueryStep == TypeInv /\ MapInv /\ UNCHANGED <<file, mapVars>>
                     /\ (answer' = answer \/ answer'.res # "undefined") => MapInv'
<1> SUFFICES ASSUME TypeInv, MapInv, UNCHANGED <<file, mapVars>>, answer' = answer \/ answer'.res # "undefined"
             PROVE  MapInv'
  OBVIOUS
<1>1. Behind' /\ OffsetsDisjoint' /\ Complete'
  BY PassedGrows DEF TypeInv, MapInv, Behind, OffsetsDisjoint, Complete, Frontier, Width, Skipped, Ref, mapVars
<1>2. UndefinedOnlyForSkipped'
  BY DEF MapInv, UndefinedOnlyForSkipped, Children, Skipped, Ref
<1> QED
  BY <1>1, <1>2 DEF MapInv

LEMMA ReadStep == TypeInv /\ MapInv /\ ReadNext => MapInv'
<1> SUFFICES ASSUME TypeInv, MapInv, ReadNext PROVE MapInv'
  OBVIOUS
<1>1. UNCHANGED <<file, mapVars>>
  BY DEF ReadNext, WrongChunk, NoOffset, WrongParam, Overrun, ReadWindow, ReadPoint, Return, QueryFails
<1>2. CASE NoOffset
  <2>1. /\ query # Sweep /\ query \notin DOMAIN m_offsetmap /\ pc = "read"
        /\ answer'.query = query
    BY <1>2 DEF NoOffset, Unmapped, Reading, QueryFails, Answer
  <2>2. PICK c \in Children : \E r \in RefsOf(file, c) : query = Ref(file, c, r) /\ Skipped(file, c)
    BY <2>1, AllPassed DEF TypeInv, Books, MapInv
  <2>3. query = Ref(file, c, 1)
    BY <2>2, FileFacts, RefFacts DEF TypeInv, Skipped, Children
  <2>4. UndefinedOnlyForSkipped'
    BY <1>1, <2>1, <2>2, <2>3 DEF UndefinedOnlyForSkipped, Skipped, Ref, Children
  <2>5. Behind' /\ OffsetsDisjoint' /\ Complete'
    BY <1>1, PassedGrows DEF TypeInv, MapInv, Behind, OffsetsDisjoint, Complete, Frontier, Width, Skipped, Ref, mapVars
  <2> QED
    BY <2>4, <2>5 DEF MapInv
<1>3. CASE WrongChunk \/ WrongParam \/ Overrun \/ ReadWindow \/ ReadPoint \/ Return
  <2>1. answer' = answer \/ answer'.res # "undefined"
    BY <1>3 DEF WrongChunk, WrongParam, Overrun, ReadWindow, ReadPoint, Return, QueryFails, Answer
  <2> QED
    BY <1>1, <2>1, QueryStep
<1> QED
  BY <1>2, <1>3 DEF ReadNext

LEMMA MapInvStep == TypeInv /\ MapInv /\ [Next]_vars => MapInv'
<1> SUFFICES ASSUME TypeInv, MapInv, [Next]_vars PROVE MapInv'
  OBVIOUS
<1>1. CASE UNCHANGED vars
  BY <1>1, QueryStep DEF vars
<1>2. ASSUME NEW q \in Listed \cup {Sweep}, Query(q)
      PROVE  MapInv'
  BY <1>2, QueryStep DEF Query
<1> QED
  BY <1>1, <1>2, MapStep, ReadStep DEF Next

(* Different traces are read from different bytes, whatever sizes, groups, *)
(* repeated ids and window size a file has (psfsweepvalue.cc:33,           *)
(* GroupDef::fill_offsetmap).                                              *)
THEOREM TracesApart == Spec => []OffsetsDisjoint
<1>1. TypeInv /\ MapInv => OffsetsDisjoint
  BY DEF MapInv
<1> QED
  BY <1>1, InitType, InitMap, StepType, MapInvStep, PTL DEF Spec

(* Only a trace that stands for the sweep is looked up in vain in the      *)
(* offset map (psfsweepvalue.cc:43-47).                                    *)
THEOREM OnlySkippedUndefined == Spec => []UndefinedOnlyForSkipped
<1>1. TypeInv /\ MapInv => UndefinedOnlyForSkipped
  BY DEF MapInv
<1> QED
  BY <1>1, InitType, InitMap, StepType, MapInvStep, PTL DEF Spec

-----------------------------------------------------------------------------
(* The vectors of a query that runs are filled up to point i; a window     *)
(* that holds more points than are left throws, but for the parameters.    *)
Filled ==
  pc = "read" =>
    /\ file.windowed => Len(m_paramvalues) = i
    /\ query # Sweep \/ ~file.windowed => i <= file.npoints
    /\ \A k \in 1 .. i : m_paramvalues[k] # Unset
    /\ query # Sweep => \A k \in 1 .. i : data[k] # Unset

WholeInv == Filled /\ WholeAnswers

(* A step that neither reads nor returns.                                  *)
LEMMA WholeKept ==
  ASSUME WholeInv, file' = file, pc' # "read", answer' = answer \/ answer'.res # "values"
  PROVE  WholeInv'
BY DEF WholeInv, Filled, WholeAnswers

LEMMA WholeQuery == ASSUME TypeInv, WholeInv, NEW q \in Listed \cup {Sweep}, Query(q) PROVE WholeInv'
<1>1. /\ UNCHANGED <<file, answer>> /\ i' = 0 /\ file.npoints \in Nat /\ \A k : k \notin 1 .. 0
      /\ file.windowed => m_paramvalues' = << >>
  BY FileFacts DEF Query, TypeInv
<1> QED
  BY <1>1, EmptyFacts DEF WholeInv, Filled, WholeAnswers

(* A window fills the next n elements of both vectors.                     *)
LEMMA WholeWindow == TypeInv /\ WholeInv /\ ReadWindow => WholeInv'
<1> SUFFICES ASSUME TypeInv, WholeInv, ReadWindow PROVE WholeInv'
  OBVIOUS
<1>1. PICK n \in Nat : n = Points
  BY WordFacts DEF TypeInv
<1>2. /\ UNCHANGED <<file, pc, query, answer>> /\ pc = "read" /\ file.windowed
      /\ ReadValues(n) /\ i' = i + n /\ i \in Nat
      /\ query # Sweep => i + n <= file.npoints
  BY <1>1 DEF ReadWindow, WindowFits, Reading, TypeInv, TypeOK
<1>3. \A a : Value(file, a) # Unset
  BY FileFacts, ValuesAssumed DEF TypeInv
<1>4. Len(m_paramvalues) = i /\ Len(m_paramvalues') = i + n
  BY <1>2, ReadValuesFacts DEF WholeInv, Filled
<1>5. ASSUME NEW k \in 1 .. i + n PROVE m_paramvalues'[k] # Unset
  <2>1. m_paramvalues'[k] = IF k <= i THEN m_paramvalues[k]
                            ELSE Value(file, buf + 8 + (k - i - 1) * file.paramsize)
    BY <1>2, <1>4 DEF ReadValues
  <2>2. k <= i => k \in 1 .. i
    BY <1>2
  <2> QED
    BY <1>2, <1>3, <2>1, <2>2 DEF WholeInv, Filled
<1>6. ASSUME query # Sweep, NEW k \in 1 .. i + n PROVE data'[k] # Unset
  <2>1. k \in DOMAIN data
    <3>1. DOMAIN data = 1 .. file.npoints /\ file.npoints \in Nat /\ i + n <= file.npoints
      BY <1>2, <1>6, FileFacts DEF TypeInv, TypeOK
    <3> QED
      BY <1>2, <3>1
  <2>2. data'[k] = IF k <= i \/ k > i + n THEN data[k]
                   ELSE Value(file, TraceBuf(buf + 8 + n * file.paramsize, n) + (k - i - 1) * file.size[query])
    BY <1>2, <2>1 DEF ReadValues
  <2>3. k <= i => k \in 1 .. i
    BY <1>2
  <2>4. ~(k > i + n)
    BY <1>2
  <2> QED
    BY <1>2, <1>3, <1>6, <2>2, <2>3, <2>4 DEF WholeInv, Filled
<1> QED
  BY <1>2, <1>4, <1>5, <1>6 DEF WholeInv, Filled, WholeAnswers

(* A point fills one element of each.                                      *)
LEMMA WholePoint == TypeInv /\ WholeInv /\ ReadPoint => WholeInv'
<1> SUFFICES ASSUME TypeInv, WholeInv, ReadPoint PROVE WholeInv'
  OBVIOUS
<1> DEFINE valuebuf == buf + 8 + file.paramsize
<1>1. /\ UNCHANGED <<file, pc, query, answer>> /\ pc = "read" /\ ~file.windowed /\ i < file.npoints
      /\ m_paramvalues' = [m_paramvalues EXCEPT ![i + 1] = Value(file, buf + 8)]
      /\ data' = [k \in DOMAIN data |->
                    IF k # i + 1 THEN data[k] ELSE Value(file, valuebuf + m_offsetmap[query])]
      /\ i' = i + 1 /\ i \in Nat /\ file.npoints \in Nat
  BY FileFacts DEF ReadPoint, Reading, TypeInv, TypeOK
<1>2. \A a : Value(file, a) # Unset
  BY FileFacts, ValuesAssumed DEF TypeInv
<1>3. DOMAIN m_paramvalues = 1 .. file.npoints
  BY <1>1 DEF TypeInv, TypeOK, Books
<1>4. ASSUME NEW k \in 1 .. i + 1
      PROVE  k \in 1 .. file.npoints /\ (k # i + 1 => k \in 1 .. i)
  BY <1>1
<1>5. ASSUME NEW k \in 1 .. i + 1 PROVE m_paramvalues'[k] # Unset
  BY <1>1, <1>2, <1>3, <1>4 DEF WholeInv, Filled
<1>6. ASSUME query # Sweep, NEW k \in 1 .. i + 1 PROVE data'[k] # Unset
  <2>1. k \in DOMAIN data
    BY <1>4, <1>6 DEF TypeInv, TypeOK
  <2> QED
    BY <1>1, <1>2, <1>4, <1>6, <2>1 DEF WholeInv, Filled
<1> QED
  BY <1>1, <1>5, <1>6 DEF WholeInv, Filled, WholeAnswers

(* The call returns when both are full.                                    *)
LEMMA WholeReturn == TypeInv /\ WholeInv /\ Return => WholeInv'
<1> SUFFICES ASSUME TypeInv, WholeInv, Return PROVE WholeInv'
  OBVIOUS
<1>1. /\ UNCHANGED file /\ pc = "read" /\ pc' = "ready" /\ i >= file.npoints /\ i \in Nat /\ file.npoints \in Nat
      /\ answer'.query = query /\ answer'.data = IF query = Sweep THEN m_paramvalues ELSE data
  BY FileFacts DEF Return, Answer, TypeInv, TypeOK
<1>2. CASE query = Sweep
  <2>1. m_paramvalues \in Seq(Values \cup {Unset}) /\ Len(m_paramvalues) \in Nat
    BY DEF TypeInv, TypeOK
  <2>2. Len(m_paramvalues) = i
    BY <1>1 DEF WholeInv, Filled, TypeInv, Books
  <2>3. DOMAIN m_paramvalues = 1 .. i
    BY <2>1, <2>2
  <2> QED
    BY <1>1, <1>2, <2>2, <2>3 DEF WholeInv, Filled, WholeAnswers
<1>3. CASE query # Sweep
  <2>1. data \in [1 .. file.npoints -> Values \cup {Unset}] /\ i = file.npoints
    BY <1>1, <1>3 DEF WholeInv, Filled, TypeInv, TypeOK
  <2>2. Len(data) = file.npoints
    BY <1>1, <2>1, VectorFacts
  <2> QED
    BY <1>1, <1>3, <2>1, <2>2 DEF WholeInv, Filled, WholeAnswers
<1> QED
  BY <1>2, <1>3

LEMMA WholeStep == TypeInv /\ WholeInv /\ [Next]_vars => WholeInv'
<1> SUFFICES ASSUME TypeInv, WholeInv, [Next]_vars PROVE WholeInv'
  OBVIOUS
<1>1. CASE MapNext
  <2>1. file' = file /\ pc' # "read"
    BY <1>1 DEF MapNext, Deserialize, MapRef, EnterGroup, MapGroupRef, LeaveGroup, Mapped, OpenFails
  <2>2. answer' = answer \/ answer'.res # "values"
    BY <1>1 DEF MapNext, Deserialize, MapRef, EnterGroup, MapGroupRef, LeaveGroup, Mapped, OpenFails, Answer
  <2> QED
    BY <2>1, <2>2, WholeKept
<1>2. CASE WrongChunk \/ NoOffset \/ WrongParam \/ Overrun
  <2>1. file' = file /\ pc' # "read" /\ answer'.res # "values"
    BY <1>2 DEF WrongChunk, NoOffset, WrongParam, Overrun, QueryFails, Answer
  <2> QED
    BY <2>1, WholeKept
<1>3. CASE UNCHANGED vars
  BY <1>3 DEF vars, queryVars, WholeInv, Filled, WholeAnswers
<1> QED
  BY <1>1, <1>2, <1>3, WholeQuery, WholeWindow, WholePoint, WholeReturn DEF Next, ReadNext

(* Whatever its header, trace section and windows say of each other, a     *)
(* file never has a query return a vector shorter than the header's number *)
(* of points, or one with an element that was not read                     *)
(* (psfsweepvalue.cc:167-270): it throws instead.                          *)
THEOREM AnswersWhole == Spec => []WholeAnswers
<1>1. Init => WholeInv
  BY DEF Init, WholeInv, Filled, WholeAnswers
<1>2. WholeInv => WholeAnswers
  BY DEF WholeInv
<1> QED
  BY <1>1, <1>2, InitType, StepType, WholeStep, PTL DEF Spec

-----------------------------------------------------------------------------
(* The layout of a well-formed file.                                       *)

(* Under this assumption, all files are as simulators write them.          *)
AllWellFormed == \A f \in Files : WellFormed(f)

LEMMA LayoutFacts ==
  ASSUME AllWellFormed, TypeOK
  PROVE  /\ FileOK(file) /\ WellFormed(file)
         /\ file.base[1] = 0
         /\ \A c \in Children : /\ ~Skipped(file, c)
                                /\ ~file.children[c].group => ~file.windowed /\ file.key[Ref(file, c, 1)] \notin {"sweep", "absent"}
                                /\ file.at[c][1] = file.base[c] + Prefix(file)
                                /\ \A r \in RefsOf(file, c) : file.at[c][r + 1] = file.at[c][r] + Width(file, Ref(file, c, r))
                                /\ file.base[c + 1] = file.at[c][Len(file.children[c].refs) + 1]
         /\ file.windowed => file.padded
<1>1. FileOK(file) /\ WellFormed(file)
  BY FilesAssumed DEF TypeOK, AllWellFormed
<1>2. \A c \in Children : ~Skipped(file, c)
  BY <1>1 DEF WellFormed, Skipped, Children
<1> QED
  BY <1>1, <1>2 DEF WellFormed, RefsPlaced, Children

LEMMA WindowFacts ==
  ASSUME AllWellFormed, TypeOK
  PROVE  /\ Len(file.count) \in Nat /\ DOMAIN file.count = 1 .. Len(file.count)
         /\ file.start[1] = 0 /\ file.first[1] = 0 /\ file.first[Len(file.count) + 1] = file.npoints
         /\ \A w \in 1 .. Len(file.count) :
              /\ file.count[w] \in Nat /\ file.first[w] \in Nat /\ file.start[w] \in Nat
              /\ file.first[w + 1] = file.first[w] + file.count[w]
              /\ file.start[w + 1] = TracesAt(file, w) + TraceBytes(file)
              /\ ~file.windowed => file.count[w] = 1
         /\ \A w \in 1 .. Len(file.count) + 1 : file.first[w] \in 0 .. file.npoints
         /\ file.windowed => file.ntraces * file.windowsize = TraceBytes(file)
         /\ file.param \in [1 .. file.npoints -> Values]
         /\ file.wave \in [Ids -> [1 .. file.npoints -> Values]]
<1>1. FileOK(file) /\ WellFormed(file) /\ file.npoints \in Nat
  BY FilesAssumed DEF TypeOK, AllWellFormed, FileOK
<1>2. Len(file.count) \in Nat /\ DOMAIN file.count = 1 .. Len(file.count)
  BY <1>1 DEF WellFormed
<1>3. WindowsPlaced(file)
  BY <1>1 DEF WellFormed
<1>4. \A w \in 1 .. Len(file.count) + 1 : file.first[w] \in 0 .. file.npoints
  <2> SUFFICES ASSUME NEW w \in 1 .. Len(file.count) + 1 PROVE file.first[w] \in 0 .. file.npoints
    OBVIOUS
  <2>1. CASE w \in 1 .. Len(file.count)
    BY <1>2, <1>3, <2>1 DEF WindowsPlaced
  <2>2. CASE w = Len(file.count) + 1
    BY <1>1, <1>3, <2>2 DEF WindowsPlaced
  <2> QED
    BY <1>2, <2>1, <2>2
<1>5. file.start[1] = 0 /\ file.first[1] = 0 /\ file.first[Len(file.count) + 1] = file.npoints
  BY <1>3 DEF WindowsPlaced
<1>6. ASSUME NEW w \in 1 .. Len(file.count)
      PROVE  /\ file.count[w] \in Nat /\ file.first[w] \in Nat /\ file.start[w] \in Nat
             /\ file.first[w + 1] = file.first[w] + file.count[w]
             /\ file.start[w + 1] = TracesAt(file, w) + TraceBytes(file)
             /\ ~file.windowed => file.count[w] = 1
  <2>1. w \in DOMAIN file.count
    BY <1>2
  <2> QED
    BY <1>1, <1>3, <2>1 DEF WindowsPlaced
<1>7. /\ file.windowed => file.ntraces * file.windowsize = TraceBytes(file)
      /\ file.param \in [1 .. file.npoints -> Values]
      /\ file.wave \in [Ids -> [1 .. file.npoints -> Values]]
  BY <1>1 DEF WellFormed
<1> QED
  BY <1>2, <1>4, <1>5, <1>6, <1>7

(* What stands at a point of a window.                                     *)
LEMMA PointFacts ==
  ASSUME AllWellFormed, TypeOK, NEW w \in 1 .. Len(file.count)
  PROVE  /\ Word(file, file.start[w]) = VALUECHUNK
         /\ file.windowed => Word(file, file.start[w] + 4) % 65536 = file.count[w]
         /\ ~file.windowed => Word(file, file.start[w] + 4) = file.paramid
         /\ \A k \in 1 .. file.count[w] :
              /\ Value(file, file.start[w] + 8 + (k - 1) * file.paramsize) = file.param[file.first[w] + k]
              /\ \A c \in Children : \A r \in RefsOf(file, c) :
                   Value(file, TracesAt(file, w) + file.at[c][r] + Shift(file, Ref(file, c, r), file.count[w])
                                 + (k - 1) * file.size[Ref(file, c, r)])
                     = file.wave[Ref(file, c, r)][file.first[w] + k]
<1>1. WellFormed(file)
  BY DEF TypeOK, AllWellFormed
<1>2. ValuesPlaced(file) /\ w \in DOMAIN file.count
  BY <1>1, WindowFacts DEF WellFormed
<1> QED
  BY <1>2 DEF ValuesPlaced, Children

-----------------------------------------------------------------------------
(* Opening.  The offset that runs through a group is where the next        *)
(* reference was written; m_valuesize, where the next child begins.        *)
Places ==
  /\ OffsetsRecorded
  /\ iref # 0 => offset = file.at[itrace][iref]
  /\ pc \in {"open", "map"} => answer.res = "opened"

LEMMA InitPlaces == AllWellFormed /\ Init => Places
<1> SUFFICES ASSUME AllWellFormed, Init PROVE Places
  OBVIOUS
<1>1. TypeOK
  BY InitType DEF TypeInv
<1>2. FileOK(file) /\ itrace = 1 /\ iref = 0 /\ \A c \in DOMAIN file.children : ~(c < itrace)
  <2>1. FileOK(file) /\ \A c \in DOMAIN file.children : c \in Nat \ {0}
    BY <1>1, FileFacts DEF Children
  <2> QED
    BY <2>1 DEF Init
<1>3. Passed = {}
  <2>1. \A c \in DOMAIN file.children : \A r \in RefsOf(file, c) : r \in Nat \ {0}
    BY <1>2, RefFacts DEF RefsOf
  <2> QED
    BY <1>2, <2>1, PassedFacts
<1> QED
  BY <1>1, <1>3, LayoutFacts DEF Init, Places, OffsetsRecorded

(* A reference is mapped once: what was mapped before stays.               *)
LEMMA MapPlaces ==
  ASSUME AllWellFormed, TypeOK, OffsetsRecorded, file' = file,
         NEW c \in Children, NEW r \in RefsOf(file, c), <<c, r>> \notin Passed,
         Map(Ref(file, c, r), file.at[c][r])
  PROVE  \A x \in Passed \cup {<<c, r>>} :
           /\ Ref(file, x[1], x[2]) \in DOMAIN m_offsetmap'
           /\ m_offsetmap'[Ref(file, x[1], x[2])] = file.at[x[1]][x[2]]
<1> DEFINE id == Ref(file, c, r)
<1>1. FileOK(file) /\ DistinctIds(file) /\ \A d \in Children : ~Skipped(file, d)
  BY LayoutFacts DEF WellFormed
<1>2. /\ DOMAIN m_offsetmap' = DOMAIN m_offsetmap \cup {id}
      /\ m_offsetmap'[id] = file.at[c][r]
      /\ \A x \in DOMAIN m_offsetmap \ {id} : m_offsetmap'[x] = m_offsetmap[x]
  BY DEF Map
<1>3. ASSUME NEW x \in Passed
      PROVE  /\ Ref(file, x[1], x[2]) \in DOMAIN m_offsetmap'
             /\ m_offsetmap'[Ref(file, x[1], x[2])] = file.at[x[1]][x[2]]
  <2>1. PICK d \in DOMAIN file.children : \E s \in RefsOf(file, d) : x = <<d, s>>
    BY <1>1, PassedFacts
  <2>2. PICK s \in RefsOf(file, d) : x = <<d, s>>
    BY <2>1
  <2>3. Ref(file, d, s) # id
    BY <1>1, <2>2 DEF DistinctIds, Children
  <2>4. Ref(file, d, s) \in DOMAIN m_offsetmap /\ m_offsetmap[Ref(file, d, s)] = file.at[d][s]
    BY <1>1, <2>2 DEF OffsetsRecorded, Children
  <2> QED
    BY <1>2, <2>2, <2>3, <2>4
<1> QED
  BY <1>2, <1>3

(* A well-formed file opens: no step of the loops throws.                  *)
LEMMA OpenPlaces ==
  ASSUME AllWellFormed, TypeInv, Places, MapNext
  PROVE  Places' /\ answer' = answer /\ pc' \in {"map", "ready"}
<1>0. TypeOK /\ Books /\ OffsetsRecorded /\ FileOK(file) /\ (file' = file)
  BY FileFacts DEF TypeInv, Places, MapNext, Deserialize, MapRef, EnterGroup, MapGroupRef, LeaveGroup, Mapped
<1>1. CASE Deserialize
  <2>1. UNCHANGED mapVars /\ answer' = answer /\ pc' = "map" /\ pc = "open"
    BY <1>0, <1>1, LayoutFacts DEF Deserialize
  <2>2. answer.res = "opened"
    BY <2>1 DEF Places
  <2> QED
    BY <1>0, <2>1, <2>2, PassedGrows DEF Places, OffsetsRecorded, mapVars, Skipped, Ref
<1>2. CASE Mapped
  <2>1. UNCHANGED mapVars /\ answer' = answer /\ pc' = "ready"
    BY <1>2 DEF Mapped
  <2> QED
    BY <1>0, <2>1, PassedGrows DEF Places, OffsetsRecorded, mapVars, Skipped, Ref
<1>3. CASE MapRef
  <2> DEFINE id == Ref(file, itrace, 1)
  <2>1. itrace \in Children /\ ~file.children[itrace].group /\ id \in Ids /\ iref = 0 /\ iref' = 0 /\ pc = "map"
    BY <1>0, <1>3, MapRefFacts
  <2>2. ~file.windowed /\ file.key[id] # "absent" /\ ~Skipped(file, itrace)
    BY <1>0, <2>1, LayoutFacts
  <2>3. /\ Map(id, m_valuesize + 8) /\ m_valuesize' = m_valuesize + 8 + file.size[id]
        /\ itrace' = itrace + 1 /\ pc' = pc /\ answer' = answer
    BY <1>0, <1>3, <2>2, MapRefFacts
  <2>4. RefsOf(file, itrace) = {1} /\ Len(file.children[itrace].refs) = 1
    BY <1>0, <2>1, RefFacts DEF FileOK, Children
  <2>5. m_valuesize = file.base[itrace] /\ file.at[itrace][1] = m_valuesize + 8
    BY <1>0, <2>1, <2>2, LayoutFacts DEF OffsetsRecorded, Prefix
  <2>6. file.base[itrace + 1] = file.at[itrace][2] /\ file.at[itrace][2] = file.at[itrace][1] + file.size[id]
    <3>1. /\ file.base[itrace + 1] = file.at[itrace][1 + 1]
          /\ file.at[itrace][1 + 1] = file.at[itrace][1] + Width(file, id)
      BY <1>0, <2>1, <2>4, LayoutFacts
    <3>2. Width(file, id) = file.size[id] /\ 1 + 1 = 2
      BY <2>2 DEF Width
    <3> QED
      BY <3>1, <3>2
  <2>7. <<itrace, 1>> \notin Passed
    BY <1>0, <2>1 DEF Passed, TypeOK
  <2>8. \A x \in Passed \cup {<<itrace, 1>>} :
           /\ Ref(file, x[1], x[2]) \in DOMAIN m_offsetmap'
           /\ m_offsetmap'[Ref(file, x[1], x[2])] = file.at[x[1]][x[2]]
    BY <1>0, <2>1, <2>3, <2>4, <2>5, <2>7, MapPlaces
  <2>9. Passed' \subseteq Passed \cup {<<itrace, 1>>}
    BY <1>0, <2>1, <2>3, PassedGrows
  <2> QED
    BY <1>0, <2>1, <2>3, <2>5, <2>6, <2>8, <2>9 DEF Places, OffsetsRecorded, Skipped, Ref
<1>4. CASE EnterGroup
  <2>1. itrace \in Children /\ iref = 0 /\ iref' = 1 /\ offset' = m_valuesize + Prefix(file) /\ pc = "map"
        /\ UNCHANGED <<pc, itrace, m_offsetmap, m_valuesize, answer>>
    BY <1>4 DEF EnterGroup
  <2>2. offset' = file.at[itrace][1]
    BY <1>0, <2>1, LayoutFacts DEF OffsetsRecorded
  <2>3. Passed' \subseteq Passed
    BY <1>0, <2>1, PassedGrows
  <2> QED
    BY <1>0, <2>1, <2>2, <2>3 DEF Places, OffsetsRecorded, Skipped, Ref
<1>5. CASE MapGroupRef
  <2>1. /\ iref # 0 /\ iref \in RefsOf(file, itrace) /\ itrace \in Children /\ pc = "map" /\ iref \in Nat
        /\ Map(Ref(file, itrace, iref), offset)
        /\ offset' = offset + Width(file, Ref(file, itrace, iref)) /\ iref' = iref + 1
        /\ UNCHANGED <<pc, itrace, m_valuesize, answer>>
    BY <1>0, <1>5 DEF MapGroupRef, TypeOK
  <2>2. offset = file.at[itrace][iref] /\ offset' = file.at[itrace][iref + 1]
    BY <1>0, <2>1, LayoutFacts DEF Places
  <2>3. <<itrace, iref>> \notin Passed
    BY <1>0, <2>1 DEF Passed, TypeOK
  <2>4. \A x \in Passed \cup {<<itrace, iref>>} :
           /\ Ref(file, x[1], x[2]) \in DOMAIN m_offsetmap'
           /\ m_offsetmap'[Ref(file, x[1], x[2])] = file.at[x[1]][x[2]]
    BY <1>0, <2>1, <2>2, <2>3, MapPlaces
  <2>5. Passed' \subseteq Passed \cup {<<itrace, iref>>}
    BY <1>0, <2>1, PassedGrows
  <2> QED
    BY <1>0, <2>1, <2>2, <2>4, <2>5 DEF Places, OffsetsRecorded, Skipped, Ref
<1>6. CASE LeaveGroup
  <2>1. /\ iref # 0 /\ iref \notin RefsOf(file, itrace) /\ itrace \in Children /\ pc = "map"
        /\ m_valuesize' = offset /\ itrace' = itrace + 1 /\ iref' = 0
        /\ UNCHANGED <<pc, m_offsetmap, answer>>
    BY <1>0, <1>6 DEF LeaveGroup, TypeOK
  <2>2. iref = Len(file.children[itrace].refs) + 1
    BY <1>0, <2>1, RefFacts DEF TypeOK, RefsOf, Children
  <2>3. offset = file.base[itrace + 1]
    BY <1>0, <2>1, <2>2, LayoutFacts DEF Places
  <2>4. Passed' \subseteq Passed
    BY <1>0, <2>1, PassedGrows
  <2> QED
    BY <1>0, <2>1, <2>3, <2>4 DEF Places, OffsetsRecorded, Skipped, Ref
<1> QED
  BY <1>1, <1>2, <1>3, <1>4, <1>5, <1>6 DEF MapNext

LEMMA KeepPlaces ==
  ASSUME TypeInv, Places, UNCHANGED <<file, mapVars>>, (pc' = pc /\ answer' = answer) \/ pc' \in {"ready", "read", "failed"}
  PROVE  Places'
<1>1. Passed' = Passed
  BY PassedGrows DEF TypeInv, mapVars
<1> QED
  BY <1>1 DEF Places, OffsetsRecorded, Skipped, Ref, mapVars

LEMMA StepPlaces == AllWellFormed /\ TypeInv /\ Places /\ [Next]_vars => Places'
<1> SUFFICES ASSUME AllWellFormed, TypeInv, Places, [Next]_vars PROVE Places'
  OBVIOUS
<1>1. CASE UNCHANGED vars
  BY <1>1, KeepPlaces DEF vars
<1>2. CASE MapNext
  BY <1>2, OpenPlaces
<1>3. CASE ReadNext
  <2>1. UNCHANGED <<file, mapVars>> /\ pc = "read" /\ pc' \in {"ready", "read", "failed"}
    BY <1>3 DEF ReadNext, WrongChunk, NoOffset, WrongParam, Overrun, ReadWindow, ReadPoint, Return,
                QueryFails, Reading, WindowFits
  <2> QED
    BY <2>1, KeepPlaces
<1>4. ASSUME NEW q \in Listed \cup {Sweep}, Query(q)
      PROVE  Places'
  BY <1>4, KeepPlaces DEF Query
<1> QED
  BY <1>1, <1>2, <1>3, <1>4 DEF Next

(* The offset map of a well-formed file says where the simulator wrote.    *)
THEOREM OffsetsAreRecorded ==
  ASSUME AllWellFormed
  PROVE  Spec => []OffsetsRecorded
<1>1. Init => TypeInv /\ Places
  BY InitType, InitPlaces
<1>2. TypeInv /\ Places /\ [Next]_vars => (TypeInv /\ Places)'
  BY StepType, StepPlaces
<1>3. Places => OffsetsRecorded
  BY DEF Places
<1> QED
  BY <1>1, <1>2, <1>3, PTL DEF Spec

-----------------------------------------------------------------------------
(* Reading.  A query that runs stands at the start of a window.            *)
Stands == TypeInv /\ Places /\ Complete /\ ReadSoFar /\ AllWellFormed

(* Where the values of the trace asked for begin in a window of n points.  *)
LEMMA QueryPlaced ==
  ASSUME Stands, pc = "read", query # Sweep
  PROVE  \E c \in Children : \E r \in RefsOf(file, c) :
           /\ query = Ref(file, c, r) /\ query \in DOMAIN m_offsetmap
           /\ m_offsetmap[query] = file.at[c][r]
<1>1. query \in Listed /\ TypeOK /\ TypeInv /\ Complete
  BY DEF Stands, TypeInv, Books
<1>2. PICK c \in Children : \E r \in RefsOf(file, c) :
             /\ query = Ref(file, c, r) /\ <<c, r>> \in Passed
             /\ ~Skipped(file, c) => query \in DOMAIN m_offsetmap
  BY <1>1, AllPassed
<1>3. PICK r \in RefsOf(file, c) : /\ query = Ref(file, c, r) /\ <<c, r>> \in Passed
                                   /\ ~Skipped(file, c) => query \in DOMAIN m_offsetmap
  BY <1>2
<1>4. ~Skipped(file, c)
  BY <1>1, LayoutFacts DEF Stands
<1> QED
  BY <1>3, <1>4 DEF Stands, Places, OffsetsRecorded

(* The window at which a query with points left stands, and the next one.  *)
LEMMA AtWindow ==
  ASSUME Stands, Reading
  PROVE  \E w \in 1 .. Len(file.count) :
           /\ buf = file.start[w] /\ i = file.first[w]
           /\ Word(file, buf) = VALUECHUNK /\ ParamAsserted
           /\ file.windowed => Points = file.count[w]
           /\ i + file.count[w] = file.first[w + 1] /\ i + file.count[w] <= file.npoints
           /\ file.start[w + 1] = buf + 8 + file.count[w] * file.paramsize + TraceBytes(file)
<1>1. TypeOK /\ AllWellFormed /\ pc = "read" /\ i < file.npoints /\ file.npoints \in Nat
  BY FileFacts DEF Stands, TypeInv, Reading
<1>2. PICK w \in 1 .. Len(file.count) + 1 : buf = file.start[w] /\ i = file.first[w]
  BY <1>1 DEF Stands, ReadSoFar
<1>3. w \in 1 .. Len(file.count)
  <2>1. w # Len(file.count) + 1
    BY <1>1, <1>2, WindowFacts
  <2> QED
    BY <1>1, <2>1, WindowFacts
<1>4. w + 1 \in 1 .. Len(file.count) + 1
  BY <1>1, <1>3, WindowFacts
<1>5. /\ i + file.count[w] = file.first[w + 1] /\ file.first[w + 1] \in 0 .. file.npoints
      /\ file.start[w + 1] = buf + 8 + file.count[w] * file.paramsize + TraceBytes(file)
  BY <1>1, <1>2, <1>3, <1>4, WindowFacts DEF TracesAt
<1>6. Word(file, buf) = VALUECHUNK /\ ParamAsserted /\ (file.windowed => Points = file.count[w])
  BY <1>1, <1>2, <1>3, PointFacts DEF ParamAsserted, Points
<1> QED
  BY <1>1, <1>2, <1>3, <1>5, <1>6

(* No query of a well-formed file throws.                                  *)
LEMMA NothingThrows ==
  ASSUME Stands
  PROVE  ~WrongChunk /\ ~NoOffset /\ ~WrongParam /\ ~Overrun
<1>1. Reading => Word(file, buf) = VALUECHUNK /\ ParamAsserted
                   /\ (file.windowed => i + Points <= file.npoints)
  BY AtWindow
<1>2. Reading => ~Unmapped
  BY QueryPlaced DEF Unmapped, Reading
<1>3. i + Points \in Nat /\ file.npoints \in Nat
  BY FileFacts, WordFacts DEF Stands, TypeInv, TypeOK
<1> QED
  BY <1>1, <1>2, <1>3 DEF WrongChunk, NoOffset, WrongParam, Overrun

LEMMA QueryReads ==
  ASSUME Stands, NEW q \in Listed \cup {Sweep}, Query(q)
  PROVE  ReadSoFar'
<1>1. /\ buf' = 0 /\ i' = 0 /\ file' = file /\ query' = q
      /\ file.windowed => m_paramvalues' = << >>
  BY DEF Query
<1>2. file.start[1] = 0 /\ file.first[1] = 0 /\ 1 \in 1 .. Len(file.count) + 1
  BY WindowFacts DEF Stands, TypeInv
<1>3. \A k : k \notin 1 .. 0
  OBVIOUS
<1> QED
  BY <1>1, <1>2, <1>3, EmptyFacts DEF ReadSoFar

LEMMA WindowReads ==
  ASSUME Stands, ReadWindow
  PROVE  ReadSoFar'
<1> DEFINE n == Points
<1>0. TypeOK /\ TypeInv /\ AllWellFormed /\ FileOK(file) /\ Reading /\ file.windowed /\ ReadValues(n)
      /\ buf' = buf + 8 + n * file.paramsize + file.ntraces * file.windowsize /\ i' = i + n
      /\ UNCHANGED <<file, pc, mapVars, query>> /\ pc = "read" /\ n \in Nat /\ i \in Nat /\ buf \in Nat
  BY FileFacts, WordFacts DEF Stands, TypeInv, TypeOK, ReadWindow, WindowFits, Reading
<1>1. PICK w \in 1 .. Len(file.count) :
        /\ buf = file.start[w] /\ i = file.first[w] /\ n = file.count[w]
        /\ i + n = file.first[w + 1] /\ i + n <= file.npoints
        /\ file.start[w + 1] = buf + 8 + n * file.paramsize + TraceBytes(file)
  BY <1>0, AtWindow
<1>nat. n \in Nat /\ i \in Nat /\ file.first[w] = i /\ n = file.count[w] /\ buf = file.start[w]
  BY <1>0, <1>1
<1>shift. ASSUME NEW k \in 1 .. i + n, ~(k <= i)
         PROVE  \E j \in 1 .. file.count[w] : file.first[w] + j = k /\ k - i - 1 = j - 1
  <2>1. k - i \in 1 .. n /\ file.first[w] + (k - i) = k
    BY <1>nat, <1>shift
  <2> QED
    BY <1>nat, <2>1
<1>2. file.ntraces * file.windowsize = TraceBytes(file) /\ w + 1 \in 1 .. Len(file.count) + 1
  BY <1>0, WindowFacts
<1>3. buf' = file.start[w + 1] /\ i' = file.first[w + 1]
  BY <1>0, <1>1, <1>2
<1>4. Len(m_paramvalues) = i /\ Len(m_paramvalues') = i + n
  BY <1>0, ReadValuesFacts DEF Stands, ReadSoFar
<1>5. ASSUME NEW k \in 1 .. i + n
      PROVE  m_paramvalues'[k] = file.param[k]
  <2>1. m_paramvalues'[k] = IF k <= i THEN m_paramvalues[k]
                            ELSE Value(file, buf + 8 + (k - i - 1) * file.paramsize)
    BY <1>0, <1>4 DEF ReadValues
  <2>2. CASE k <= i
    BY <1>0, <2>1, <2>2 DEF Stands, ReadSoFar
  <2>3. CASE ~(k <= i)
    <3>1. PICK j \in 1 .. file.count[w] : file.first[w] + j = k /\ k - i - 1 = j - 1
      BY <1>shift, <2>3
    <3>2. Value(file, file.start[w] + 8 + (j - 1) * file.paramsize) = file.param[file.first[w] + j]
      BY <1>0, PointFacts
    <3> QED
      BY <1>nat, <2>1, <2>3, <3>1, <3>2
  <2> QED
    BY <2>2, <2>3
<1>6. ASSUME query # Sweep, NEW k \in 1 .. i + n
      PROVE  data'[k] = file.wave[query][k]
  <2>1. DOMAIN data = 1 .. file.npoints /\ file.npoints \in Nat /\ k \in DOMAIN data
    BY <1>0, <1>1, <1>6, FileFacts DEF TypeOK
  <2>2. data'[k] = IF k <= i \/ k > i + n THEN data[k]
                   ELSE Value(file, TraceBuf(buf + 8 + n * file.paramsize, n) + (k - i - 1) * file.size[query])
    BY <1>0, <2>1 DEF ReadValues
  <2>3. CASE k <= i
    BY <1>0, <1>6, <2>2, <2>3 DEF Stands, ReadSoFar
  <2>4. CASE ~(k <= i)
    <3>1. PICK j \in 1 .. file.count[w] : file.first[w] + j = k /\ k - i - 1 = j - 1
      BY <1>shift, <2>4
    <3>2. PICK c \in Children : \E r \in RefsOf(file, c) : query = Ref(file, c, r) /\ m_offsetmap[query] = file.at[c][r]
      BY <1>0, <1>6, QueryPlaced
    <3>3. PICK r \in RefsOf(file, c) : query = Ref(file, c, r) /\ m_offsetmap[query] = file.at[c][r]
      BY <3>2
    <3>4. TraceBuf(buf + 8 + n * file.paramsize, n) = TracesAt(file, w) + file.at[c][r] + Shift(file, query, n)
      BY <1>0, <1>1, <3>3 DEF TraceBuf, TracesAt, Shift
    <3>5. query = Ref(file, c, r) /\ TypeOK /\ AllWellFormed
      BY <1>0, <3>3
    <3>6. Value(file, TracesAt(file, w) + file.at[c][r] + Shift(file, query, file.count[w]) + (j - 1) * file.size[query])
            = file.wave[query][file.first[w] + j]
      BY <3>5, PointFacts
    <3>7. Value(file, TracesAt(file, w) + file.at[c][r] + Shift(file, query, n) + (k - i - 1) * file.size[query])
            = file.wave[query][k]
      BY <1>nat, <3>1, <3>6
    <3> QED
      BY <1>nat, <2>2, <2>4, <3>4, <3>7
  <2> QED
    BY <2>3, <2>4
<1> HIDE DEF n
<1> QED
  BY <1>0, <1>2, <1>3, <1>4, <1>5, <1>6 DEF ReadSoFar

LEMMA PointReads ==
  ASSUME Stands, ReadPoint
  PROVE  ReadSoFar'
<1> DEFINE valuebuf == buf + 8 + file.paramsize
<1>0. TypeOK /\ TypeInv /\ AllWellFormed /\ FileOK(file) /\ Reading /\ ~file.windowed
      /\ m_paramvalues' = [m_paramvalues EXCEPT ![i + 1] = Value(file, buf + 8)]
      /\ data' = [k \in DOMAIN data |->
                    IF k # i + 1 THEN data[k] ELSE Value(file, valuebuf + m_offsetmap[query])]
      /\ buf' = valuebuf + m_valuesize /\ i' = i + 1
      /\ UNCHANGED <<file, pc, mapVars, query>> /\ pc = "read" /\ i \in Nat /\ buf \in Nat
      /\ file.npoints \in Nat /\ file.paramsize \in Nat
  BY FileFacts DEF Stands, TypeInv, TypeOK, ReadPoint, Reading
<1>1. PICK w \in 1 .. Len(file.count) :
        /\ buf = file.start[w] /\ i = file.first[w]
        /\ i + file.count[w] = file.first[w + 1] /\ i + file.count[w] <= file.npoints
        /\ file.start[w + 1] = buf + 8 + file.count[w] * file.paramsize + TraceBytes(file)
  BY <1>0, AtWindow
<1>2. file.count[w] = 1 /\ w + 1 \in 1 .. Len(file.count) + 1 /\ 1 \in 1 .. file.count[w]
  BY <1>0, WindowFacts
<1>3. m_valuesize = TraceBytes(file)
  BY <1>0 DEF Stands, Places, OffsetsRecorded, TypeInv, Books, TraceBytes
<1>4. buf' = file.start[w + 1] /\ i' = file.first[w + 1] /\ TracesAt(file, w) = valuebuf
  BY <1>0, <1>1, <1>2, <1>3 DEF TracesAt
<1>nat. i \in Nat /\ i + 1 <= file.npoints /\ file.npoints \in Nat
        /\ \A k \in 1 .. i + 1 : k \in 1 .. file.npoints /\ (k # i + 1 => k \in 1 .. i)
  <2>1. i \in Nat /\ i + 1 <= file.npoints /\ file.npoints \in Nat
    BY <1>0, <1>1, <1>2
  <2> QED
    BY <2>1
<1>5. ASSUME NEW k \in 1 .. i + 1
      PROVE  m_paramvalues'[k] = file.param[k]
  <2>1. k \in DOMAIN m_paramvalues
    <3>1. m_paramvalues \in Seq(Values \cup {Unset}) /\ Len(m_paramvalues) = file.npoints
      BY <1>0 DEF TypeInv, Books, TypeOK
    <3> QED
      BY <1>nat, <3>1
  <2>2. CASE k # i + 1
    BY <1>0, <1>nat, <2>1, <2>2 DEF Stands, ReadSoFar
  <2>3. CASE k = i + 1
    <3>1. Value(file, file.start[w] + 8 + (1 - 1) * file.paramsize) = file.param[file.first[w] + 1]
      BY <1>0, <1>2, PointFacts
    <3>2. file.start[w] + 8 + (1 - 1) * file.paramsize = buf + 8
      BY <1>0, <1>1
    <3> QED
      BY <1>0, <1>1, <2>1, <2>3, <3>1, <3>2
  <2> QED
    BY <2>2, <2>3
<1>6. ASSUME query # Sweep, NEW k \in 1 .. i + 1
      PROVE  data'[k] = file.wave[query][k]
  <2>1. DOMAIN data = 1 .. file.npoints /\ k \in DOMAIN data
    BY <1>0, <1>nat, <1>6 DEF TypeOK
  <2>2. CASE k # i + 1
    BY <1>0, <1>nat, <1>6, <2>1, <2>2 DEF Stands, ReadSoFar
  <2>3. CASE k = i + 1
    <3>1. PICK c \in Children : \E r \in RefsOf(file, c) :
            query = Ref(file, c, r) /\ query \in DOMAIN m_offsetmap /\ m_offsetmap[query] = file.at[c][r]
      BY <1>0, <1>6, QueryPlaced
    <3>2. PICK r \in RefsOf(file, c) :
            query = Ref(file, c, r) /\ query \in DOMAIN m_offsetmap /\ m_offsetmap[query] = file.at[c][r]
      BY <3>1
    <3>3. Value(file, TracesAt(file, w) + file.at[c][r] + Shift(file, query, file.count[w]) + (1 - 1) * file.size[query])
            = file.wave[query][file.first[w] + 1]
      <4> DEFINE At(kk, cc, rr) ==
                   Value(file, TracesAt(file, w) + file.at[cc][rr] + Shift(file, Ref(file, cc, rr), file.count[w])
                                 + (kk - 1) * file.size[Ref(file, cc, rr)])
                     = file.wave[Ref(file, cc, rr)][file.first[w] + kk]
      <4>1. \A kk \in 1 .. file.count[w] : \A cc \in Children : \A rr \in RefsOf(file, cc) : At(kk, cc, rr)
        BY <1>0, PointFacts
      <4>2. At(1, c, r)
        <5> HIDE DEF At
        <5> QED
          BY <1>2, <4>1
      <4> QED
        BY <3>2, <4>2
    <3>4. m_offsetmap[query] \in Nat /\ file.size[query] \in Nat
      BY <1>0, <3>2, FileFacts DEF TypeOK
    <3>5. TracesAt(file, w) + file.at[c][r] + Shift(file, query, file.count[w]) + (1 - 1) * file.size[query]
            = valuebuf + m_offsetmap[query]
      BY <1>0, <1>4, <3>2, <3>4 DEF Shift
    <3> QED
      BY <1>0, <1>1, <2>1, <2>3, <3>3, <3>5
  <2> QED
    BY <2>2, <2>3
<1> QED
  BY <1>0, <1>2, <1>4, <1>5, <1>6 DEF ReadSoFar

(* All that is known of a state in which files are well-formed.            *)
ReaderInv == TypeInv /\ MapInv /\ Places /\ ReadSoFar

LEMMA InvStands == AllWellFormed /\ ReaderInv => Stands
BY DEF Stands, ReaderInv, MapInv

LEMMA InitReader == AllWellFormed /\ Init => ReaderInv
BY InitType, InitMap, InitPlaces DEF ReaderInv, ReadSoFar, Init

LEMMA StepReader == AllWellFormed /\ ReaderInv /\ [Next]_vars => ReaderInv'
<1> SUFFICES ASSUME AllWellFormed, ReaderInv, [Next]_vars PROVE ReaderInv'
  OBVIOUS
<1>1. TypeInv /\ MapInv /\ Places /\ ReadSoFar /\ Stands
  BY InvStands DEF ReaderInv
<1>2. TypeInv' /\ MapInv' /\ Places'
  BY <1>1, StepType, MapInvStep, StepPlaces
<1>3. ReadSoFar'
  <2>1. CASE UNCHANGED vars
    BY <1>1, <2>1 DEF vars, queryVars, ReadSoFar
  <2>2. CASE MapNext
    <3>1. pc' # "read"
      BY <1>1, <2>2, OpenPlaces
    <3> QED
      BY <3>1 DEF ReadSoFar
  <2>3. CASE Return
    <3>1. pc' # "read"
      BY <2>3 DEF Return
    <3> QED
      BY <3>1 DEF ReadSoFar
  <2>4. CASE ReadNext
    BY <1>1, <2>3, <2>4, NothingThrows, WindowReads, PointReads DEF ReadNext
  <2>5. ASSUME NEW q \in Listed \cup {Sweep}, Query(q)
        PROVE  ReadSoFar'
    BY <1>1, <2>5, QueryReads
  <2> QED
    BY <2>1, <2>2, <2>4, <2>5 DEF Next
<1> QED
  BY <1>2, <1>3 DEF ReaderInv

(* A query of a well-formed file stands at the start of a window or point, *)
(* and has read what was recorded up to there (psfsweepvalue.cc:153-249).  *)
THEOREM ReadAsRecorded ==
  ASSUME AllWellFormed
  PROVE  Spec => []ReadSoFar
<1>1. Init => ReaderInv
  BY InitReader
<1>2. ReaderInv /\ [Next]_vars => ReaderInv'
  BY StepReader
<1>3. ReaderInv => ReadSoFar
  BY DEF ReaderInv
<1> QED
  BY <1>1, <1>2, <1>3, PTL DEF Spec

-----------------------------------------------------------------------------
(* The abstract reader.                                                    *)

Asked == IF pc = "read" THEN <<query>> ELSE << >>
Replied == IF answer.res = "values" THEN answer.data ELSE << >>

LEMMA SameVectors ==
  ASSUME NEW D, NEW S, NEW T, NEW f \in [D -> S], NEW g \in [D -> T], \A k \in D : f[k] = g[k]
  PROVE  f = g
<1>1. f = [k \in D |-> f[k]] /\ g = [k \in D |-> g[k]]
  OBVIOUS
<1>2. [k \in D |-> f[k]] = [k \in D |-> g[k]]
  OBVIOUS
<1> QED
  BY <1>1, <1>2

(* A query that has read all points returns the waveform.                  *)
LEMMA ReturnsWhole ==
  ASSUME AllWellFormed, ReaderInv, Return
  PROVE  answer'.res = "values" /\ answer'.data = Recorded(query)
<1>1. /\ TypeInv /\ TypeOK /\ Books /\ ReadSoFar /\ pc = "read" /\ i >= file.npoints /\ file.npoints \in Nat
      /\ answer' = [res |-> "values", query |-> query, data |-> IF query = Sweep THEN m_paramvalues ELSE data]
  BY FileFacts DEF ReaderInv, TypeInv, Return, Answer
<1>2. i = file.npoints
  <2>1. PICK w \in 1 .. Len(file.count) + 1 : i = file.first[w]
    BY <1>1 DEF ReadSoFar
  <2>2. i \in 0 .. file.npoints
    BY <1>1, <2>1, WindowFacts
  <2> QED
    BY <1>1, <2>2
<1>3. CASE query = Sweep
  <2>1. m_paramvalues \in Seq(Values \cup {Unset}) /\ Len(m_paramvalues) = file.npoints
    BY <1>1, <1>2 DEF ReadSoFar, Books, TypeOK
  <2>2. m_paramvalues \in [1 .. file.npoints -> Values \cup {Unset}]
    BY <2>1
  <2>3. file.param \in [1 .. file.npoints -> Values] /\ \A k \in 1 .. file.npoints : m_paramvalues[k] = file.param[k]
    BY <1>1, <1>2, WindowFacts DEF ReadSoFar
  <2>4. m_paramvalues = file.param
    <3> DEFINE D == 1 .. file.npoints
               S == Values \cup {Unset}
               v == m_paramvalues
               u == file.param
    <3>1. v \in [D -> S] /\ u \in [D -> Values] /\ \A k \in D : v[k] = u[k]
      BY <2>2, <2>3
    <3> HIDE DEF D, S, v, u
    <3>2. v = u
      BY <3>1, SameVectors
    <3> QED
      BY <3>2 DEF v, u
  <2> QED
    BY <1>1, <1>3, <2>4 DEF Recorded
<1>4. CASE query # Sweep
  <2>1. query \in Ids
    BY <1>1, <1>4 DEF TypeOK
  <2>2. data \in [1 .. file.npoints -> Values \cup {Unset}]
    BY <1>1, <1>4 DEF TypeOK
  <2>3. file.wave[query] \in [1 .. file.npoints -> Values]
    BY <1>1, <2>1, WindowFacts
  <2>4. \A k \in 1 .. file.npoints : data[k] = file.wave[query][k]
    BY <1>1, <1>2, <1>4 DEF ReadSoFar
  <2>5. data = file.wave[query]
    <3> DEFINE D == 1 .. file.npoints
               S == Values \cup {Unset}
               v == data
               u == file.wave[query]
    <3>1. v \in [D -> S] /\ u \in [D -> Values] /\ \A k \in D : v[k] = u[k]
      BY <2>2, <2>3, <2>4
    <3> HIDE DEF D, S, v, u
    <3>2. v = u
      BY <3>1, SameVectors
    <3> QED
      BY <3>2 DEF v, u
  <2> QED
    BY <1>1, <1>4, <2>5 DEF Recorded
<1> QED
  BY <1>3, <1>4

LEMMA InitRefines == Init => Reader!Init
BY DEF Init, Reader!Init

LEMMA StepRefines == AllWellFormed /\ ReaderInv /\ [Next]_vars => [Reader!Next]_(Reader!vars)
<1> SUFFICES ASSUME AllWellFormed, ReaderInv, [Next]_vars PROVE [Reader!Next]_(Reader!vars)
  OBVIOUS
<1>0. Stands /\ TypeInv /\ TypeOK /\ Places
  BY InvStands DEF ReaderInv, TypeInv
<1>1. ASSUME file' = file, Asked' = Asked, Replied' = Replied
      PROVE  UNCHANGED Reader!vars
  BY <1>1 DEF Reader!vars, Asked, Replied
<1>2. CASE UNCHANGED vars
  BY <1>1, <1>2 DEF vars, queryVars, Asked, Replied
<1>3. CASE MapNext
  <2>1. file' = file /\ answer' = answer /\ pc' \in {"map", "ready"} /\ pc # "read"
    BY <1>0, <1>3, OpenPlaces DEF MapNext, Deserialize, MapRef, EnterGroup, MapGroupRef, LeaveGroup, Mapped
  <2> QED
    BY <1>1, <2>1 DEF Asked, Replied
<1>4. CASE ReadWindow \/ ReadPoint
  BY <1>1, <1>4 DEF ReadWindow, ReadPoint, Asked, Replied
<1>5. CASE Return
  <2>1. answer'.res = "values" /\ answer'.data = Recorded(query)
    BY <1>5, ReturnsWhole
  <2>2. pc = "read" /\ pc' = "ready" /\ file' = file
    BY <1>5 DEF Return
  <2>3. Reader!Reply
    BY <2>1, <2>2 DEF Reader!Reply, Reader!Waveform, Recorded
  <2> QED
    BY <2>3 DEF Reader!Next
<1>6. ASSUME NEW q \in Listed \cup {Sweep}, Query(q)
      PROVE  [Reader!Next]_(Reader!vars)
  <2>1. q \in Ids \cup {Sweep}
    BY <1>0, FileFacts
  <2>2. Reader!Ask(q)
    BY <1>6 DEF Query, Reader!Ask
  <2> QED
    BY <2>1, <2>2 DEF Reader!Next
<1> QED
  BY <1>0, <1>2, <1>3, <1>4, <1>5, <1>6, NothingThrows DEF Next, ReadNext

(* Well-formed files are read as the abstract reader reads them: every     *)
(* answer of get_values and get_param_values is the waveform recorded.     *)
THEOREM Refines ==
  ASSUME AllWellFormed
  PROVE  Spec => Reader!Spec
<1>1. Init => ReaderInv /\ Reader!Init
  BY InitReader, InitRefines
<1>2. ReaderInv /\ [Next]_vars => ReaderInv' /\ [Reader!Next]_(Reader!vars)
  BY StepReader, StepRefines
<1> QED
  BY <1>1, <1>2, PTL DEF Spec, Reader!Spec
=============================================================================
