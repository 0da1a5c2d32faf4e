--------------------------- MODULE ValueSectionSweep ---------------------------
(***************************************************************************)
(* The swept value section: ValueSectionSweep of psfsweepvalue.cc, which   *)
(* maps trace ids to offsets when the file is opened, and SweepValueSimple *)
(* and SweepValueWindowed, which read a trace or the sweep parameter from  *)
(* the values, a point or a window of points at a time.                    *)
(***************************************************************************)
EXTENDS SweepFile

CONSTANT Files     \* the files that may be opened

ASSUME FilesAssumed == \A f \in Files : FileOK(f)
ASSUME SweepAssumed == Sweep \notin Ids

VARIABLES
  file,          \* the file that is open
  pc,            \* what runs: open, the loop over references, a query
  itrace, iref,  \* the next child; in a group, the next reference (0: none)
  offset,        \* in a group, the offset of the next reference
  m_offsetmap, m_valuesize,
  query,         \* the trace of the filter, or Sweep: the filter is empty
  buf, i,        \* of deserialize: next address, points read
  m_paramvalues, data,
  answer         \* the last call's query, and what it returned or threw

mapVars   == <<itrace, iref, offset, m_offsetmap, m_valuesize>>
queryVars == <<query, buf, i, m_paramvalues, data>>
vars == <<file, pc, mapVars, queryVars, answer>>

Outcomes == {"opened", "values", "IncorrectChunk", "PropertyNotFound", "out_of_range", "abort", "undefined"}
Answer(res, v) == answer' = [res |-> res, query |-> query, data |-> v]

Children == DOMAIN file.children
Listed   == {Ref(file, x[1], x[2]) : x \in Refs(file)}

Init ==
  /\ file \in Files
  /\ pc = "open"
  /\ itrace = 1 /\ iref = 0 /\ offset = 0
  /\ m_offsetmap = << >> /\ m_valuesize = 0
  /\ query = Sweep /\ buf = 0 /\ i = 0 /\ m_paramvalues = << >> /\ data = << >>
  /\ answer = [res |-> "opened", query |-> Sweep, data |-> << >>]

(* An exception while the file is opened; one that ends a query.           *)
OpenFails(ex) == pc' = "failed" /\ Answer(ex, << >>)
QueryFails(ex) ==
  /\ pc' = IF ex \in {"abort", "undefined"} THEN "failed" ELSE "ready"
  /\ Answer(ex, << >>)
  /\ UNCHANGED <<file, mapVars, queryVars>>

-----------------------------------------------------------------------------
(* deserialize and _create_valueoffsetmap.                                 *)

Deserialize ==
  /\ pc = "open"
  /\ \/ /\ file.windowed => file.padded
        /\ pc' = "map" /\ UNCHANGED answer
     \/ /\ file.windowed /\ ~file.padded
        /\ OpenFails("IncorrectChunk")
  /\ UNCHANGED <<file, mapVars, queryVars>>

Map(id, a) ==
  m_offsetmap' = [x \in DOMAIN m_offsetmap \cup {id} |-> IF x = id THEN a ELSE m_offsetmap[x]]

(* Mutant: a type without the property "key" is taken for the sweep.       *)
MapRefLenient ==
  /\ pc = "map" /\ itrace \in Children /\ ~file.children[itrace].group
  /\ LET id == Ref(file, itrace, 1)
     IN \/ /\ file.windowed
           /\ OpenFails("IncorrectChunk") /\ UNCHANGED mapVars
        \/ /\ ~file.windowed
           /\ itrace' = itrace + 1
           /\ IF file.key[id] \in {"absent", "sweep"} THEN UNCHANGED <<m_offsetmap, m_valuesize>>
              ELSE Map(id, m_valuesize + 8) /\ m_valuesize' = m_valuesize + 8 + file.size[id]
           /\ UNCHANGED <<pc, answer, iref, offset>>
  /\ UNCHANGED <<file, queryVars>>

(* A reference at the top level.                                           *)
MapRef ==
  /\ pc = "map" /\ itrace \in Children /\ ~file.children[itrace].group
  /\ LET id  == Ref(file, itrace, 1)
         key == file.key[id]
     IN \/ /\ file.windowed
           /\ OpenFails("IncorrectChunk") /\ UNCHANGED mapVars
        \/ /\ ~file.windowed /\ key = "absent"
           /\ OpenFails("PropertyNotFound") /\ UNCHANGED mapVars
        \/ /\ ~file.windowed /\ key = "sweep"
           /\ itrace' = itrace + 1
           /\ UNCHANGED <<pc, answer, iref, offset, m_offsetmap, m_valuesize>>
        \/ /\ ~file.windowed /\ key \notin {"absent", "sweep"}
           /\ Map(id, m_valuesize + 8)
           /\ m_valuesize' = m_valuesize + 8 + file.size[id]
           /\ itrace' = itrace + 1
           /\ UNCHANGED <<pc, answer, iref, offset>>
  /\ UNCHANGED <<file, queryVars>>

(* Mutant: the 8 bytes before a group's values are forgotten.              *)
EnterGroupUnprefixed ==
  /\ pc = "map" /\ itrace \in Children /\ file.children[itrace].group /\ iref = 0
  /\ iref' = 1
  /\ offset' = m_valuesize
  /\ UNCHANGED <<file, pc, itrace, m_offsetmap, m_valuesize, queryVars, answer>>

(* GroupDef::fill_offsetmap: entry, one reference, return.                 *)
EnterGroup ==
  /\ pc = "map" /\ itrace \in Children /\ file.children[itrace].group /\ iref = 0
  /\ iref' = 1
  /\ offset' = m_valuesize + Prefix(file)
  /\ UNCHANGED <<file, pc, itrace, m_offsetmap, m_valuesize, queryVars, answer>>

(* Mutant: every reference of a group gets the offset of the group.        *)
MapGroupRefInPlace ==
  /\ pc = "map" /\ iref # 0 /\ iref \in RefsOf(file, itrace)
  /\ Map(Ref(file, itrace, iref), offset)
  /\ iref' = iref + 1
  /\ UNCHANGED <<file, pc, itrace, offset, m_valuesize, queryVars, answer>>

MapGroupRef ==
  /\ pc = "map" /\ iref # 0 /\ iref \in RefsOf(file, itrace)
  /\ Map(Ref(file, itrace, iref), offset)
  /\ offset' = offset + Width(file, Ref(file, itrace, iref))
  /\ iref' = iref + 1
  /\ UNCHANGED <<file, pc, itrace, m_valuesize, queryVars, answer>>

(* Mutant: the next child finds the iterator of this group.                *)
LeaveGroupInside ==
  /\ pc = "map" /\ iref # 0 /\ iref \notin RefsOf(file, itrace)
  /\ m_valuesize' = offset
  /\ itrace' = itrace + 1
  /\ UNCHANGED <<file, pc, iref, offset, m_offsetmap, queryVars, answer>>

LeaveGroup ==
  /\ pc = "map" /\ iref # 0 /\ iref \notin RefsOf(file, itrace)
  /\ m_valuesize' = offset
  /\ itrace' = itrace + 1 /\ iref' = 0
  /\ UNCHANGED <<file, pc, offset, m_offsetmap, queryVars, answer>>

Mapped ==
  /\ pc = "map" /\ iref = 0 /\ itrace \notin Children
  /\ pc' = "ready"
  /\ UNCHANGED <<file, mapVars, queryVars, answer>>

-----------------------------------------------------------------------------
(* get_values(name) and get_param_values, then deserialize of the value.   *)

(* Mutant: the parameter vector of the last query is used again.           *)
QueryAppends(q) ==
  /\ pc = "ready"
  /\ query' = q
  /\ buf' = 0 /\ i' = 0
  /\ m_paramvalues' = IF file.windowed THEN m_paramvalues ELSE [k \in 1 .. file.npoints |-> Unset]
  /\ data' = IF q = Sweep THEN << >> ELSE [k \in 1 .. file.npoints |-> Unset]
  /\ pc' = "read"
  /\ UNCHANGED <<file, mapVars, answer>>

Query(q) ==
  /\ pc = "ready"
  /\ query' = q
  /\ buf' = 0 /\ i' = 0
  /\ m_paramvalues' = IF file.windowed THEN << >> ELSE [k \in 1 .. file.npoints |-> Unset]
  /\ data' = IF q = Sweep THEN << >> ELSE [k \in 1 .. file.npoints |-> Unset]
  /\ pc' = "read"
  /\ UNCHANGED <<file, mapVars, answer>>

Reading == pc = "read" /\ i < file.npoints

(* Mutant: another chunk than a value ends the loop.                       *)
WrongChunkEnds ==
  /\ Reading /\ Word(file, buf) # VALUECHUNK
  /\ pc' = "ready"
  /\ Answer("values", IF query = Sweep THEN m_paramvalues ELSE data)
  /\ UNCHANGED <<file, mapVars, queryVars>>

WrongChunk ==
  /\ Reading /\ Word(file, buf) # VALUECHUNK
  /\ QueryFails("IncorrectChunk")

(* The assertion that the point starts with the sweep parameter's id.      *)
ParamAsserted == file.windowed \/ Word(file, buf + 4) = file.paramid

WrongParam ==
  /\ Reading /\ Word(file, buf) = VALUECHUNK /\ ~ParamAsserted
  /\ QueryFails("abort")

(* m_offsetmap.find(id)->second for an id that is not in the map.          *)
Unmapped == query # Sweep /\ query \notin DOMAIN m_offsetmap

NoOffset ==
  /\ Reading /\ Word(file, buf) = VALUECHUNK /\ ParamAsserted /\ Unmapped
  /\ QueryFails("undefined")

(* A window: its number of points is in the low half of the word.          *)
Points == Word(file, buf + 4) % 65536

(* A window that holds more points than are left: vector::at throws.       *)
Overrun ==
  /\ Reading /\ file.windowed /\ Word(file, buf) = VALUECHUNK /\ ~Unmapped
  /\ query # Sweep /\ i + Points > file.npoints
  /\ QueryFails("out_of_range")

(* Mutant: the values are at the start of the trace's part of the window.  *)
TraceBufLeft(valuebuf, n) == valuebuf + m_offsetmap[query]

(* Where the values of the trace begin, if the window holds n points.      *)
TraceBuf(valuebuf, n) ==
  valuebuf + m_offsetmap[query] + (file.windowsize - n * file.size[query])

(* The two vectors after a window of n points.                             *)
ReadValues(n) ==
  LET old      == Len(m_paramvalues)
      parambuf == buf + 8
      valuebuf == parambuf + n * file.paramsize
  IN /\ m_paramvalues' =
          [k \in 1 .. old + n |->
             IF k <= old THEN m_paramvalues[k]
             ELSE Value(file, parambuf + (k - old - 1) * file.paramsize)]
     /\ data' =
          [k \in DOMAIN data |->
             IF k <= i \/ k > i + n THEN data[k]
             ELSE Value(file, TraceBuf(valuebuf, n) + (k - i - 1) * file.size[query])]

WindowFits ==
  /\ Reading /\ file.windowed /\ Word(file, buf) = VALUECHUNK /\ ~Unmapped
  /\ query # Sweep => i + Points <= file.npoints

(* Mutant: a window without points is read again.                          *)
ReadWindowAgain ==
  /\ WindowFits
  /\ ReadValues(Points)
  /\ buf' = IF Points = 0 THEN buf
            ELSE buf + 8 + Points * file.paramsize + file.ntraces * file.windowsize
  /\ i' = i + Points
  /\ UNCHANGED <<file, pc, mapVars, query, answer>>

ReadWindow ==
  /\ WindowFits
  /\ ReadValues(Points)
  /\ buf' = buf + 8 + Points * file.paramsize + file.ntraces * file.windowsize
  /\ i' = i + Points
  /\ UNCHANGED <<file, pc, mapVars, query, answer>>

(* A point of a file without windows.                                      *)
ReadPoint ==
  /\ Reading /\ ~file.windowed /\ Word(file, buf) = VALUECHUNK
  /\ ParamAsserted /\ ~Unmapped
  /\ LET parambuf == buf + 8
         valuebuf == parambuf + file.paramsize
     IN /\ m_paramvalues' = [m_paramvalues EXCEPT ![i + 1] = Value(file, parambuf)]
        /\ data' = [k \in DOMAIN data |->
                      IF k # i + 1 THEN data[k] ELSE Value(file, valuebuf + m_offsetmap[query])]
        /\ buf' = valuebuf + m_valuesize
        /\ i' = i + 1
  /\ UNCHANGED <<file, pc, mapVars, query, answer>>

Return ==
  /\ pc = "read" /\ i >= file.npoints
  /\ pc' = "ready"
  /\ Answer("values", IF query = Sweep THEN m_paramvalues ELSE data)
  /\ UNCHANGED <<file, mapVars, queryVars>>

-----------------------------------------------------------------------------
MapNext  == Deserialize \/ MapRef \/ EnterGroup \/ MapGroupRef \/ LeaveGroup \/ Mapped
ReadNext == WrongChunk \/ NoOffset \/ WrongParam \/ Overrun \/ ReadWindow \/ ReadPoint \/ Return

Next ==
  \/ MapNext
  \/ ReadNext
  \/ \E q \in Listed \cup {Sweep} : Query(q)

Spec == Init /\ [][Next]_vars

(* The program is sequential: a call runs until it returns or throws.      *)
FairSpec == Spec /\ WF_vars(MapNext) /\ WF_vars(ReadNext)

-----------------------------------------------------------------------------
(* Properties.                                                             *)

TypeOK ==
  /\ file \in Files
  /\ pc \in {"open", "map", "ready", "read", "failed"}
  /\ itrace \in 1 .. Len(file.children) + 1
  /\ iref # 0 => /\ itrace \in Children /\ file.children[itrace].group
                 /\ iref \in 1 .. Len(file.children[itrace].refs) + 1
  /\ offset \in Nat /\ m_valuesize \in Nat
  /\ DOMAIN m_offsetmap \subseteq Ids /\ \A id \in DOMAIN m_offsetmap : m_offsetmap[id] \in Nat
  /\ query \in Ids \cup {Sweep}
  /\ buf \in Nat /\ i \in Nat
  /\ m_paramvalues \in Seq(Values \cup {Unset})
  /\ data \in [1 .. (IF query = Sweep THEN 0 ELSE file.npoints) -> Values \cup {Unset}]
  /\ answer.res \in Outcomes

(* The references that the loops have passed.                              *)
Passed == {x \in Refs(file) : x[1] < itrace \/ (x[1] = itrace /\ x[2] < iref)}

(* The offset map has, of every reference passed that has values, the      *)
(* offset at which the simulator wrote them, and m_valuesize is where the  *)
(* next child begins.                                                      *)
OffsetsRecorded ==
  /\ m_valuesize = file.base[itrace]
  /\ \A x \in Passed :
       ~Skipped(file, x[1]) => /\ Ref(file, x[1], x[2]) \in DOMAIN m_offsetmap
                               /\ m_offsetmap[Ref(file, x[1], x[2])] = file.at[x[1]][x[2]]

(* While a query runs it stands at the start of a window (or point) of the *)
(* file, and the vectors hold what was recorded up to there.               *)
Recorded(q) == IF q = Sweep THEN file.param ELSE file.wave[q]

ReadSoFar ==
  pc = "read" =>
    /\ \E w \in 1 .. Len(file.count) + 1 : buf = file.start[w] /\ i = file.first[w]
    /\ file.windowed => Len(m_paramvalues) = i
    /\ \A k \in 1 .. i : /\ m_paramvalues[k] = file.param[k]
                         /\ query # Sweep => data[k] = file.wave[query][k]

(* The values of different traces are read from different bytes.           *)
OffsetsDisjoint ==
  \A a, b \in DOMAIN m_offsetmap :
    a # b => \/ m_offsetmap[a] + Width(file, a) <= m_offsetmap[b]
             \/ m_offsetmap[b] + Width(file, b) <= m_offsetmap[a]

(* No query returns a part of a waveform: what the header promises and the *)
(* windows do not hold, or hold in excess, ends in an exception.           *)
WholeAnswers ==
  answer.res = "values" =>
    /\ answer.query # Sweep => Len(answer.data) = file.npoints
    /\ Len(answer.data) >= file.npoints
    /\ \A k \in DOMAIN answer.data : answer.data[k] # Unset

(* The read past the end of the offset map happens for no trace but one    *)
(* that stands for the sweep of a waveform family.                         *)
UndefinedOnlyForSkipped ==
  answer.res = "undefined" =>
    \E c \in Children : Skipped(file, c) /\ answer.query = Ref(file, c, 1)

(* Every call ends, whatever the counts in the file say: each turn of the  *)
(* loop moves on in the file, also past a window without points.           *)
CallsEnd == (pc \in {"open", "map", "read"}) ~> (pc \in {"ready", "failed"})

(* psfsweepvalue.cc:43-47 skips the trace of a waveform family "to get a   *)
(* correct offset"; psfpython.cc:229 promises the values of a signal.      *)
ListedTracesReadable == answer.res # "undefined"

(* A well-formed file is read back as it was recorded.                     *)
Reader == INSTANCE SweepReader WITH
  Recordings <- Files,
  recording  <- file,
  asked      <- IF pc = "read" THEN <<query>> ELSE << >>,
  reply      <- IF answer.res = "values" THEN answer.data ELSE << >>

Implements == Reader!FairSpec
=============================================================================
