--------------------------- MODULE SweptSignal_proofs ---------------------------
(***************************************************************************)
(* Theorems about SweptSignal, for every trace section and every file that *)
(* is as simulators write it: the two components' invariants hold of their *)
(* composition, and together they implement the reader by name.            *)
(***************************************************************************)
EXTENDS SweptSignal, TraceSection_proofs, ValueSectionSweep_proofs

NamesInv == NamesTypeOK /\ NamesIndexed

(* While a query runs, its trace is the one listed under the name that was *)
(* asked for.                                                              *)
CallInv ==
  /\ children = file.names
  /\ phase = "ready" \/ pc = "open"
  /\ pc # "read" => call = << >>
  /\ pc = "read" =>
       \/ query = Sweep /\ call = <<Sweep>>
       \/ \E pos \in Positions : /\ query = Filtered(pos) /\ query # Sweep
                                 /\ call = <<NameAt(pos)>> /\ NameAt(pos) \in Names

SignalInv == NamesInv /\ ReaderInv /\ CallInv

LEMMA InitSignal == AllWellFormed /\ SignalInit => SignalInv
<1> SUFFICES ASSUME AllWellFormed, SignalInit PROVE SignalInv
  OBVIOUS
<1>1. NamesInv
  BY NamesInitType, InitNames DEF SignalInit, NamesInv
<1>2. ReaderInv
  BY InitReader DEF SignalInit
<1>3. CallInv
  BY DEF SignalInit, CallInv, Init
<1> QED
  BY <1>1, <1>2, <1>3 DEF SignalInv

(* The positions of the names are those of the traces.                     *)
LEMMA SamePositions ==
  ASSUME CallInv, TypeOK, NEW pos \in Positions
  PROVE  /\ Filtered(pos) \in Listed
         /\ Filtered(pos) # Sweep
<1>1. PICK c \in DOMAIN children : \E q \in DOMAIN children[c].refs : pos = <<c, q>>
  BY DEF Positions
<1>2. PICK q \in DOMAIN children[c].refs : pos = <<c, q>>
  BY <1>1
<1>3. c \in DOMAIN file.children /\ q \in DOMAIN file.children[c].refs
  BY <1>1, <1>2, ListingsAssumed DEF CallInv, TypeOK
<1>4. <<c, q>> \in Refs(file)
  BY <1>3 DEF Refs, RefsOf
<1>5. Filtered(pos) = Ref(file, c, q)
  BY <1>2 DEF Filtered
<1>6. Filtered(pos) \in Listed
  <2>1. Ref(file, <<c, q>>[1], <<c, q>>[2]) \in Listed
    BY <1>4 DEF Listed
  <2> QED
    BY <1>5, <2>1
<1> QED
  BY <1>6, FileFacts, SweepAssumed

(* A name that is found is found at a position.                            *)
LEMMA FoundPlaced ==
  ASSUME NamesTypeOK, NEW name \in Names, ByName(name).res = "ok"
  PROVE  ByName(name).at \in Positions
<1>1. CASE name \in DOMAIN namemap
  <2>1. namemap[name] \in DOMAIN children
    BY <1>1 DEF NamesTypeOK
  <2>2. namemap[name] \notin Groups /\ ByName(name).at = <<namemap[name], 1>>
    BY <1>1 DEF ByName, InSection, Found, Fails
  <2>3. 1 \in DOMAIN children[namemap[name]].refs
    BY <2>1, <2>2, ChildFacts
  <2> QED
    BY <2>1, <2>2, <2>3 DEF Positions
<1>2. CASE name \notin DOMAIN namemap
  <2>1. Groups # {} /\ name \in DOMAIN groupmap[FirstGroup]
        /\ ByName(name).at = <<FirstGroup, groupmap[FirstGroup][name]>>
    BY <1>2 DEF ByName, InGroup, Found, Fails
  <2>2. FirstGroup \in DOMAIN children
    BY <2>1, FirstGroupExists DEF Groups
  <2>3. groupmap[FirstGroup][name] \in DOMAIN children[FirstGroup].refs
    BY <2>1, <2>2 DEF NamesTypeOK
  <2> QED
    BY <2>1, <2>2, <2>3 DEF Positions
<1> QED
  BY <1>1, <1>2

(* Every step is a step of the names and a step of the values.             *)
LEMMA StepParts ==
  ASSUME SignalInv, [SignalNext]_signalVars
  PROVE  [NamesNext]_nameVars /\ [Next]_vars
<1>0. CallInv /\ TypeOK /\ NamesTypeOK
  BY DEF SignalInv, ReaderInv, TypeInv, NamesInv
<1>1. CASE UNCHANGED signalVars
  BY <1>1 DEF signalVars
<1>2. CASE OpenNames
  BY <1>2 DEF OpenNames, NamesNext
<1>3. CASE OpenValues
  BY <1>3 DEF OpenValues, Next
<1>4. CASE GetSweepValues
  BY <1>4 DEF GetSweepValues, Next
<1>5. CASE ReadOn
  BY <1>5 DEF ReadOn, Next
<1>6. ASSUME NEW name \in Names, GetSignal(name)
      PROVE  [NamesNext]_nameVars /\ [Next]_vars
  <2>1. NamesNext
    BY <1>6 DEF GetSignal, NamesNext
  <2>2. CASE ByName(name).res = "ok"
    <3>1. Query(Filtered(ByName(name).at))
      BY <1>6, <2>2 DEF GetSignal
    <3>2. ByName(name).at \in Positions
      BY <1>0, <2>2, FoundPlaced
    <3>3. Filtered(ByName(name).at) \in Listed
      BY <1>0, <3>2, SamePositions
    <3> QED
      BY <2>1, <3>1, <3>3 DEF Next
  <2>3. CASE ByName(name).res # "ok"
    BY <1>6, <2>1, <2>3 DEF GetSignal
  <2> QED
    BY <2>2, <2>3
<1> QED
  BY <1>1, <1>2, <1>3, <1>4, <1>5, <1>6 DEF SignalNext

-----------------------------------------------------------------------------
(* Names and values are of one file, and the running query is for the name *)
(* that was asked for.                                                     *)
LEMMA StepCall ==
  ASSUME SignalInv, [SignalNext]_signalVars
  PROVE  CallInv'
<1>0. /\ CallInv /\ TypeOK /\ NamesTypeOK /\ NamesIndexed
      /\ children = file.names
      /\ phase = "ready" \/ pc = "open"
  BY DEF SignalInv, ReaderInv, TypeInv, NamesInv, CallInv
<1>1. CASE UNCHANGED signalVars
  BY <1>0, <1>1 DEF signalVars, vars, nameVars, queryVars, mapVars, CallInv, Positions, NameAt, Filtered
<1>2. CASE OpenNames
  <2>1. /\ UNCHANGED <<file, pc, call>> /\ children' = children /\ phase # "ready"
    BY <1>2 DEF OpenNames, vars, ReadTrace, ReadTraceAs, EndChild, EndChildren, IndexChild, EndIndex
  <2> QED
    BY <1>0, <2>1 DEF CallInv
<1>3. CASE OpenValues
  <2>1. /\ file' = file /\ UNCHANGED <<children, phase, call>> /\ phase = "ready"
        /\ pc # "read" /\ pc' # "read"
    BY <1>3 DEF OpenValues, nameVars, MapNext, Deserialize, OpenFails, MapRef, EnterGroup, MapGroupRef,
                LeaveGroup, Mapped
  <2> QED
    BY <1>0, <2>1 DEF CallInv
<1>4. CASE GetSweepValues
  <2>1. /\ file' = file /\ UNCHANGED <<children, phase>> /\ phase = "ready" /\ pc' = "read"
        /\ query' = Sweep /\ call' = <<Sweep>>
    BY <1>0, <1>4 DEF GetSweepValues, nameVars, Query
  <2> QED
    BY <1>0, <2>1 DEF CallInv
<1>5. CASE ReadOn
  <2>1. /\ file' = file /\ UNCHANGED <<children, phase>> /\ phase = "ready" /\ pc = "read"
        /\ query' = query
        /\ pc' = "read" => call' = call
        /\ pc' # "read" => call' = << >>
    BY <1>0, <1>5 DEF ReadOn, nameVars, ReadNext, WrongChunk, NoOffset, WrongParam, Overrun, ReadWindow,
                      ReadPoint, Return, QueryFails, queryVars, Reading, WindowFits
  <2>2. Positions' = Positions /\ \A pos : NameAt(pos)' = NameAt(pos) /\ Filtered(pos)' = Filtered(pos)
    BY <2>1 DEF Positions, NameAt, Filtered
  <2> QED
    BY <1>0, <2>1, <2>2 DEF CallInv
<1>6. ASSUME NEW name \in Names, GetSignal(name), ByName(name).res = "ok"
      PROVE  CallInv'
  <2>1. PICK pos \in Positions : pos = ByName(name).at
    BY <1>0, <1>6, FoundPlaced
  <2>2. /\ file' = file /\ UNCHANGED <<children, phase>> /\ phase = "ready" /\ pc' = "read"
        /\ query' = Filtered(pos) /\ call' = <<name>>
    BY <1>0, <1>6, <2>1 DEF GetSignal, Lookup, Query
  <2>3. NameAt(pos) = name /\ Filtered(pos) # Sweep
    BY <1>0, <1>6, <2>1, FoundIsNamed, SamePositions
  <2>4. pos \in Positions' /\ NameAt(pos)' = name /\ Filtered(pos)' = Filtered(pos)
    BY <2>2, <2>3 DEF Positions, NameAt, Filtered
  <2> QED
    BY <1>0, <2>2, <2>3, <2>4 DEF CallInv
<1>7. ASSUME NEW name \in Names, GetSignal(name), ByName(name).res # "ok"
      PROVE  CallInv'
  <2>1. /\ UNCHANGED <<file, pc, query, call, children, phase>> /\ pc = "ready"
    BY <1>7 DEF GetSignal, Lookup, vars, queryVars
  <2> QED
    BY <1>0, <2>1 DEF CallInv
<1> QED
  BY <1>1, <1>2, <1>3, <1>4, <1>5, <1>6, <1>7 DEF SignalNext

LEMMA StepSignal == AllWellFormed /\ SignalInv /\ [SignalNext]_signalVars => SignalInv'
<1> SUFFICES ASSUME AllWellFormed, SignalInv, [SignalNext]_signalVars PROVE SignalInv'
  OBVIOUS
<1>1. [NamesNext]_nameVars /\ [Next]_vars
  BY StepParts
<1>2. NamesInv'
  BY <1>1, NamesStepType, StepNames DEF SignalInv, NamesInv
<1>3. ReaderInv'
  BY <1>1, StepReader DEF SignalInv
<1> QED
  BY <1>2, <1>3, StepCall DEF SignalInv

-----------------------------------------------------------------------------
(* The reader by name.                                                     *)

(* A listing is a position of that name.                                   *)
LEMMA ListingFacts ==
  ASSUME CallInv, NEW name
  PROVE  \A pos : pos \in ByNameReader!Listings(name) <=> pos \in Positions /\ NameAt(pos) = name
BY DEF ByNameReader!Listings, Positions, NameAt, CallInv

(* A name that the reader must not refuse is found.                        *)
LEMMA FindableIsFound ==
  ASSUME CallInv, NamesInv, phase = "ready", NEW name \in Names, ByNameReader!Findable(name)
  PROVE  ByName(name).res = "ok"
<1>0. NamesTypeOK /\ NamesIndexed
  BY DEF NamesInv
<1>1. PICK x \in ByNameReader!Listings(name) :
        /\ ByNameReader!Listings(name) = {x}
        /\ ByNameReader!IsGroup(x[1]) => \A c \in 1 .. x[1] - 1 : ~ByNameReader!IsGroup(c)
  BY DEF ByNameReader!Findable
<1>2. x \in Positions /\ NameAt(x) = name /\ \A pos \in Positions : NameAt(pos) = name => pos = x
  BY <1>1, ListingFacts
<1>3. \A c \in Groups : children[c].name # name
  BY DEF ByNameReader!Findable, ByNameReader!IsGroup, Groups, CallInv
<1>4. PICK c \in DOMAIN children : \E q \in DOMAIN children[c].refs : x = <<c, q>>
  BY <1>2 DEF Positions
<1>5. PICK q \in DOMAIN children[c].refs : x = <<c, q>>
  BY <1>4
<1>6. Indexed = DOMAIN children /\ NamesPassed(c) = DOMAIN children[c].refs
  BY DEF Indexed, NamesPassed
<1>7. LastOf(namemap, name, DOMAIN children, ChildNames)
  BY <1>0, <1>6 DEF NamesIndexed
<1>8. ASSUME name \in DOMAIN namemap
      PROVE  ByName(name).res = "ok"
  <2>1. namemap[name] \in DOMAIN children /\ children[namemap[name]].name = name
    BY <1>7, <1>8 DEF LastOf, ChildNames
  <2>2. namemap[name] \notin Groups
    BY <1>3, <2>1
  <2> QED
    BY <1>8, <2>2 DEF ByName, InSection, Found
<1>9. ASSUME name \notin DOMAIN namemap
      PROVE  ByName(name).res = "ok"
  <2>1. c \in Groups
    <3> SUFFICES ASSUME c \notin Groups PROVE FALSE
      OBVIOUS
    <3>1. q = 1 /\ children[c].refs[1] = children[c].name
      BY <1>0, ChildFacts
    <3>2. children[c].name = name
      BY <1>2, <1>5, <3>1 DEF NameAt
    <3> QED
      BY <1>7, <1>9, <3>2 DEF LastOf, ChildNames
  <2>2. FirstGroup = c
    <3>1. FirstGroup \in Groups /\ \A d \in Groups : FirstGroup <= d
      BY <1>0, <2>1, FirstGroupExists
    <3>2. \A d \in Groups : d \in Nat \ {0} /\ ByNameReader!IsGroup(d)
      BY <1>0, ChildFacts DEF Groups, ByNameReader!IsGroup, CallInv
    <3>3. \A d \in 1 .. c - 1 : ~ByNameReader!IsGroup(d)
      BY <1>1, <1>5, <2>1, <3>2
    <3>4. FirstGroup \in Nat \ {0} /\ c \in Nat \ {0} /\ FirstGroup <= c /\ FirstGroup \notin 1 .. c - 1
      BY <2>1, <3>1, <3>2, <3>3
    <3> QED
      BY <3>4
  <2>3. LastOf(groupmap[c], name, DOMAIN children[c].refs, children[c].refs)
    BY <1>0, <1>6, <2>1 DEF NamesIndexed
  <2>4. name \in DOMAIN groupmap[c]
    <3>1. children[c].refs[q] = name
      BY <1>2, <1>5 DEF NameAt
    <3> QED
      BY <2>3, <3>1 DEF LastOf
  <2> QED
    BY <1>9, <2>1, <2>2, <2>4 DEF ByName, InGroup, Found
<1> QED
  BY <1>8, <1>9

LEMMA StepByName ==
  ASSUME AllWellFormed, SignalInv, [SignalNext]_signalVars
  PROVE  [ByNameReader!Next]_(ByNameReader!vars)
<1>0. /\ CallInv /\ NamesInv /\ ReaderInv /\ TypeOK /\ Stands
      /\ phase = "ready" \/ pc = "open"
  BY InvStands DEF SignalInv, ReaderInv, TypeInv, CallInv
<1>1. ASSUME UNCHANGED <<file, call, reply>>
      PROVE  UNCHANGED ByNameReader!vars
  BY <1>1 DEF ByNameReader!vars
<1>2. CASE UNCHANGED signalVars
  BY <1>1, <1>2 DEF signalVars, vars
<1>3. CASE OpenNames
  BY <1>1, <1>3 DEF OpenNames, vars
<1>4. CASE OpenValues
  BY <1>1, <1>4 DEF OpenValues, MapNext, Deserialize, MapRef, EnterGroup, MapGroupRef, LeaveGroup, Mapped
<1>5. CASE GetSweepValues
  <2>1. ByNameReader!Ask(Sweep)
    BY <1>0, <1>5 DEF GetSweepValues, Query, CallInv, ByNameReader!Ask
  <2> QED
    BY <2>1 DEF ByNameReader!Next
<1>6. ASSUME NEW name \in Names, GetSignal(name), ByName(name).res = "ok"
      PROVE  [ByNameReader!Next]_(ByNameReader!vars)
  <2>1. ByNameReader!Ask(name)
    BY <1>0, <1>6 DEF GetSignal, Query, CallInv, ByNameReader!Ask
  <2> QED
    BY <2>1 DEF ByNameReader!Next
<1>7. ASSUME NEW name \in Names, GetSignal(name), ByName(name).res # "ok"
      PROVE  [ByNameReader!Next]_(ByNameReader!vars)
  <2>1. ~ByNameReader!Findable(name)
    BY <1>0, <1>7, FindableIsFound DEF GetSignal, Lookup
  <2>2. call = << >> /\ reply' = <<name>> /\ UNCHANGED <<file, call>>
    BY <1>0, <1>7 DEF GetSignal, vars, CallInv
  <2>3. ByNameReader!Refuse(name)
    BY <2>1, <2>2 DEF ByNameReader!Refuse
  <2> QED
    BY <2>3 DEF ByNameReader!Next
<1>8. CASE ReadOn /\ (ReadWindow \/ ReadPoint)
  <2>1. pc' = "read" /\ file' = file
    BY <1>8 DEF ReadWindow, WindowFits, ReadPoint, Reading
  <2> QED
    BY <1>1, <1>8, <2>1 DEF ReadOn
<1>9. CASE ReadOn /\ Return
  <2>1. answer'.res = "values" /\ answer'.data = Recorded(query)
    BY <1>0, <1>9, ReturnsWhole
  <2>2. /\ pc = "read" /\ pc' = "ready" /\ file' = file
        /\ call' = << >> /\ reply' = <<call[1], answer'.data>>
    BY <1>9, <2>1 DEF Return, ReadOn
  <2>3. CASE query = Sweep /\ call = <<Sweep>>
    <3>1. Recorded(query) \in ByNameReader!Waveforms(Sweep)
      BY <2>3 DEF Recorded, ByNameReader!Waveforms
    <3>2. reply' = <<Sweep, Recorded(query)>>
      BY <2>1, <2>2, <2>3
    <3>3. ByNameReader!Reply
      BY <2>2, <2>3, <3>1, <3>2 DEF ByNameReader!Reply
    <3> QED
      BY <3>3 DEF ByNameReader!Next
  <2>4. ASSUME NEW pos \in Positions, query = Filtered(pos), query # Sweep,
               call = <<NameAt(pos)>>, NameAt(pos) \in Names
        PROVE  ByNameReader!Next
    <3> DEFINE name == NameAt(pos)
    <3>1. pos \in ByNameReader!Listings(name)
      BY <1>0, ListingFacts
    <3>2. name # Sweep /\ name \in Names /\ call = <<name>>
      BY <2>4, SweepNoName
    <3>3. Recorded(query) = file.wave[file.children[pos[1]].refs[pos[2]]]
      BY <2>4 DEF Recorded, Filtered, Ref
    <3> HIDE DEF name
    <3>4. Recorded(query) \in ByNameReader!Waveforms(name)
      BY <3>1, <3>2, <3>3 DEF ByNameReader!Waveforms
    <3>5. reply' = <<name, Recorded(query)>>
      BY <2>1, <2>2, <3>2
    <3>6. ByNameReader!Reply
      BY <2>2, <3>2, <3>4, <3>5 DEF ByNameReader!Reply
    <3> QED
      BY <3>6 DEF ByNameReader!Next
  <2> QED
    BY <1>0, <2>2, <2>3, <2>4 DEF CallInv
<1> QED
  BY <1>0, <1>2, <1>3, <1>4, <1>5, <1>6, <1>7, <1>8, <1>9, NothingThrows DEF SignalNext, ReadOn, ReadNext

-----------------------------------------------------------------------------
(* The maps of the trace section are as complete behind get_signal as they *)
(* are alone (psfindexedcontainer.cc:81-86, psfgroup.cc:16-20).            *)
THEOREM ComposedNames ==
  ASSUME AllWellFormed
  PROVE  SignalSpec => []NamesIndexed
<1>1. SignalInv => NamesIndexed
  BY DEF SignalInv, NamesInv
<1> QED
  BY <1>1, InitSignal, StepSignal, PTL DEF SignalSpec

(* get_signal(name) of a well-formed file returns a waveform recorded      *)
(* under that name, and throws only if the name is not listed once,        *)
(* outside groups or in the first (psf.cc:61-80, psfsweepvalue.cc:78-93).  *)
THEOREM RefinesByName ==
  ASSUME AllWellFormed
  PROVE  SignalSpec => ByNameReader!Spec
<1>1. SignalInit => ByNameReader!Init
  BY DEF SignalInit, ByNameReader!Init
<1>2. SignalInv /\ [SignalNext]_signalVars => [ByNameReader!Next]_(ByNameReader!vars)
  BY StepByName
<1> QED
  BY <1>1, <1>2, InitSignal, StepSignal, PTL DEF SignalSpec, ByNameReader!Spec
=============================================================================
