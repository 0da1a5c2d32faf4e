-------------------------- MODULE PSFDataSet_proofs --------------------------
(***************************************************************************)
(* Proofs that PSFDataSet keeps its safety invariants for every number of  *)
(* handles, paths, contents, descriptors and addresses.  The first part    *)
(* holds whatever happens to files and addresses, the second if the kernel *)
(* reuses no address or nobody replaces a file.                            *)
(***************************************************************************)
EXTENDS PSFDataSet, SequenceTheorems, TLAPS

(* The references a query on d may hand out.                               *)
Live(d) == {<<d, p, Sec(d, p)>> : p \in {q \in Pointers : Sec(d, q) # NULL}}

AnswerTyped(d) ==
  /\ last'.d = d /\ last'.res \in Results /\ last'.from \in {0} \cup Gens
  /\ refs' \subseteq refs \cup Live(d)

(* What all queries have in common: they change refs and last only, and    *)
(* hand out references to sections that exist.                             *)
QueryStep(d) ==
  /\ Idle /\ d \in objects
  /\ UNCHANGED <<disk, fileVars, dsVars, pc, cur>>
  /\ AnswerTyped(d)

(* The open() in progress, as the conjuncts below rely on it.              *)
CallOK ==
  /\ \A d \in objects : m_filename[d] \in Paths
  /\ pc # "idle" => cur \in Handles /\ m_filename[cur] \in Paths
  /\ pc = "open" => Len(maps) < MaxMaps
  /\ pc \in {"validate", "deserialize"} => Len(maps) > 0

TypeInv == TypeOK /\ CallOK

-----------------------------------------------------------------------------
LEMMA AnswerKeeps ==
  ASSUME TypeOK, NEW d \in objects, NEW op, NEW p \in Pointers, NEW handsOut,
         Answer(d, op, p, handsOut), Sec(d, p) # NULL \/ ~handsOut
  PROVE  AnswerTyped(d)
<1>1. Sec(d, p) \in {0} \cup Gens
  BY DEF Sec, TypeOK, FileTypeOK, NULL
<1>2. refs' \subseteq refs \cup Live(d)
  BY DEF Answer, Live
<1> QED BY <1>1, <1>2 DEF Answer, AnswerTyped, Return, Result, Results

LEMMA FailsKeeps ==
  ASSUME NEW d, NEW op, NEW ex \in Results, Fails(d, op, ex)
  PROVE  AnswerTyped(d)
  BY DEF AnswerTyped, Fails, Return, Result

LEMMA NotOpenKeeps ==
  ASSUME NEW d, NEW op, Fails(d, op, "DataSetNotOpen")
  PROVE  AnswerTyped(d)
  BY FailsKeeps DEF Results

LEMMA NoAnswerKeeps ==
  ASSUME NEW d, NEW op, NoAnswer(d, op)
  PROVE  AnswerTyped(d)
  BY FailsKeeps DEF NoAnswer, Results

LEMMA SweepVectorKeeps ==
  ASSUME TypeOK, NEW d \in objects, NEW op, NEW readable, SweepVector(d, op, readable)
  PROVE  AnswerTyped(d)
<1> DEFINE values == Mapped(d) /\ Answer(d, op, "sweepvalues", FALSE)
           undefined == ~readable /\ Fails(d, op, "undefined")
           throws == /\ ~CountsFit(d)
                     /\ \E ex \in {"IncorrectChunk", "out_of_range", "length_error"} : Fails(d, op, ex)
<1>1. CASE NoAnswer(d, op)
  BY <1>1, NoAnswerKeeps
<1>2. CASE WithHeader(d, op, VectorProps(d), values \/ undefined \/ throws)
  <2>1. values => AnswerTyped(d)
    BY AnswerKeeps DEF Pointers
  <2>2. undefined \/ throws => AnswerTyped(d)
    BY FailsKeeps DEF Results
  <2> HIDE DEF values, undefined, throws
  <2>3. AnswerTyped(d) \/ values \/ undefined \/ throws
    BY <1>2, FailsKeeps DEF WithHeader, Results
  <2> QED BY <2>1, <2>2, <2>3
<1> QED BY <1>1, <1>2 DEF SweepVector

LEMMA SignalVectorKeeps ==
  ASSUME TypeOK, NEW d \in objects, NEW op, SignalVector(d, op)
  PROVE  AnswerTyped(d)
<1>1. CASE \E ex \in {"NotFound", "bad_cast"} : Fails(d, op, ex)
  BY <1>1, FailsKeeps DEF Results
<1> QED BY <1>1, SweepVectorKeeps DEF SignalVector

LEMMA SignalScalarKeeps ==
  ASSUME TypeOK, NEW d \in objects, NEW op, NEW handsOut, SignalScalar(d, op, handsOut)
  PROVE  AnswerTyped(d)
<1>1. "undefined" \in Results /\ "NotFound" \in Results /\ "nonsweepvalues" \in Pointers
  BY DEF Results, Pointers
<1> QED BY <1>1, AnswerKeeps, FailsKeeps DEF SignalScalar

IsQuery(d) ==
  \/ GetHeaderProperties(d)
  \/ GetHeaderNumber(d)
  \/ GetSignalNames(d)
  \/ GetSweepParamNames(d)
  \/ GetSweepValues(d)
  \/ GetSignalVector(d)
  \/ GetSignalScalar(d)
  \/ GetSignal(d)
  \/ GetSignalProperties(d)

LEMMA QueriesAreSteps ==
  ASSUME TypeOK, NEW d, IsQuery(d)
  PROVE  QueryStep(d)
<1>0. "header" \in Pointers /\ "undefined" \in Results
  BY DEF Pointers, Results
<1>1. CASE GetHeaderProperties(d)
  <2> DEFINE op == "get_header_properties"
             body == WithHeader(d, op, {}, Answer(d, op, "header", TRUE))
  <2>1. d \in objects /\ body => AnswerTyped(d)
    BY <1>0, FailsKeeps, AnswerKeeps DEF WithHeader, Results
  <2>2. Query(d, op, body)
    BY <1>1 DEF GetHeaderProperties
  <2> HIDE DEF body
  <2> QED BY <2>1, <2>2, NotOpenKeeps DEF Query, QueryStep
<1>2. CASE GetHeaderNumber(d)
  <2>1. PICK prop \in {"PSF sweeps", "PSF sweep points"} :
          Query(d, prop, WithHeader(d, prop, {prop}, Answer(d, prop, "header", FALSE)))
    BY <1>2 DEF GetHeaderNumber
  <2> DEFINE body == WithHeader(d, prop, {prop}, Answer(d, prop, "header", FALSE))
  <2>2. d \in objects /\ body => AnswerTyped(d)
    BY <1>0, FailsKeeps, AnswerKeeps DEF WithHeader, Results
  <2> HIDE DEF body
  <2> QED BY <2>1, <2>2, NotOpenKeeps DEF Query, QueryStep, body
<1>3. CASE GetSignalNames(d)
  <2> DEFINE op == "get_signal_names"
             p  == IF Sec(d, "traces") # NULL THEN "traces" ELSE "nonsweepvalues"
             body == IF Sec(d, p) # NULL THEN Answer(d, op, p, FALSE) ELSE Fails(d, op, "undefined")
  <2>1. p \in Pointers
    BY DEF Pointers
  <2>2. Query(d, op, body)
    BY <1>3 DEF GetSignalNames
  <2> HIDE DEF p
  <2>3. d \in objects /\ body => AnswerTyped(d)
    BY <1>0, <2>1, AnswerKeeps, FailsKeeps
  <2> HIDE DEF body
  <2> QED BY <2>2, <2>3, NotOpenKeeps DEF Query, QueryStep
<1>4. CASE GetSweepParamNames(d)
  <2> DEFINE op == "get_sweep_param_names"
             body == IF Sec(d, "sweeps") # NULL THEN Answer(d, op, "sweeps", FALSE) ELSE NoAnswer(d, op)
  <2>1. d \in objects /\ body => AnswerTyped(d)
    BY AnswerKeeps, NoAnswerKeeps DEF Pointers
  <2>2. Query(d, op, body)
    BY <1>4 DEF GetSweepParamNames
  <2> HIDE DEF body
  <2> QED BY <2>1, <2>2, NotOpenKeeps DEF Query, QueryStep
<1>5. CASE GetSweepValues(d)
  BY <1>5, SweepVectorKeeps, NotOpenKeeps DEF Query, QueryStep, GetSweepValues
<1>6. CASE GetSignalVector(d)
  BY <1>6, SignalVectorKeeps, NotOpenKeeps DEF Query, QueryStep, GetSignalVector
<1>7. CASE GetSignalScalar(d) \/ GetSignalProperties(d)
  BY <1>7, SignalScalarKeeps, NotOpenKeeps DEF Query, QueryStep, GetSignalScalar, GetSignalProperties
<1>8. CASE GetSignal(d)
  <2> DEFINE op == "get_signal"
             signal == IF ReadFrom(d, "header").nsweeps > 0 THEN SignalVector(d, op)
                       ELSE SignalScalar(d, op, FALSE)
             body == WithHeader(d, op, {"PSF sweeps"}, signal)
  <2>1. d \in objects /\ signal => AnswerTyped(d)
    BY SignalVectorKeeps, SignalScalarKeeps
  <2>2. Query(d, op, body)
    BY <1>8 DEF GetSignal
  <2> HIDE DEF signal
  <2>3. d \in objects /\ body => AnswerTyped(d)
    BY <2>1, FailsKeeps DEF WithHeader, Results
  <2> HIDE DEF body
  <2> QED BY <2>2, <2>3, NotOpenKeeps DEF Query, QueryStep
<1> QED BY <1>1, <1>2, <1>3, <1>4, <1>5, <1>6, <1>7, <1>8 DEF IsQuery

-----------------------------------------------------------------------------
(* Type correctness.                                                       *)

LEMMA MapsTyped ==
  ASSUME TypeOK, NEW g \in 1 .. Len(maps)
  PROVE  maps[g].content \in Contents /\ maps[g].addr \in Addrs
<1>1. maps \in Seq([content : Contents, addr : Addrs])
  BY DEF TypeOK, FileTypeOK
<1>2. maps[g] \in [content : Contents, addr : Addrs]
  BY <1>1, ElementOfSeq
<1> QED BY <1>2

LEMMA ParsedTyped ==
  ASSUME NEW sec \in [Pointers -> {NULL} \cup Gens], NEW c \in Contents, NEW g \in Gens
  PROVE  /\ Parsed(sec, c, g) \in [Pointers -> {NULL} \cup Gens]
         /\ Allocated(sec, c) \subseteq Pointers
<1>1. c.toc \subseteq Sections
  BY ContentsAssumed DEF ContentsAssumption
<1> QED BY <1>1 DEF Parsed, Allocated, Begun, Pointers, Sections

LEMMA ForgetTyped ==
  ASSUME TypeOK, NEW d \in Handles, Forget(d)
  PROVE  /\ m_fd' \in [Handles -> Fds \cup {NoFd}]
         /\ m_buffer' \in [Handles -> Addrs \cup {Uninit}]
         /\ m_sec' \in [Handles -> [Pointers -> {NULL} \cup Gens]]
  BY DEF Forget, TypeOK, FileTypeOK

LEMMA ThrowTyped ==
  ASSUME TypeInv, NEW ex \in {"FileOpenError", "InvalidFileError", "ParseError"},
         NEW fd \in Fds \cup {NoFd}, NEW sec \in [Pointers -> {NULL} \cup Gens],
         pc # "idle", heap' \subseteq Pointers \X Gens, Throw(ex, fd, sec)
  PROVE  TypeInv'
<1>1. cur \in Handles
  BY DEF TypeInv, CallOK
<1>2. /\ m_fd' \in [Handles -> Fds \cup {NoFd}]
      /\ m_buffer' \in [Handles -> Addrs \cup {Uninit}]
      /\ m_sec' \in [Handles -> [Pointers -> {NULL} \cup Gens]]
  BY <1>1, ForgetTyped DEF Throw, TypeInv, TypeOK, FileTypeOK
<1>3. /\ last'.d \in Handles \cup {None} /\ last'.res \in Results
      /\ last'.from \in {0} \cup Gens
  BY <1>1 DEF Throw, Return, Result, Results
<1> QED BY <1>2, <1>3 DEF Throw, TypeInv, TypeOK, FileTypeOK, CallOK, dsVars

LEMMA MapFileTyped ==
  ASSUME TypeInv, NEW d \in Handles, NEW p \in Paths, Len(maps) < MaxMaps, MapFile(d, p)
  PROVE  /\ maps' \in Seq([content : Contents, addr : Addrs])
         /\ Len(maps') = Len(maps) + 1 /\ Len(maps') <= MaxMaps
         /\ fdtab' \in [Fds -> {0} \cup Gens] /\ mmaps' \in [Addrs -> {0} \cup Gens]
         /\ m_fd' \in [Handles -> Fds \cup {NoFd}]
         /\ m_buffer' \in [Handles -> Addrs \cup {Uninit}]
<1>1. PICK n \in FreeFd, a \in Addrs :
        /\ disk[p] # Missing
        /\ maps' = Append(maps, [content |-> disk[p], addr |-> a])
        /\ fdtab' = [fdtab EXCEPT ![n] = Len(maps) + 1]
        /\ mmaps' = [mmaps EXCEPT ![a] = Len(maps) + 1]
        /\ m_fd' = [m_fd EXCEPT ![d] = n]
        /\ m_buffer' = [m_buffer EXCEPT ![d] = a]
  BY DEF MapFile
<1>2. disk[p] \in Contents
  BY <1>1 DEF TypeInv, TypeOK, FileTypeOK
<1>3. Len(maps) + 1 \in Gens
  BY ResourcesAssumed DEF TypeInv, TypeOK, FileTypeOK, Gens
<1> QED BY <1>1, <1>2, <1>3, ResourcesAssumed DEF TypeInv, TypeOK, FileTypeOK, FreeFd

LEMMA CloseTyped ==
  ASSUME TypeOK, NEW d \in Handles
  PROVE  /\ Unmapped(d) \in [Addrs -> {0} \cup Gens]
         /\ FdClosed(d) \in [Fds -> {0} \cup Gens]
  BY DEF Unmapped, FdClosed, TypeOK, FileTypeOK

LEMMA OpenFileTyped ==
  ASSUME TypeInv, OpenFile
  PROVE  TypeInv'
<1>1. cur \in Handles /\ m_filename[cur] \in Paths /\ Len(maps) < MaxMaps
  BY DEF TypeInv, CallOK, OpenFile
<1>2. CASE MapFile(cur, m_filename[cur]) /\ pc' = "validate"
           /\ UNCHANGED <<disk, dsVars, cur, refs, last>>
  <2>1. UNCHANGED <<heap, m_sec>>
    BY <1>2 DEF MapFile
  <2>2. FileTypeOK' /\ Len(maps') > 0
    <3>1. Len(maps) \in Nat
      BY DEF TypeInv, TypeOK, FileTypeOK
    <3>2. /\ maps' \in Seq([content : Contents, addr : Addrs])
          /\ Len(maps') = Len(maps) + 1 /\ Len(maps') <= MaxMaps
          /\ fdtab' \in [Fds -> {0} \cup Gens] /\ mmaps' \in [Addrs -> {0} \cup Gens]
          /\ m_fd' \in [Handles -> Fds \cup {NoFd}]
          /\ m_buffer' \in [Handles -> Addrs \cup {Uninit}]
      BY <1>1, <1>2, MapFileTyped
    <3>3. /\ disk' \in [Paths -> Contents \cup {Missing}]
          /\ heap' \subseteq Pointers \X Gens
          /\ m_sec' \in [Handles -> [Pointers -> {NULL} \cup Gens]]
      BY <1>2, <2>1 DEF TypeInv, TypeOK, FileTypeOK
    <3>4. Len(maps') > 0
      BY <3>1, <3>2
    <3> QED BY <3>2, <3>3, <3>4 DEF FileTypeOK
  <2> QED BY <1>1, <1>2, <2>2 DEF TypeInv, TypeOK, CallOK, dsVars, Gens
<1>3. CASE Throw("FileOpenError", NoFd, m_sec[cur]) /\ UNCHANGED heap
  <2>1. m_sec[cur] \in [Pointers -> {NULL} \cup Gens] /\ heap' \subseteq Pointers \X Gens
    BY <1>1, <1>3 DEF TypeInv, TypeOK, FileTypeOK
  <2> QED BY <1>3, <2>1, ThrowTyped DEF OpenFile
<1> QED BY <1>2, <1>3 DEF OpenFile

LEMMA ValidateFileTyped ==
  ASSUME TypeInv, ValidateFile
  PROVE  TypeInv'
<1>1. cur \in Handles
  BY DEF TypeInv, CallOK, ValidateFile
<1>2. CASE pc' = "deserialize" /\ UNCHANGED <<disk, fileVars, dsVars, cur, refs, last>>
  BY <1>2 DEF ValidateFile, TypeInv, TypeOK, FileTypeOK, CallOK, fileVars, dsVars, Gens
<1>3. CASE Throw("InvalidFileError", m_fd[cur], m_sec[cur]) /\ UNCHANGED heap
  <2>1. /\ m_sec[cur] \in [Pointers -> {NULL} \cup Gens] /\ heap' \subseteq Pointers \X Gens
        /\ m_fd[cur] \in Fds \cup {NoFd}
    BY <1>1, <1>3 DEF TypeInv, TypeOK, FileTypeOK
  <2> QED BY <1>3, <2>1, ThrowTyped DEF ValidateFile
<1> QED BY <1>2, <1>3 DEF ValidateFile

LEMMA ParseFileTyped ==
  ASSUME TypeInv, ParseFile
  PROVE  TypeInv'
<1> DEFINE g == Len(maps)
           c == maps[g].content
           sec == Parsed(m_sec[cur], c, g)
           new == Allocated(m_sec[cur], c) \X {g}
<1>1. cur \in Handles /\ g \in Gens
  BY ResourcesAssumed DEF TypeInv, TypeOK, FileTypeOK, CallOK, ParseFile, Gens
<1>2. m_sec[cur] \in [Pointers -> {NULL} \cup Gens] /\ c \in Contents
  <2>1. m_sec[cur] \in [Pointers -> {NULL} \cup Gens] /\ g \in 1 .. Len(maps)
    BY <1>1 DEF TypeInv, TypeOK, FileTypeOK, Gens
  <2> QED BY <2>1, MapsTyped DEF TypeInv
<1>3. /\ sec \in [Pointers -> {NULL} \cup Gens]
      /\ heap \cup new \subseteq Pointers \X Gens
  BY <1>1, <1>2, ParsedTyped DEF TypeInv, TypeOK, FileTypeOK
<1>4. CASE /\ Deserialize(cur, g) /\ objects' = objects \cup {cur}
           /\ m_is_open' = [m_is_open EXCEPT ![cur] = TRUE]
           /\ pc' = "idle" /\ cur' = None
           /\ Return(cur, "open", "ok", 0)
           /\ UNCHANGED <<disk, m_filename, refs>>
  <2>1. FileTypeOK'
    BY <1>1, <1>3, <1>4 DEF Deserialize, TypeInv, TypeOK, FileTypeOK, Gens
  <2>2. \A d \in objects' : m_filename[d] \in Paths
    BY <1>4 DEF ParseFile, TypeInv, CallOK
  <2> QED BY <1>1, <1>4, <2>1, <2>2
          DEF TypeInv, TypeOK, CallOK, Return, Result, Results, Gens
<1>5. CASE Throw("ParseError", m_fd[cur], sec) /\ heap' = heap \cup new
  <2>1. m_fd[cur] \in Fds \cup {NoFd} /\ pc # "idle"
    BY <1>1 DEF TypeInv, TypeOK, FileTypeOK, ParseFile
  <2> HIDE DEF sec
  <2> QED BY <1>3, <1>5, <2>1, ThrowTyped
<1>6. CASE /\ pc' = "idle" /\ cur' = None
           /\ Return(cur, "open", "undefined", 0)
           /\ UNCHANGED <<disk, fileVars, dsVars, refs>>
  BY <1>1, <1>6 DEF TypeInv, TypeOK, FileTypeOK, CallOK, fileVars, dsVars,
     Return, Result, Results, Gens
<1> QED BY <1>4, <1>5, <1>6 DEF ParseFile

LEMMA CloseSetTyped ==
  ASSUME TypeInv, NEW d \in Handles, CloseSet(d)
  PROVE  TypeInv'
<1>1. CASE m_is_open[d]
  <2>1. /\ mmaps' = Unmapped(d) /\ fdtab' = FdClosed(d)
        /\ m_fd' \in [Handles -> Fds \cup {NoFd}]
        /\ m_is_open' \in [Handles -> BOOLEAN]
        /\ UNCHANGED <<disk, maps, heap, m_buffer, m_sec, objects, m_filename, pc, cur, refs>>
        /\ \E res \in {"ok", "FileCloseError"} : last' = Result(d, "close", res, 0)
    BY <1>1 DEF CloseSet, Close, CloseTo, TypeInv, TypeOK, FileTypeOK, Return
  <2> QED BY <2>1, CloseTyped DEF TypeInv, TypeOK, FileTypeOK, CallOK, Result, Results
<1>2. CASE ~m_is_open[d]
  BY <1>2 DEF CloseSet, fileVars, TypeInv, TypeOK, FileTypeOK, CallOK, Return, Result, Results
<1> QED BY <1>1, <1>2

LEMMA DeleteTyped ==
  ASSUME TypeInv, NEW d \in Handles, Delete(d)
  PROVE  TypeInv'
<1>1. /\ m_fd' \in [Handles -> Fds \cup {NoFd}]
      /\ m_buffer' \in [Handles -> Addrs \cup {Uninit}]
      /\ m_sec' \in [Handles -> [Pointers -> {NULL} \cup Gens]]
  BY ForgetTyped DEF Delete, Destroy, TypeInv
<1>2. FileTypeOK'
  BY <1>1, CloseTyped DEF Delete, Destroy, TypeInv, TypeOK, FileTypeOK
<1>3. /\ last'.d \in Handles \cup {None} /\ last'.res \in Results
      /\ last'.from \in {0} \cup Gens
  BY DEF Delete, Return, Result, Results
<1> QED BY <1>2, <1>3 DEF Delete, Destroy, Idle, TypeInv, TypeOK, CallOK

LEMMA QueryTyped ==
  ASSUME TypeInv, NEW d \in Handles, QueryStep(d)
  PROVE  TypeInv'
<1>1. Live(d) \subseteq Handles \X Pointers \X Gens
  BY DEF Live, Sec, TypeInv, TypeOK, FileTypeOK
<1>2. refs' \subseteq Handles \X Pointers \X Gens
  BY <1>1 DEF QueryStep, AnswerTyped, TypeInv, TypeOK
<1> QED BY <1>2 DEF QueryStep, AnswerTyped, TypeInv, TypeOK, FileTypeOK, CallOK, fileVars, dsVars

LEMMA RewriteTyped == TypeInv /\ Rewrite => TypeInv'
  BY DEF Rewrite, TypeInv, TypeOK, FileTypeOK, CallOK, fileVars, dsVars

LEMMA NewTyped ==
  ASSUME TypeInv, NEW d \in Handles, NEW p \in Paths, New(d, p)
  PROVE  TypeInv'
  BY DEF New, Idle, Return, Result, Results, TypeInv, TypeOK, FileTypeOK, CallOK, fileVars

LEMMA OpenTyped ==
  ASSUME TypeInv, NEW d \in Handles, Open(d)
  PROVE  TypeInv'
<1>1. /\ last'.d \in Handles \cup {None} /\ last'.res \in Results
      /\ last'.from \in {0} \cup Gens
  BY DEF Open, Return, Result, Results
<1> QED BY <1>1 DEF Open, Idle, TypeInv, TypeOK, FileTypeOK, CallOK, fileVars, dsVars

LEMMA StutterTyped == TypeInv /\ UNCHANGED vars => TypeInv'
  BY DEF vars, TypeInv, TypeOK, FileTypeOK, CallOK, fileVars, dsVars

(* The actions, with the queries replaced by what they have in common.     *)
LEMMA NextCases ==
  ASSUME TypeOK, Next
  PROVE  \/ Rewrite
         \/ OpenFile
         \/ ValidateFile
         \/ ParseFile
         \/ \E d \in Handles, p \in Paths : New(d, p)
         \/ \E d \in Handles : Open(d)
         \/ \E d \in Handles : CloseSet(d)
         \/ \E d \in Handles : Delete(d)
         \/ \E d \in Handles : QueryStep(d)
  BY QueriesAreSteps DEF Next, Client, IsQuery

LEMMA InitTyped == Init => TypeInv
  BY ResourcesAssumed DEF Init, FileInit, TypeInv, TypeOK, FileTypeOK, CallOK, Result, Results, Gens

LEMMA StepTyped == TypeInv /\ [Next]_vars => TypeInv'
<1> SUFFICES ASSUME TypeInv, Next PROVE TypeInv'
  BY StutterTyped
<1> QED BY NextCases, RewriteTyped, NewTyped, OpenTyped, OpenFileTyped, ValidateFileTyped, ParseFileTyped,
           CloseSetTyped, DeleteTyped, QueryTyped DEF TypeInv

(* Every variable keeps its type, and an open() in progress has a handle,  *)
(* a path and room for the mapping it makes.                               *)
THEOREM TypeCorrect == Spec => []TypeOK
<1>1. TypeInv => TypeOK
  BY DEF TypeInv
<1> QED BY <1>1, InitTyped, StepTyped, PTL DEF Spec

-----------------------------------------------------------------------------
(* The inductive invariants.  While open() is past its mmap, the file it   *)
(* works on is the youngest mapping; no pointer, reference or section      *)
(* object is of that generation yet.                                       *)

Mapping == pc \in {"validate", "deserialize"}

DescriptorInv == TypeInv /\ FdOwnership

BufferInv == BufferSet /\ (Mapping => m_buffer[cur] # Uninit)

OpenInv ==
  /\ OpenIsParsed
  /\ \A d \in Handles : m_is_open[d] => d \in objects
  /\ pc # "idle" => ~m_is_open[cur]
  /\ Mapping => Current(cur) = Len(maps) /\ m_buffer[cur] = maps[Len(maps)].addr

(* A section object has one owner, and a reference is into an object of    *)
(* the data set that handed it out.                                        *)
SectionInv ==
  /\ \A d \in Handles, p \in Pointers : Sec(d, p) # NULL => <<p, Sec(d, p)>> \in heap
  /\ \A h \in heap : h[2] <= Len(maps) /\ (Mapping => h[2] < Len(maps))
  /\ \A d, e \in Handles, p \in Pointers :
       d # e /\ Sec(d, p) # NULL => Sec(d, p) # Sec(e, p)
  /\ RefsValid
  /\ \A r \in refs, e \in Handles : e # r[1] => Sec(e, r[2]) # r[3]

-----------------------------------------------------------------------------
(* Descriptors.                                                            *)

(* The steps that change neither the descriptor table nor an m_fd.         *)
LEMMA DescriptorFrame ==
  ASSUME FdOwnership, UNCHANGED <<fdtab, m_fd>>
  PROVE  FdOwnership'
  BY DEF FdOwnership, Current

(* A handle that gives up its descriptor, with or without closing it.      *)
LEMMA DescriptorReleased ==
  ASSUME TypeInv, FdOwnership, NEW d \in Handles,
         fdtab' = FdClosed(d) \/ fdtab' = fdtab,
         m_fd' = [m_fd EXCEPT ![d] = NoFd]
  PROVE  FdOwnership'
<1> SUFFICES ASSUME NEW e \in Handles, m_fd'[e] # NoFd
             PROVE  /\ fdtab'[m_fd'[e]] # 0
                    /\ \A f \in Handles \ {e} : m_fd'[f] # m_fd'[e]
  BY DEF FdOwnership, Current
<1>1. e # d /\ m_fd'[e] = m_fd[e] /\ m_fd[e] \in Fds
  BY DEF TypeInv, TypeOK, FileTypeOK
<1>2. fdtab[m_fd[e]] # 0 /\ \A f \in Handles \ {e} : m_fd[f] # m_fd[e]
  BY <1>1 DEF FdOwnership, Current
<1>3. fdtab'[m_fd[e]] # 0
  BY <1>1, <1>2 DEF FdClosed
<1> QED BY <1>1, <1>2, <1>3 DEF TypeInv, TypeOK, FileTypeOK

LEMMA DescriptorThrow ==
  ASSUME TypeInv, FdOwnership, NEW ex, NEW fd \in {m_fd[cur], NoFd}, NEW sec,
         pc # "idle", Throw(ex, fd, sec)
  PROVE  FdOwnership'
<1>1. cur \in Handles
  BY DEF TypeInv, CallOK
<1>2. fdtab' = fdtab /\ (m_fd' = m_fd \/ m_fd' = [m_fd EXCEPT ![cur] = NoFd])
  BY <1>1 DEF Throw, Forget, TypeInv, TypeOK, FileTypeOK
<1> QED BY <1>1, <1>2, DescriptorFrame, DescriptorReleased

LEMMA DescriptorMapped ==
  ASSUME TypeInv, FdOwnership, NEW d \in Handles, NEW p, MapFile(d, p)
  PROVE  FdOwnership'
<1>1. PICK n \in FreeFd : /\ fdtab' = [fdtab EXCEPT ![n] = Len(maps) + 1]
                          /\ m_fd' = [m_fd EXCEPT ![d] = n]
  BY DEF MapFile
<1>2. n \in Fds /\ fdtab[n] = 0 /\ Len(maps) + 1 # 0 /\ n # NoFd
  BY ResourcesAssumed DEF FreeFd, TypeInv, TypeOK, FileTypeOK, NoFd
<1>3. \A e \in Handles : m_fd[e] # n
  BY <1>2 DEF FdOwnership, Current
<1> SUFFICES ASSUME NEW e \in Handles, m_fd'[e] # NoFd
             PROVE  /\ fdtab'[m_fd'[e]] # 0
                    /\ \A f \in Handles \ {e} : m_fd'[f] # m_fd'[e]
  BY DEF FdOwnership, Current
<1>4. m_fd'[e] \in Fds
  BY <1>1, <1>2 DEF TypeInv, TypeOK, FileTypeOK
<1> QED BY <1>1, <1>2, <1>3, <1>4 DEF FdOwnership, Current, TypeInv, TypeOK, FileTypeOK

LEMMA DescriptorClosed ==
  ASSUME TypeInv, FdOwnership, NEW d \in Handles, CloseSet(d) \/ Delete(d)
  PROVE  FdOwnership'
<1>1. ~CloseFails(d)
  BY DEF CloseFails, FdOwnership, Current
<1> QED BY <1>1, DescriptorFrame, DescriptorReleased
        DEF CloseSet, Close, CloseTo, Delete, Destroy, Forget, fileVars

LEMMA DescriptorStep == DescriptorInv /\ [Next]_vars => DescriptorInv'
<1> SUFFICES ASSUME TypeInv, FdOwnership, [Next]_vars PROVE FdOwnership'
  BY StepTyped DEF DescriptorInv
<1>1. CASE OpenFile
  <2>1. cur \in Handles
    BY <1>1 DEF OpenFile, TypeInv, CallOK
  <2> QED BY <1>1, <2>1, DescriptorMapped, DescriptorThrow DEF OpenFile
<1>2. CASE ValidateFile
  BY <1>2, DescriptorFrame, DescriptorThrow DEF ValidateFile, fileVars
<1>3. CASE ParseFile
  BY <1>3, DescriptorFrame, DescriptorThrow DEF ParseFile, Deserialize, fileVars
<1>4. CASE \E d \in Handles : CloseSet(d) \/ Delete(d)
  BY <1>4, DescriptorClosed
<1>5. CASE \/ Rewrite \/ UNCHANGED vars
           \/ \E d \in Handles : Open(d) \/ QueryStep(d) \/ \E p \in Paths : New(d, p)
  BY <1>5, DescriptorFrame DEF Rewrite, vars, Open, New, QueryStep, fileVars
<1> QED BY <1>1, <1>2, <1>3, <1>4, <1>5, NextCases DEF TypeInv

LEMMA DescriptorInit == Init => DescriptorInv
  BY InitTyped DEF DescriptorInv, Init, FileInit, FdOwnership

(* No descriptor is closed twice or by a data set that does not own it.    *)
THEOREM DescriptorsOwned == Spec => []FdOwnership
<1>1. DescriptorInv => FdOwnership
  BY DEF DescriptorInv
<1> QED BY <1>1, DescriptorInit, DescriptorStep, PTL DEF Spec

-----------------------------------------------------------------------------
(* Buffers.                                                                *)

LEMMA BufferThrow ==
  ASSUME TypeInv, BufferInv, NEW ex, NEW fd, NEW sec, pc # "idle", Throw(ex, fd, sec)
  PROVE  BufferInv'
<1>1. cur \in Handles /\ pc' = "idle" /\ objects' = objects
  BY DEF TypeInv, CallOK, Throw, dsVars
<1>2. \A d \in objects : m_buffer'[d] = m_buffer[d]
  BY <1>1 DEF Throw, Forget, TypeInv, TypeOK, FileTypeOK
<1> QED BY <1>1, <1>2 DEF BufferInv, BufferSet, Mapping

LEMMA BufferMapped ==
  ASSUME TypeInv, BufferInv, NEW p, MapFile(cur, p), cur \in Handles,
         UNCHANGED <<objects, cur>>
  PROVE  BufferInv'
<1>1. PICK a \in Addrs : m_buffer' = [m_buffer EXCEPT ![cur] = a]
  BY DEF MapFile
<1>2. a # Uninit
  BY ResourcesAssumed DEF Uninit
<1> QED BY <1>1, <1>2 DEF BufferInv, BufferSet, TypeInv, TypeOK, FileTypeOK

LEMMA BufferStep == TypeInv /\ BufferInv /\ [Next]_vars => BufferInv'
<1> SUFFICES ASSUME TypeInv, BufferInv, [Next]_vars PROVE BufferInv'
  OBVIOUS
<1>1. CASE OpenFile
  <2>1. cur \in Handles
    BY <1>1 DEF OpenFile, TypeInv, CallOK
  <2> QED BY <1>1, <2>1, BufferMapped, BufferThrow DEF OpenFile, dsVars
<1>2. CASE ValidateFile
  <2>1. CASE pc' = "deserialize" /\ UNCHANGED <<fileVars, dsVars, cur>>
    BY <1>2, <2>1 DEF ValidateFile, BufferInv, BufferSet, Mapping, fileVars, dsVars
  <2> QED BY <1>2, <2>1, BufferThrow DEF ValidateFile
<1>3. CASE ParseFile
  <2>1. CASE /\ pc' = "idle" /\ m_buffer' = m_buffer
             /\ objects' = objects \/ objects' = objects \cup {cur}
    BY <1>3, <2>1 DEF ParseFile, BufferInv, BufferSet, Mapping
  <2> QED BY <1>3, <2>1, BufferThrow DEF ParseFile, Deserialize, fileVars, dsVars
<1>4. CASE \E d \in Handles : Delete(d)
  <2>1. PICK d \in Handles : Delete(d)
    BY <1>4
  <2>2. /\ objects' = objects \ {d} /\ pc = "idle" /\ pc' = "idle"
        /\ \A e \in objects' : m_buffer'[e] = m_buffer[e]
    BY <2>1 DEF Delete, Destroy, Forget, Idle, TypeInv, TypeOK, FileTypeOK
  <2> QED BY <2>2 DEF BufferInv, BufferSet, Mapping
<1>5. CASE \E d \in Handles, p \in Paths : New(d, p)
  BY <1>5 DEF New, BufferInv, BufferSet, Mapping, fileVars
<1>6. CASE \E d \in Handles : Open(d)
  BY <1>6 DEF Open, Idle, BufferInv, BufferSet, Mapping, fileVars, dsVars
<1>7. CASE \/ Rewrite \/ UNCHANGED vars
           \/ \E d \in Handles : CloseSet(d) \/ QueryStep(d)
  <2>1. UNCHANGED <<objects, m_buffer, pc, cur>>
    BY <1>7 DEF Rewrite, vars, CloseSet, Close, CloseTo, QueryStep, fileVars, dsVars
  <2> QED BY <2>1 DEF BufferInv, BufferSet, Mapping
<1> QED BY <1>1, <1>2, <1>3, <1>4, <1>5, <1>6, <1>7, NextCases DEF TypeInv

(* close() and the destructor only ever unmap a buffer that open() mapped. *)
THEOREM BuffersSet == Spec => []BufferSet
<1>1. Init => BufferInv
  BY DEF Init, BufferInv, BufferSet, Mapping
<1>2. BufferInv => BufferSet
  BY DEF BufferInv
<1> QED BY <1>1, <1>2, InitTyped, StepTyped, BufferStep, PTL DEF Spec

-----------------------------------------------------------------------------
(* Sections and references.                                                *)

(* A step after which every pointer is what it was or NULL, and no         *)
(* section object is gone.                                                 *)
LEMMA SectionFrame ==
  ASSUME TypeInv, SectionInv, objects \subseteq objects', heap \subseteq heap',
         \A h \in heap' : h[2] <= Len(maps') /\ (Mapping' => h[2] < Len(maps')),
         \A d \in Handles, p \in Pointers : m_sec'[d][p] \in {m_sec[d][p], NULL},
         refs' \subseteq refs
  PROVE  SectionInv'
<1>1. \A r \in refs : r[2] \in Pointers /\ r[3] # NULL
  BY DEF TypeInv, TypeOK, Gens, NULL
<1> QED BY <1>1 DEF SectionInv, RefsValid, Sec

(* A step that leaves the mappings and the section objects alone.          *)
LEMMA SectionShrinks ==
  ASSUME TypeInv, SectionInv, objects \subseteq objects', UNCHANGED <<maps, heap>>,
         Mapping' => Mapping,
         \A d \in Handles, p \in Pointers : m_sec'[d][p] \in {m_sec[d][p], NULL},
         refs' \subseteq refs
  PROVE  SectionInv'
<1>1. \A h \in heap' : h[2] <= Len(maps') /\ (Mapping' => h[2] < Len(maps'))
  BY DEF SectionInv
<1> QED BY <1>1, SectionFrame

(* The new sections, of the generation of the youngest mapping, join.      *)
LEMMA SectionParsed ==
  ASSUME TypeInv, SectionInv, Mapping, cur \in Handles, UNCHANGED <<maps, refs>>,
         ~Mapping', objects \subseteq objects',
         NEW c,
         m_sec' = [m_sec EXCEPT ![cur] = Parsed(m_sec[cur], c, Len(maps))],
         heap' = heap \cup (Allocated(m_sec[cur], c) \X {Len(maps)})
  PROVE  SectionInv'
<1> DEFINE g == Len(maps)
<1>0. g \in Nat /\ g # 0 /\ heap \subseteq Pointers \X Gens /\ Gens \subseteq Nat
  BY DEF TypeInv, TypeOK, FileTypeOK, CallOK, Mapping, Gens
<1>1. \A h \in heap : h[2] < g /\ h[2] # g
  BY <1>0 DEF SectionInv
<1>2. \A p \in Pointers :
        \/ m_sec'[cur][p] = g /\ <<p, g>> \in heap'
        \/ m_sec'[cur][p] = m_sec[cur][p]
  BY DEF Parsed, TypeInv, TypeOK, FileTypeOK
<1>3. \A d \in Handles \ {cur} : m_sec'[d] = m_sec[d]
  BY DEF TypeInv, TypeOK, FileTypeOK
<1>4. \A d \in Handles, p \in Pointers : Sec(d, p) # NULL => Sec(d, p) # g
  <2> SUFFICES ASSUME NEW d \in Handles, NEW p \in Pointers, Sec(d, p) # NULL
               PROVE  Sec(d, p) # g
    OBVIOUS
  <2>1. <<p, Sec(d, p)>> \in heap
    BY DEF SectionInv
  <2>2. <<p, Sec(d, p)>>[2] # g
    BY <2>1, <1>1
  <2> QED BY <2>2
<1>5. g # NULL
  BY <1>0 DEF NULL
<1>6. \A d \in Handles, p \in Pointers : Sec(d, p)' # NULL => <<p, Sec(d, p)'>> \in heap'
  <2> SUFFICES ASSUME NEW d \in Handles, NEW p \in Pointers, Sec(d, p)' # NULL
               PROVE  <<p, Sec(d, p)'>> \in heap'
    OBVIOUS
  <2>1. Sec(d, p)' = Sec(d, p) \/ <<p, Sec(d, p)'>> \in heap'
    BY <1>2, <1>3 DEF Sec
  <2>2. Sec(d, p) # NULL => <<p, Sec(d, p)>> \in heap
    BY DEF SectionInv
  <2>3. heap \subseteq heap'
    OBVIOUS
  <2> QED BY <2>1, <2>2, <2>3
<1>7. \A h \in heap' : h[2] <= Len(maps')
  <2> SUFFICES ASSUME NEW h \in heap' PROVE h[2] <= g
    OBVIOUS
  <2>1. CASE h \in heap
    <3>1. h[2] \in Nat /\ h[2] < g
      BY <2>1, <1>0, <1>1
    <3> HIDE DEF g
    <3> QED BY <3>1, <1>0
  <2>2. CASE h \in Allocated(m_sec[cur], c) \X {g}
    <3>1. h[2] = g
      BY <2>2
    <3> HIDE DEF g
    <3> QED BY <3>1, <1>0
  <2> QED BY <2>1, <2>2
<1>8. \A d, e \in Handles, p \in Pointers :
        d # e /\ Sec(d, p)' # NULL => Sec(d, p)' # Sec(e, p)'
  <2> SUFFICES ASSUME NEW d \in Handles, NEW e \in Handles, NEW p \in Pointers,
                      d # e, Sec(d, p)' # NULL, Sec(d, p)' = Sec(e, p)'
               PROVE  FALSE
    OBVIOUS
  <2>1. /\ Sec(d, p) # NULL => Sec(d, p) # Sec(e, p)
        /\ Sec(e, p) # NULL => Sec(e, p) # Sec(d, p)
    BY DEF SectionInv
  <2>2. Sec(d, p) # g /\ Sec(e, p) # g
    BY <1>4, <1>5
  <2>3. CASE d = cur
    BY <2>1, <2>2, <2>3, <1>2, <1>3 DEF Sec
  <2>4. CASE d # cur
    BY <2>1, <2>2, <2>4, <1>2, <1>3 DEF Sec
  <2> QED BY <2>3, <2>4
<1>9. \A r \in refs' : r[1] \in objects' /\ <<r[2], r[3]>> \in heap'
  BY DEF SectionInv, RefsValid
<1>10. \A r \in refs', e \in Handles : e # r[1] => Sec(e, r[2])' # r[3]
  <2> SUFFICES ASSUME NEW r \in refs, NEW e \in Handles, e # r[1]
               PROVE  Sec(e, r[2])' # r[3]
    OBVIOUS
  <2>1. r[2] \in Pointers /\ r[3] # g
    <3>1. <<r[2], r[3]>> \in heap /\ r \in Handles \X Pointers \X Gens
      BY DEF SectionInv, RefsValid, TypeInv, TypeOK
    <3>2. <<r[2], r[3]>>[2] # g
      BY <3>1, <1>1
    <3> QED BY <3>1, <3>2
  <2>2. Sec(e, r[2]) # r[3]
    BY DEF SectionInv
  <2> QED BY <2>1, <2>2, <1>2, <1>3 DEF Sec
<1> QED BY <1>6, <1>7, <1>8, <1>9, <1>10 DEF SectionInv, RefsValid

LEMMA SectionThrow ==
  ASSUME TypeInv, SectionInv, NEW ex, NEW fd, pc # "idle",
         Throw(ex, fd, m_sec[cur]), UNCHANGED heap
  PROVE  SectionInv'
<1>1. cur \in Handles
  BY DEF TypeInv, CallOK
<1>2. \A d \in Handles, p \in Pointers : m_sec'[d][p] \in {m_sec[d][p], NULL}
  <2>1. m_sec \in [Handles -> [Pointers -> {NULL} \cup Gens]]
    BY DEF TypeInv, TypeOK, FileTypeOK
  <2>2. \/ m_sec' = [m_sec EXCEPT ![cur] = m_sec[cur]]
        \/ m_sec' = [m_sec EXCEPT ![cur] = [p \in Pointers |-> NULL]]
    BY DEF Throw, Forget
  <2> QED BY <1>1, <2>1, <2>2
<1> QED BY <1>2, SectionShrinks DEF Throw, Mapping, dsVars

LEMMA SectionMapped ==
  ASSUME TypeInv, SectionInv, NEW p, MapFile(cur, p), UNCHANGED <<objects, refs>>
  PROVE  SectionInv'
<1>1. /\ Len(maps) \in Nat /\ Len(maps') = Len(maps) + 1
      /\ UNCHANGED <<heap, m_sec>>
  BY DEF MapFile, TypeInv, TypeOK, FileTypeOK
<1>2. heap \subseteq Pointers \X Gens /\ Gens \subseteq Nat
  BY DEF TypeInv, TypeOK, FileTypeOK, Gens
<1>3. \A h \in heap' : h[2] <= Len(maps') /\ h[2] < Len(maps')
  <2> SUFFICES ASSUME NEW h \in heap PROVE h[2] <= Len(maps') /\ h[2] < Len(maps')
    BY <1>1
  <2>1. h[2] \in Nat /\ h[2] <= Len(maps)
    BY <1>2 DEF SectionInv
  <2> QED BY <2>1, <1>1
<1> QED BY <1>1, <1>3, SectionFrame

LEMMA SectionParseFile ==
  ASSUME TypeInv, SectionInv, ParseFile
  PROVE  SectionInv'
<1> DEFINE g == Len(maps)
           c == maps[g].content
           new == Allocated(m_sec[cur], c) \X {g}
<1>1. cur \in Handles /\ Mapping
  BY DEF TypeInv, CallOK, ParseFile, Mapping
<1>2. CASE /\ pc' = "idle" /\ objects \subseteq objects' /\ UNCHANGED <<maps, refs>>
           /\ m_sec' = [m_sec EXCEPT ![cur] = Parsed(m_sec[cur], c, g)]
           /\ heap' = heap \cup new
  BY <1>1, <1>2, SectionParsed DEF Mapping
<1>3. CASE /\ pc' = "idle" /\ UNCHANGED <<objects, maps, refs>> /\ Forget(cur)
           /\ heap' = heap \cup new
  <2>1. g \in Nat /\ heap \subseteq Pointers \X Gens /\ Gens \subseteq Nat
    BY DEF TypeInv, TypeOK, FileTypeOK, Gens
  <2>2. \A h \in heap' : h[2] <= Len(maps') /\ (Mapping' => h[2] < Len(maps'))
    <3>1. ~Mapping' /\ maps' = maps
      BY <1>3 DEF Mapping
    <3>2. \A h \in heap : h[2] <= g
      BY DEF SectionInv
    <3>3. \A h \in new : h[2] <= g
      <4> SUFFICES ASSUME NEW h \in new PROVE h[2] <= g
        OBVIOUS
      <4> HIDE DEF g
      <4>1. h[2] = g
        OBVIOUS
      <4> QED BY <4>1, <2>1
    <3> QED BY <1>3, <3>1, <3>2, <3>3
  <2>3. \A d \in Handles, p \in Pointers : m_sec'[d][p] \in {m_sec[d][p], NULL}
    BY <1>1, <1>3 DEF Forget, TypeInv, TypeOK, FileTypeOK
  <2> QED BY <1>3, <2>2, <2>3, SectionFrame
<1>4. CASE pc' = "idle" /\ UNCHANGED <<fileVars, dsVars, refs>>
  BY <1>4, SectionShrinks DEF Mapping, fileVars, dsVars
<1> QED BY <1>2, <1>3, <1>4 DEF ParseFile, Deserialize, Throw, dsVars

LEMMA SectionDelete ==
  ASSUME TypeInv, SectionInv, NEW d \in Handles, Delete(d)
  PROVE  SectionInv'
<1>1. /\ objects' = objects \ {d} /\ heap' = heap \ Owned(d) /\ maps' = maps
      /\ refs' = {r \in refs : r[1] # d} /\ ~Mapping'
      /\ \A e \in Handles \ {d} : m_sec'[e] = m_sec[e]
      /\ \A p \in Pointers : m_sec'[d][p] = NULL
  BY DEF Delete, Destroy, Forget, Idle, Mapping, TypeInv, TypeOK, FileTypeOK
<1>2. \A e \in Handles, p \in Pointers : Sec(e, p)' # NULL => <<p, Sec(e, p)'>> \in heap'
  <2> SUFFICES ASSUME NEW e \in Handles, NEW p \in Pointers, Sec(e, p)' # NULL
               PROVE  <<p, Sec(e, p)'>> \in heap'
    OBVIOUS
  <2>1. e # d /\ Sec(e, p)' = Sec(e, p)
    BY <1>1 DEF Sec
  <2>2. <<p, Sec(e, p)>> \in heap /\ Sec(e, p) # Sec(d, p)
    BY <2>1 DEF SectionInv
  <2> QED BY <1>1, <2>1, <2>2 DEF Owned, Sec
<1>3. \A h \in heap' : h[2] <= Len(maps')
  BY <1>1 DEF SectionInv
<1>4. \A e, f \in Handles, p \in Pointers :
        e # f /\ Sec(e, p)' # NULL => Sec(e, p)' # Sec(f, p)'
  BY <1>1 DEF SectionInv, Sec
<1>5. \A r \in refs' : r[1] \in objects' /\ <<r[2], r[3]>> \in heap'
  <2> SUFFICES ASSUME NEW r \in refs, r[1] # d
               PROVE  r[1] \in objects \ {d} /\ <<r[2], r[3]>> \in heap \ Owned(d)
    BY <1>1
  <2> QED BY DEF SectionInv, RefsValid, Owned, Sec
<1>6. \A r \in refs', e \in Handles : e # r[1] => Sec(e, r[2])' # r[3]
  <2> SUFFICES ASSUME NEW r \in refs, NEW e \in Handles, e # r[1]
               PROVE  Sec(e, r[2])' # r[3]
    BY <1>1
  <2>1. r[2] \in Pointers /\ r[3] # NULL
    BY DEF TypeInv, TypeOK, Gens, NULL
  <2>2. Sec(e, r[2]) # r[3]
    BY DEF SectionInv
  <2> QED BY <1>1, <2>1, <2>2 DEF Sec
<1> QED BY <1>1, <1>2, <1>3, <1>4, <1>5, <1>6 DEF SectionInv, RefsValid

LEMMA SectionQuery ==
  ASSUME TypeInv, SectionInv, NEW d \in Handles, QueryStep(d)
  PROVE  SectionInv'
<1>1. d \in objects /\ UNCHANGED <<objects, maps, heap, m_sec, pc>> /\ refs' \subseteq refs \cup Live(d)
  BY DEF QueryStep, AnswerTyped, fileVars, dsVars
<1>2. \A r \in Live(d) : /\ r[1] = d /\ <<r[2], r[3]>> \in heap
                         /\ \A e \in Handles : e # d => Sec(e, r[2]) # r[3]
  <2> SUFFICES ASSUME NEW p \in Pointers, Sec(d, p) # NULL
               PROVE  /\ <<p, Sec(d, p)>> \in heap
                      /\ \A e \in Handles : e # d => Sec(e, p) # Sec(d, p)
    BY DEF Live
  <2> QED BY DEF SectionInv
<1> QED BY <1>1, <1>2 DEF SectionInv, RefsValid, Mapping, Sec

LEMMA SectionStep == TypeInv /\ SectionInv /\ [Next]_vars => SectionInv'
<1> SUFFICES ASSUME TypeInv, SectionInv, [Next]_vars PROVE SectionInv'
  OBVIOUS
<1>1. CASE OpenFile
  BY <1>1, SectionMapped, SectionThrow DEF OpenFile, dsVars
<1>2. CASE ValidateFile
  <2>1. CASE pc' = "deserialize" /\ UNCHANGED <<fileVars, dsVars, refs>>
    BY <1>2, <2>1, SectionShrinks DEF ValidateFile, Mapping, fileVars, dsVars
  <2> QED BY <1>2, <2>1, SectionThrow DEF ValidateFile
<1>3. CASE ParseFile
  BY <1>3, SectionParseFile
<1>4. CASE \E d \in Handles : Delete(d)
  BY <1>4, SectionDelete
<1>5. CASE \E d \in Handles : QueryStep(d)
  BY <1>5, SectionQuery
<1>6. CASE \/ Rewrite \/ UNCHANGED vars
           \/ \E d \in Handles : CloseSet(d) \/ Open(d) \/ \E p \in Paths : New(d, p)
  <2>1. /\ UNCHANGED <<objects, maps, heap, m_sec, refs>> /\ (Mapping' => Mapping)
    BY <1>6 DEF Rewrite, vars, CloseSet, Close, CloseTo, Open, New, Idle, Mapping, fileVars, dsVars
  <2> QED BY <2>1, SectionShrinks
<1> QED BY <1>1, <1>2, <1>3, <1>4, <1>5, <1>6, NextCases DEF TypeInv

(* A reference that a query handed out points to an allocated section for  *)
(* as long as its data set exists, through any close and reopen.           *)
THEOREM ReferencesValid == Spec => []RefsValid
<1>1. Init => SectionInv
  BY DEF Init, FileInit, SectionInv, RefsValid, Sec
<1>2. SectionInv => RefsValid
  BY DEF SectionInv
<1> QED BY <1>1, <1>2, InitTyped, StepTyped, SectionStep, PTL DEF Spec

-----------------------------------------------------------------------------
(* Open means parsed.                                                      *)

ParsedOK(d) ==
  /\ Current(d) \in 1 .. Len(maps)
  /\ LET c == maps[Current(d)].content
     IN /\ c.bad = "none"
        /\ m_buffer[d] = maps[Current(d)].addr
        /\ \A s \in c.toc \ {"values"} : Sec(d, s) = Current(d)
        /\ "values" \in c.toc => Current(d) \in {Sec(d, "sweepvalues"), Sec(d, "nonsweepvalues")}

(* What an action on another handle, or on no handle, leaves alone.        *)
Untouched(d) ==
  /\ Current(d)' = Current(d)
  /\ m_buffer'[d] = m_buffer[d] /\ m_sec'[d] = m_sec[d]

MapsKept == Len(maps') >= Len(maps) /\ \A g \in 1 .. Len(maps) : maps'[g] = maps[g]

LEMMA ParsedFrame ==
  ASSUME TypeInv, MapsKept, NEW d, ParsedOK(d), Untouched(d)
  PROVE  ParsedOK(d)'
<1>1. Len(maps) \in Nat
  BY DEF TypeInv, TypeOK, FileTypeOK
<1>2. Len(maps') >= Len(maps) /\ (Len(maps') \in Int => Current(d) \in 1 .. Len(maps'))
  BY <1>1 DEF ParsedOK, MapsKept
<1> QED BY <1>1, <1>2 DEF ParsedOK, MapsKept, Untouched, Sec

LEMMA OpenFrame ==
  ASSUME TypeInv, OpenInv, MapsKept, Len(maps') \in Nat,
         \A d \in Handles : m_is_open'[d] => m_is_open[d] /\ Untouched(d)
  PROVE  OpenIsParsed'
<1> SUFFICES ASSUME NEW d \in Handles, m_is_open'[d] PROVE ParsedOK(d)'
  BY DEF OpenIsParsed, ParsedOK
<1>1. ParsedOK(d)
  BY DEF OpenInv, OpenIsParsed, ParsedOK
<1> QED BY <1>1, ParsedFrame

(* Closing or mapping for one handle leaves the others' files alone.       *)
LEMMA CurrentReleased ==
  ASSUME TypeInv, FdOwnership, NEW d \in Handles, NEW e \in Handles \ {d},
         fdtab' = FdClosed(d) \/ fdtab' = fdtab, m_fd'[e] = m_fd[e]
  PROVE  Current(e)' = Current(e)
<1>1. CASE m_fd[e] = NoFd
  BY <1>1 DEF Current
<1>2. CASE m_fd[e] # NoFd
  BY <1>2 DEF Current, FdOwnership, FdClosed, TypeInv, TypeOK, FileTypeOK
<1> QED BY <1>1, <1>2

LEMMA CurrentMapped ==
  ASSUME TypeInv, FdOwnership, NEW d \in Handles, NEW p, MapFile(d, p)
  PROVE  /\ \A e \in Handles \ {d} : Untouched(e)
         /\ Current(d)' = Len(maps') /\ m_buffer'[d] = maps'[Len(maps')].addr
         /\ MapsKept /\ Len(maps') \in Nat
<1>1. PICK n \in FreeFd, a \in Addrs :
        /\ maps' = Append(maps, [content |-> disk[p], addr |-> a])
        /\ fdtab' = [fdtab EXCEPT ![n] = Len(maps) + 1]
        /\ m_fd' = [m_fd EXCEPT ![d] = n]
        /\ m_buffer' = [m_buffer EXCEPT ![d] = a]
        /\ m_sec' = m_sec
  BY DEF MapFile
<1>2. n \in Fds /\ fdtab[n] = 0 /\ n # NoFd
  BY ResourcesAssumed DEF FreeFd, NoFd
<1>3. Len(maps) \in Nat /\ Len(maps') = Len(maps) + 1
  BY <1>1 DEF TypeInv, TypeOK, FileTypeOK
<1>4. MapsKept /\ maps'[Len(maps')].addr = a
  BY <1>1, <1>3 DEF MapsKept, TypeInv, TypeOK, FileTypeOK
<1>5. ASSUME NEW e \in Handles \ {d} PROVE Untouched(e)
  <2>1. m_fd'[e] = m_fd[e] /\ m_buffer'[e] = m_buffer[e]
    BY <1>1 DEF TypeInv, TypeOK, FileTypeOK
  <2>2. m_fd[e] # n
    BY <1>2 DEF FdOwnership, Current
  <2>3. Current(e)' = Current(e)
    BY <1>1, <2>1, <2>2 DEF Current, TypeInv, TypeOK, FileTypeOK
  <2> QED BY <1>1, <2>1, <2>3 DEF Untouched
<1>6. Current(d)' = Len(maps')
  BY <1>1, <1>2, <1>3 DEF Current, TypeInv, TypeOK, FileTypeOK
<1>7. m_buffer'[d] = a
  BY <1>1 DEF TypeInv, TypeOK, FileTypeOK
<1> QED BY <1>3, <1>4, <1>5, <1>6, <1>7

LEMMA OpenThrow ==
  ASSUME TypeInv, FdOwnership, OpenInv, NEW ex, NEW fd, NEW sec, pc # "idle", Throw(ex, fd, sec)
  PROVE  OpenInv'
<1>1. cur \in Handles /\ ~m_is_open[cur]
  BY DEF TypeInv, CallOK, OpenInv
<1>2. UNCHANGED <<objects, m_is_open, maps, fdtab>> /\ pc' = "idle"
  BY DEF Throw, dsVars
<1>3. \A d \in Handles \ {cur} : m_fd'[d] = m_fd[d] /\ m_buffer'[d] = m_buffer[d] /\ m_sec'[d] = m_sec[d]
  BY <1>1 DEF Throw, Forget, TypeInv, TypeOK, FileTypeOK
<1>4. \A d \in Handles \ {cur} : Untouched(d)
  BY <1>1, <1>2, <1>3, CurrentReleased DEF Untouched
<1>5. MapsKept /\ Len(maps') \in Nat
  BY <1>2 DEF MapsKept, TypeInv, TypeOK, FileTypeOK
<1>6. OpenIsParsed'
  BY <1>1, <1>2, <1>4, <1>5, OpenFrame
<1> QED BY <1>2, <1>6 DEF OpenInv, Mapping

LEMMA OpenParseFile ==
  ASSUME TypeInv, FdOwnership, OpenInv, ParseFile
  PROVE  OpenInv'
<1> DEFINE g == Len(maps)
           c == maps[g].content
<1>1. /\ cur \in Handles /\ ~m_is_open[cur]
      /\ Current(cur) = g /\ m_buffer[cur] = maps[g].addr
  BY DEF TypeInv, CallOK, OpenInv, ParseFile, Mapping
<1>2. g \in Nat /\ g \in 1 .. Len(maps)
  BY DEF TypeInv, TypeOK, FileTypeOK, CallOK, ParseFile
<1>3. CASE /\ c.bad = "none" /\ Deserialize(cur, g)
           /\ objects' = objects \cup {cur}
           /\ m_is_open' = [m_is_open EXCEPT ![cur] = TRUE]
           /\ pc' = "idle"
  <2>1. /\ m_sec' = [m_sec EXCEPT ![cur] = Parsed(m_sec[cur], c, g)]
        /\ UNCHANGED <<maps, fdtab, m_fd, m_buffer>>
    BY <1>3 DEF Deserialize
  <2>2. Begun(c) = c.toc \cup {"header"} /\ c.toc \subseteq Sections
    <3>1. c \in Contents
      BY <1>2, MapsTyped DEF TypeInv
    <3>2. c.toc \subseteq Sections
      BY <3>1, ContentsAssumed DEF ContentsAssumption
    <3> QED BY <1>3, <3>2 DEF Begun, Rank, Sections
  <2> PICK k \in Handles : k = cur
    BY <1>1
  <2>3. \A p \in Allocated(m_sec[k], c) \cap Pointers : m_sec'[k][p] = g
    BY <1>1, <2>1 DEF Parsed, TypeInv, TypeOK, FileTypeOK
  <2>4. ParsedOK(k)'
    <3>1. Current(k)' = g /\ maps' = maps /\ m_buffer'[k] = maps[g].addr
      BY <1>1, <2>1 DEF Current
    <3>2. \A s \in c.toc \ {"values"} : m_sec'[k][s] = g
      BY <2>2, <2>3 DEF Allocated, Pointers, Sections
    <3>3. "values" \in c.toc => g \in {m_sec'[k]["sweepvalues"], m_sec'[k]["nonsweepvalues"]}
      BY <2>2, <2>3 DEF Allocated, Pointers, Sections
    <3> QED BY <1>2, <1>3, <3>1, <3>2, <3>3 DEF ParsedOK, Sec
  <2>5. ASSUME NEW d \in Handles \ {k}, m_is_open[d] PROVE ParsedOK(d)'
    <3>1. ParsedOK(d)
      BY <2>5 DEF OpenInv, OpenIsParsed, ParsedOK
    <3>2. Untouched(d) /\ MapsKept
      BY <2>1, <1>1, <1>2 DEF Untouched, MapsKept, Current, TypeInv, TypeOK, FileTypeOK
    <3> QED BY <3>1, <3>2, ParsedFrame
  <2>6. \A d \in Handles : m_is_open'[d] => d = k \/ m_is_open[d]
    BY <1>3 DEF TypeInv, TypeOK
  <2>7. OpenIsParsed'
    BY <2>4, <2>5, <2>6 DEF OpenIsParsed, ParsedOK
  <2> QED BY <1>3, <2>6, <2>7 DEF OpenInv, Mapping
<1>4. CASE pc' = "idle" /\ UNCHANGED <<fileVars, dsVars>>
  BY <1>4 DEF OpenInv, OpenIsParsed, Current, Sec, Mapping, fileVars, dsVars
<1> QED BY <1>3, <1>4, OpenThrow DEF ParseFile

LEMMA OpenClosed ==
  ASSUME TypeInv, FdOwnership, OpenInv, NEW d \in Handles, CloseSet(d) \/ Delete(d)
  PROVE  OpenInv'
<1>1. ~CloseFails(d)
  BY DEF CloseFails, FdOwnership, Current
<1>2. pc' = "idle" /\ maps' = maps
  BY DEF CloseSet, Close, CloseTo, Delete, Destroy, Idle, fileVars
<1>3. CASE Delete(d) \/ m_is_open[d]
  <2>1. /\ fdtab' = FdClosed(d) /\ m_is_open' = [m_is_open EXCEPT ![d] = FALSE]
        /\ objects' \in {objects, objects \ {d}}
        /\ \A e \in Handles \ {d} :
             m_fd'[e] = m_fd[e] /\ m_buffer'[e] = m_buffer[e] /\ m_sec'[e] = m_sec[e]
    BY <1>1, <1>3 DEF CloseSet, Close, CloseTo, Delete, Destroy, Forget, TypeInv, TypeOK, FileTypeOK
  <2>2. \A e \in Handles : m_is_open'[e] => e # d /\ m_is_open[e]
    BY <2>1 DEF TypeInv, TypeOK
  <2>3. \A e \in Handles \ {d} : Untouched(e)
    BY <2>1, CurrentReleased DEF Untouched
  <2>4. MapsKept /\ Len(maps') \in Nat
    BY <1>2 DEF MapsKept, TypeInv, TypeOK, FileTypeOK
  <2>5. OpenIsParsed'
    BY <2>2, <2>3, <2>4, OpenFrame
  <2> QED BY <1>2, <2>1, <2>2, <2>5 DEF OpenInv, Mapping
<1>4. CASE CloseSet(d) /\ ~m_is_open[d]
  BY <1>2, <1>4 DEF CloseSet, OpenInv, OpenIsParsed, Current, Sec, Mapping, fileVars
<1> QED BY <1>3, <1>4

LEMMA OpenOpenFile ==
  ASSUME TypeInv, FdOwnership, OpenInv, OpenFile
  PROVE  OpenInv'
<1>1. cur \in Handles /\ ~m_is_open[cur]
  BY DEF TypeInv, CallOK, OpenInv, OpenFile
<1>2. CASE MapFile(cur, m_filename[cur]) /\ UNCHANGED <<dsVars, cur>>
  <2>1. /\ \A e \in Handles \ {cur} : Untouched(e)
        /\ Current(cur)' = Len(maps') /\ m_buffer'[cur] = maps'[Len(maps')].addr
        /\ MapsKept /\ Len(maps') \in Nat
    <3>1. PICK k \in Handles : k = cur
      BY <1>1
    <3>2. /\ \A e \in Handles \ {k} : Untouched(e)
          /\ Current(k)' = Len(maps') /\ m_buffer'[k] = maps'[Len(maps')].addr
          /\ MapsKept /\ Len(maps') \in Nat
      BY <1>2, <3>1, CurrentMapped
    <3> QED BY <1>2, <3>1, <3>2 DEF Current
  <2>2. OpenIsParsed'
    BY <1>1, <1>2, <2>1, OpenFrame DEF dsVars
  <2> QED BY <1>1, <1>2, <2>1, <2>2 DEF OpenInv, dsVars
<1> QED BY <1>2, OpenThrow DEF OpenFile

LEMMA OpenStep == DescriptorInv /\ OpenInv /\ [Next]_vars => OpenInv'
<1> SUFFICES ASSUME TypeInv, FdOwnership, OpenInv, [Next]_vars PROVE OpenInv'
  BY DEF DescriptorInv
<1>1. CASE ValidateFile
  <2>1. CASE pc' = "deserialize" /\ UNCHANGED <<fileVars, dsVars, cur>>
    BY <1>1, <2>1 DEF ValidateFile, OpenInv, OpenIsParsed, Current, Sec, Mapping, fileVars, dsVars
  <2> QED BY <1>1, <2>1, OpenThrow DEF ValidateFile
<1>2. CASE \E d \in Handles : CloseSet(d) \/ Delete(d)
  BY <1>2, OpenClosed
<1>3. CASE \E d \in Handles : Open(d) \/ \E p \in Paths : New(d, p)
  <2>1. PICK d \in Handles : Open(d) \/ \E p \in Paths : New(d, p)
    BY <1>3
  <2>2. /\ UNCHANGED <<maps, fdtab, m_fd, m_buffer, m_sec, objects, m_is_open>>
        /\ pc = "idle" /\ pc' \in {"idle", "open"}
        /\ pc' = "open" => cur' = d /\ ~m_is_open[d]
    BY <2>1 DEF Open, New, Idle, OpenInv, fileVars, dsVars
  <2> QED BY <2>2 DEF OpenInv, OpenIsParsed, Current, Sec, Mapping
<1>4. CASE \/ Rewrite \/ UNCHANGED vars \/ \E d \in Handles : QueryStep(d)
  BY <1>4 DEF Rewrite, vars, QueryStep, OpenInv, OpenIsParsed, Current, Sec, Mapping, fileVars, dsVars
<1> QED BY <1>1, <1>2, <1>3, <1>4, OpenOpenFile, OpenParseFile, NextCases DEF TypeInv

(* A data set that says it is open holds its file's descriptor, its buffer *)
(* and every section of it, whatever its earlier opens and the others did. *)
THEOREM OpenMeansParsed == Spec => []OpenIsParsed
<1>1. Init => OpenInv
  BY DEF Init, FileInit, OpenInv, OpenIsParsed, Mapping
<1>2. OpenInv => OpenIsParsed
  BY DEF OpenInv
<1> QED BY <1>1, <1>2, DescriptorInit, DescriptorStep, OpenStep, PTL DEF Spec

-----------------------------------------------------------------------------
(* Leaks.  An object that does not exist holds no descriptor, unless it is *)
(* being constructed and past its mmap, or the process has stopped.        *)
Stopped == pc = "idle" /\ last.res = "undefined"

HoldsInv ==
  ~Stopped => \A d \in Handles \ objects : (Mapping => d # cur) => m_fd[d] = NoFd

LEMMA HoldsThrow ==
  ASSUME TypeInv, HoldsInv, pc # "idle", NEW ex, NEW fd \in {m_fd[cur], NoFd}, NEW sec, Throw(ex, fd, sec)
  PROVE  HoldsInv'
<1>1. pc' = "idle" /\ objects' = objects /\ ~Stopped /\ cur \in Handles
  BY DEF Throw, dsVars, Stopped, TypeInv, CallOK
<1>2. \A d \in Handles \ {cur} : m_fd'[d] = m_fd[d]
  BY <1>1 DEF Throw, Forget, TypeInv, TypeOK, FileTypeOK
<1>3. cur \notin objects => m_fd'[cur] = NoFd
  BY <1>1 DEF Throw, Forget, TypeInv, TypeOK, FileTypeOK
<1> QED BY <1>1, <1>2, <1>3 DEF HoldsInv

LEMMA HoldsStep == TypeInv /\ HoldsInv /\ [Next]_vars => HoldsInv'
<1> SUFFICES ASSUME TypeInv, HoldsInv, [Next]_vars PROVE HoldsInv'
  OBVIOUS
<1>1. CASE OpenFile
  <2>1. cur \in Handles
    BY <1>1 DEF OpenFile, TypeInv, CallOK
  <2>2. CASE MapFile(cur, m_filename[cur]) /\ pc' = "validate" /\ UNCHANGED <<dsVars, cur>>
    <3>1. \A d \in Handles \ {cur} : m_fd'[d] = m_fd[d]
      BY <2>1, <2>2 DEF MapFile, TypeInv, TypeOK, FileTypeOK
    <3> QED BY <1>1, <2>2, <3>1 DEF OpenFile, HoldsInv, Stopped, Mapping, dsVars
  <2> QED BY <1>1, <2>2, HoldsThrow DEF OpenFile
<1>2. CASE ValidateFile
  <2>1. CASE pc' = "deserialize" /\ UNCHANGED <<fileVars, dsVars, cur>>
    BY <1>2, <2>1 DEF ValidateFile, HoldsInv, Stopped, Mapping, fileVars, dsVars
  <2> QED BY <1>2, <2>1, HoldsThrow DEF ValidateFile
<1>3. CASE ParseFile
  <2>1. CASE objects' = objects \cup {cur} /\ m_fd' = m_fd
    BY <1>3, <2>1 DEF ParseFile, HoldsInv, Stopped, Mapping
  <2>2. CASE pc' = "idle" /\ Return(cur, "open", "undefined", 0)
    BY <2>2 DEF HoldsInv, Stopped, Return, Result
  <2> QED BY <1>3, <2>1, <2>2, HoldsThrow DEF ParseFile, Deserialize
<1>4. CASE \E d \in Handles : CloseSet(d) \/ Delete(d)
  <2>1. PICK d \in Handles : CloseSet(d) \/ Delete(d)
    BY <1>4
  <2>2. pc = "idle" /\ pc' = "idle" /\ ~Stopped /\ d \in objects
    BY <2>1 DEF CloseSet, Delete, Idle, Stopped
  <2>3. /\ \A e \in Handles \ {d} : m_fd'[e] = m_fd[e]
        /\ d \in objects' \/ m_fd'[d] = NoFd
        /\ objects \ {d} \subseteq objects'
    BY <2>1 DEF CloseSet, Close, CloseTo, Delete, Destroy, Forget, fileVars, TypeInv, TypeOK, FileTypeOK
  <2> QED BY <2>2, <2>3 DEF HoldsInv, Mapping
<1>5. CASE \/ Rewrite \/ UNCHANGED vars
           \/ \E d \in Handles : Open(d) \/ QueryStep(d) \/ \E p \in Paths : New(d, p)
  BY <1>5 DEF Rewrite, vars, Open, New, QueryStep, fileVars, dsVars, Idle, HoldsInv, Stopped, Mapping
<1> QED BY <1>1, <1>2, <1>3, <1>4, <1>5, NextCases DEF TypeInv

(* One step of the property: an orphan was one before unless its owner's   *)
(* constructor throws, or its owner maps or fails to open again.           *)
LeakStep ==
  \/ Orphans' \subseteq Orphans
  \/ cur \notin objects /\ last'.res \in {"InvalidFileError", "ParseError"}
  \/ cur \in objects /\ pc = "open" /\ m_fd[cur] # NoFd

LEMMA OrphansStay ==
  ASSUME \A n \in Fds : fdtab'[n] # 0 /\ fdtab[n] = 0 => \E d \in Handles : m_fd'[d] = n,
         \A d \in Handles : m_fd'[d] = m_fd[d] \/ m_fd[d] = NoFd \/ (m_fd[d] \in Fds => fdtab'[m_fd[d]] = 0),
         \A n \in Fds : n # NoFd
  PROVE  Orphans' \subseteq Orphans
<1> SUFFICES ASSUME NEW n \in Fds, fdtab'[n] # 0, \A d \in Handles : m_fd'[d] # n
             PROVE  fdtab[n] # 0 /\ \A d \in Handles : m_fd[d] # n
  BY DEF Orphans
<1> QED OBVIOUS

LEMMA NoOrphanByStep == TypeInv /\ HoldsInv /\ [Next]_vars => LeakStep
<1> SUFFICES ASSUME TypeInv, HoldsInv, [Next]_vars PROVE LeakStep
  OBVIOUS
<1>0. \A n \in Fds : n # NoFd
  BY ResourcesAssumed DEF NoFd
<1>1. CASE UNCHANGED <<fdtab, m_fd>>
  BY <1>1 DEF LeakStep, Orphans
<1>2. CASE OpenFile
  <2>1. cur \in Handles /\ pc = "open"
    BY <1>2 DEF OpenFile, TypeInv, CallOK
  <2>2. CASE m_fd[cur] = NoFd
    <3>1. CASE MapFile(cur, m_filename[cur])
      <4>1. PICK n \in FreeFd : /\ fdtab' = [fdtab EXCEPT ![n] = Len(maps) + 1]
                                /\ m_fd' = [m_fd EXCEPT ![cur] = n]
        BY <3>1 DEF MapFile
      <4>2. /\ m_fd'[cur] = n /\ \A d \in Handles \ {cur} : m_fd'[d] = m_fd[d]
            /\ \A k \in Fds \ {n} : fdtab'[k] = fdtab[k]
        BY <2>1, <4>1 DEF TypeInv, TypeOK, FileTypeOK
      <4>3. Orphans' \subseteq Orphans
        BY <1>0, <2>1, <2>2, <4>2, OrphansStay
      <4> QED BY <4>3 DEF LeakStep
    <3>2. CASE Throw("FileOpenError", NoFd, m_sec[cur])
      <4>1. fdtab' = fdtab /\ m_fd' = m_fd
        BY <2>1, <2>2, <3>2 DEF Throw, Forget, TypeInv, TypeOK, FileTypeOK
      <4> QED BY <1>1, <4>1
    <3> QED BY <1>2, <3>1, <3>2 DEF OpenFile
  <2>3. CASE m_fd[cur] # NoFd
    <3>1. cur \in objects
      BY <2>1, <2>3 DEF HoldsInv, Stopped, Mapping
    <3> QED BY <2>1, <2>3, <3>1 DEF LeakStep
  <2> QED BY <2>2, <2>3
<1>3. ASSUME NEW ex \in {"InvalidFileError", "ParseError"}, NEW sec, pc # "idle", Throw(ex, m_fd[cur], sec)
      PROVE  LeakStep
  <2>1. CASE cur \in objects
    <3>1. cur \in Handles
      BY <1>3 DEF TypeInv, CallOK
    <3>2. fdtab' = fdtab /\ m_fd' = m_fd
      BY <1>3, <2>1, <3>1 DEF Throw, TypeInv, TypeOK, FileTypeOK
    <3> QED BY <1>1, <3>2
  <2>2. CASE cur \notin objects
    BY <1>3, <2>2 DEF LeakStep, Throw, Return, Result
  <2> QED BY <2>1, <2>2
<1>4. CASE ValidateFile \/ ParseFile
  BY <1>1, <1>3, <1>4 DEF ValidateFile, ParseFile, Deserialize, fileVars
<1>5. CASE \E d \in Handles : CloseSet(d) \/ Delete(d)
  <2>1. PICK d \in Handles : CloseSet(d) \/ Delete(d)
    BY <1>5
  <2>2. CASE UNCHANGED fileVars
    BY <1>1, <2>2 DEF fileVars
  <2>3. CASE ~UNCHANGED fileVars
    <3>1. /\ fdtab' = FdClosed(d)
          /\ \A e \in Handles \ {d} : m_fd'[e] = m_fd[e]
      BY <2>1, <2>3 DEF CloseSet, Close, CloseTo, Delete, Destroy, Forget, TypeInv, TypeOK, FileTypeOK
    <3>2. \A n \in Fds : fdtab'[n] # 0 => fdtab[n] # 0
      BY <3>1 DEF FdClosed, TypeInv, TypeOK, FileTypeOK
    <3>3. m_fd[d] \in Fds => fdtab'[m_fd[d]] = 0
      BY <3>1 DEF FdClosed
    <3>4. Orphans' \subseteq Orphans
      BY <1>0, <3>1, <3>2, <3>3, OrphansStay
    <3> QED BY <3>4 DEF LeakStep
  <2> QED BY <2>2, <2>3
<1>6. CASE \/ Rewrite \/ UNCHANGED vars
           \/ \E d \in Handles : Open(d) \/ QueryStep(d) \/ \E p \in Paths : New(d, p)
  BY <1>1, <1>6 DEF Rewrite, vars, Open, New, QueryStep, fileVars
<1> QED BY <1>2, <1>4, <1>5, <1>6, NextCases DEF TypeInv

(* A descriptor is lost only by a constructor that throws after ::open, or *)
(* by reopening a set whose last open() threw after it.                    *)
THEOREM LeaksAfterThrows == Spec => LeaksOnlyAfterThrow
<1>1. Init => HoldsInv
  BY DEF Init, FileInit, HoldsInv
<1>2. LeakStep => [ Orphans' \subseteq Orphans
                    \/ (cur \notin objects /\ last'.res \in {"InvalidFileError", "ParseError"})
                    \/ (cur \in objects /\ pc = "open" /\ m_fd[cur] # NoFd)]_vars
  BY DEF LeakStep
<1> QED BY <1>1, <1>2, InitTyped, StepTyped, HoldsStep, NoOrphanByStep, PTL DEF Spec, LeaksOnlyAfterThrow

-----------------------------------------------------------------------------
(* Buffers.  Under FreshAddrs the buffers of two objects differ, so that   *)
(* what close() and the destructor unmap is the object's own.              *)
MappedInv ==
  /\ FreshAddrs
  /\ \A d \in Handles : m_buffer[d] # Uninit => \E g \in 1 .. Len(maps) : maps[g].addr = m_buffer[d]
  /\ \A d, e \in Handles : d # e /\ m_buffer[d] # Uninit => m_buffer[d] # m_buffer[e]
  /\ OpenIsMapped
  /\ Mapping => mmaps[m_buffer[cur]] = Len(maps)

StepInv == TypeInv /\ FdOwnership /\ OpenInv

(* A step that maps and unmaps nothing, and opens or closes no data set.   *)
LEMMA MappedFrame ==
  ASSUME MappedInv, UNCHANGED <<maps, fdtab, mmaps, m_fd, m_buffer, m_is_open>>,
         Mapping' => Mapping /\ cur' = cur
  PROVE  MappedInv'
  BY DEF MappedInv, OpenIsMapped, Current, Mapping

LEMMA MappedThrow ==
  ASSUME StepInv, MappedInv, pc # "idle", NEW ex, NEW fd, NEW sec, Throw(ex, fd, sec)
  PROVE  MappedInv'
<1>1. cur \in Handles /\ ~m_is_open[cur] /\ pc' = "idle"
  BY DEF StepInv, TypeInv, CallOK, OpenInv, Throw
<1>2. UNCHANGED <<maps, mmaps, fdtab, m_is_open>>
  BY DEF Throw, dsVars
<1>3. /\ \A d \in Handles \ {cur} : m_fd'[d] = m_fd[d] /\ m_buffer'[d] = m_buffer[d]
      /\ m_buffer'[cur] \in {m_buffer[cur], Uninit}
  BY <1>1 DEF Throw, Forget, StepInv, TypeInv, TypeOK, FileTypeOK
<1>4. OpenIsMapped'
  BY <1>1, <1>2, <1>3 DEF MappedInv, OpenIsMapped, Current
<1> QED BY <1>1, <1>2, <1>3, <1>4 DEF MappedInv, Mapping

LEMMA MappedOpenFile ==
  ASSUME StepInv, MappedInv, OpenFile
  PROVE  MappedInv'
<1>1. cur \in Handles /\ ~m_is_open[cur] /\ pc # "idle"
  BY DEF StepInv, TypeInv, CallOK, OpenInv, OpenFile
<1>2. CASE MapFile(cur, m_filename[cur]) /\ UNCHANGED <<dsVars, cur>>
  <2>1. PICK k \in Handles : k = cur
    BY <1>1
  <2>2. PICK a \in Addrs :
          /\ \A g \in 1 .. Len(maps) : maps[g].addr # a
          /\ maps' = Append(maps, [content |-> disk[m_filename[k]], addr |-> a])
          /\ mmaps' = [mmaps EXCEPT ![a] = Len(maps) + 1]
          /\ m_buffer' = [m_buffer EXCEPT ![k] = a]
    BY <1>2, <2>1 DEF MapFile, MappedInv
  <2>3. /\ \A e \in Handles \ {k} : Untouched(e)
        /\ Len(maps) \in Nat /\ Len(maps') = Len(maps) + 1 /\ maps'[Len(maps')].addr = a
        /\ \A g \in 1 .. Len(maps) : maps'[g] = maps[g]
    BY <1>2, <2>1, <2>2, CurrentMapped DEF StepInv, TypeInv, TypeOK, FileTypeOK
  <2>4. /\ m_buffer'[k] = a /\ mmaps'[a] = Len(maps')
        /\ \A e \in Handles \ {k} : m_buffer'[e] = m_buffer[e] /\ m_buffer[e] # a
        /\ \A b \in Addrs \ {a} : mmaps'[b] = mmaps[b]
    <3>1. a # Uninit
      BY ResourcesAssumed DEF Uninit
    <3>2. \A e \in Handles : m_buffer[e] # a
      BY <2>2, <3>1 DEF MappedInv
    <3>3. m_buffer'[k] = a /\ \A e \in Handles \ {k} : m_buffer'[e] = m_buffer[e]
      BY <2>2 DEF StepInv, TypeInv, TypeOK, FileTypeOK
    <3>4. mmaps'[a] = Len(maps') /\ \A b \in Addrs \ {a} : mmaps'[b] = mmaps[b]
      BY <2>2, <2>3 DEF StepInv, TypeInv, TypeOK, FileTypeOK
    <3> QED BY <3>2, <3>3, <3>4
  <2>5. \A d \in Handles : m_buffer'[d] # Uninit => \E g \in 1 .. Len(maps') : maps'[g].addr = m_buffer'[d]
    <3> SUFFICES ASSUME NEW d \in Handles, m_buffer'[d] # Uninit
                 PROVE  \E g \in 1 .. Len(maps') : maps'[g].addr = m_buffer'[d]
      OBVIOUS
    <3>1. CASE d = k
      BY <2>3, <2>4, <3>1
    <3>2. CASE d # k
      <4>1. PICK g \in 1 .. Len(maps) : maps[g].addr = m_buffer'[d]
        BY <2>4, <3>2 DEF MappedInv
      <4>2. g \in 1 .. Len(maps') /\ maps'[g].addr = m_buffer'[d]
        BY <2>3, <4>1
      <4> QED BY <4>2
    <3> QED BY <3>1, <3>2
  <2>6. ASSUME NEW d \in Handles, m_is_open'[d]
        PROVE  Current(d)' # 0 /\ mmaps'[m_buffer'[d]] = Current(d)'
    <3>1. d # k /\ m_is_open[d] /\ Untouched(d)
      BY <1>1, <1>2, <2>1, <2>3, <2>6 DEF dsVars
    <3>2. Current(d) # 0 /\ mmaps[m_buffer[d]] = Current(d) /\ ParsedOK(d)
      BY <3>1 DEF MappedInv, OpenIsMapped, StepInv, OpenInv, OpenIsParsed, ParsedOK
    <3>3. m_buffer[d] \in Addrs \ {a}
      BY <2>4, <3>1, <3>2, MapsTyped DEF ParsedOK, StepInv, TypeInv
    <3> QED BY <2>4, <3>1, <3>2, <3>3 DEF Untouched
  <2>7. OpenIsMapped'
    BY <2>6 DEF OpenIsMapped
  <2>8. \A d, e \in Handles : d # e /\ m_buffer'[d] # Uninit => m_buffer'[d] # m_buffer'[e]
    BY <2>4 DEF MappedInv
  <2> QED BY <1>2, <2>1, <2>4, <2>5, <2>7, <2>8 DEF MappedInv
<1> QED BY <1>1, <1>2, MappedThrow DEF OpenFile

LEMMA MappedClosed ==
  ASSUME StepInv, MappedInv, NEW d \in Handles, CloseSet(d) \/ Delete(d)
  PROVE  MappedInv'
<1>1. ~CloseFails(d) /\ pc' = "idle" /\ maps' = maps
  BY DEF CloseFails, StepInv, FdOwnership, Current, CloseSet, Close, CloseTo, Delete, Destroy, Idle, fileVars
<1>2. CASE CloseSet(d) /\ ~m_is_open[d]
  BY <1>2, MappedFrame DEF CloseSet, fileVars, Mapping, Idle
<1>3. CASE Delete(d) \/ m_is_open[d]
  <2>1. /\ fdtab' = FdClosed(d) /\ mmaps' = Unmapped(d)
        /\ m_is_open' = [m_is_open EXCEPT ![d] = FALSE]
        /\ m_buffer'[d] \in {m_buffer[d], Uninit}
        /\ \A e \in Handles \ {d} : m_fd'[e] = m_fd[e] /\ m_buffer'[e] = m_buffer[e]
    BY <1>1, <1>3 DEF CloseSet, Close, CloseTo, Delete, Destroy, Forget, StepInv, TypeInv, TypeOK, FileTypeOK
  <2>2. ASSUME NEW e \in Handles, m_is_open'[e]
        PROVE  Current(e)' # 0 /\ mmaps'[m_buffer'[e]] = Current(e)'
    <3>1. e # d /\ m_is_open[e]
      BY <2>1, <2>2 DEF StepInv, TypeInv, TypeOK
    <3>2. Current(e)' = Current(e)
      BY <2>1, <3>1, CurrentReleased DEF StepInv
    <3>3. Current(e) # 0 /\ mmaps[m_buffer[e]] = Current(e) /\ ParsedOK(e)
      BY <3>1 DEF MappedInv, OpenIsMapped, StepInv, OpenInv, OpenIsParsed, ParsedOK
    <3>4. m_buffer[e] \in Addrs /\ m_buffer[e] # m_buffer[d]
      BY <3>1, <3>3, MapsTyped, ResourcesAssumed DEF ParsedOK, StepInv, TypeInv, MappedInv, Uninit
    <3> QED BY <2>1, <3>1, <3>2, <3>3, <3>4 DEF Unmapped
  <2>3. OpenIsMapped'
    BY <2>2 DEF OpenIsMapped
  <2>4. \A e, f \in Handles : e # f /\ m_buffer'[e] # Uninit => m_buffer'[e] # m_buffer'[f]
    BY <2>1 DEF MappedInv
  <2>5. \A e \in Handles : m_buffer'[e] # Uninit => \E g \in 1 .. Len(maps') : maps'[g].addr = m_buffer'[e]
    BY <1>1, <2>1 DEF MappedInv
  <2> QED BY <1>1, <2>3, <2>4, <2>5 DEF MappedInv, Mapping
<1> QED BY <1>2, <1>3

LEMMA MappedParseFile ==
  ASSUME StepInv, MappedInv, ParseFile
  PROVE  MappedInv'
<1>1. cur \in Handles /\ Mapping /\ Current(cur) = Len(maps) /\ Len(maps) # 0
  BY DEF StepInv, TypeInv, TypeOK, FileTypeOK, CallOK, OpenInv, ParseFile, Mapping
<1>2. CASE /\ UNCHANGED <<maps, fdtab, mmaps, m_fd, m_buffer>>
           /\ m_is_open' = [m_is_open EXCEPT ![cur] = TRUE] /\ pc' = "idle"
  <2>1. OpenIsMapped'
    BY <1>1, <1>2 DEF MappedInv, OpenIsMapped, Current, StepInv, TypeInv, TypeOK
  <2> QED BY <1>2, <2>1 DEF MappedInv, Mapping
<1>3. CASE pc' = "idle" /\ UNCHANGED <<fileVars, dsVars>>
  BY <1>3, MappedFrame DEF Mapping, fileVars, dsVars
<1>4. pc # "idle"
  BY DEF ParseFile
<1> QED BY <1>2, <1>3, <1>4, MappedThrow DEF ParseFile, Deserialize

LEMMA MappedStep == StepInv /\ MappedInv /\ [Next]_vars => MappedInv'
<1> SUFFICES ASSUME StepInv, MappedInv, [Next]_vars PROVE MappedInv'
  OBVIOUS
<1>1. CASE ValidateFile
  <2>1. CASE UNCHANGED <<fileVars, dsVars, cur>>
    BY <1>1, <2>1, MappedFrame DEF ValidateFile, Mapping, fileVars, dsVars
  <2> QED BY <1>1, <2>1, MappedThrow DEF ValidateFile
<1>2. CASE \/ Rewrite \/ UNCHANGED vars
           \/ \E d \in Handles : Open(d) \/ QueryStep(d) \/ \E p \in Paths : New(d, p)
  BY <1>2, MappedFrame DEF Rewrite, vars, Open, New, QueryStep, fileVars, dsVars, Idle, Mapping
<1> QED BY <1>1, <1>2, MappedOpenFile, MappedParseFile, MappedClosed, NextCases DEF StepInv, TypeInv

LEMMA StepInvariant ==
  /\ Init => StepInv
  /\ StepInv /\ [Next]_vars => StepInv'
<1>1. Init => StepInv
  BY DescriptorInit DEF StepInv, DescriptorInv, Init, FileInit, OpenInv, OpenIsParsed, Mapping
<1> QED BY <1>1, DescriptorStep, OpenStep DEF StepInv, DescriptorInv

(* If the kernel hands out no address twice, the buffer of an open data    *)
(* set is mapped, although close() and the destructors unmap m_buffer more *)
(* than once (psffile.cc:115).                                             *)
THEOREM OpenStaysMapped == FreshAddrs /\ Spec => []OpenIsMapped
<1>1. FreshAddrs /\ Init => MappedInv
  BY DEF Init, FileInit, MappedInv, OpenIsMapped, Mapping
<1>2. MappedInv => OpenIsMapped
  BY DEF MappedInv
<1> QED BY <1>1, <1>2, StepInvariant, MappedStep, PTL DEF Spec

-----------------------------------------------------------------------------
(* Sections.  If files stay as they are, every open() of a data set parses *)
(* the same content, sets the same pointers again and leaves none behind.  *)
Content(d) == disk[m_filename[d]]
NoSec      == [p \in Pointers |-> NULL]

OpenStable(d) ==
  /\ maps[Current(d)].content = Content(d)
  /\ \A p \in Pointers : Sec(d, p) # NULL => Sec(d, p) = Current(d)
  /\ Sec(d, "sweepvalues") # NULL => Sec(d, "traces") # NULL

StableInv ==
  /\ ~Rewrites
  /\ pc # "idle" => last.res = "pending"
  /\ Mapping => maps[Len(maps)].content = Content(cur)
  /\ \A d \in Handles, p \in Pointers :
       Sec(d, p) # NULL => d \in objects /\ p \in Allocated(NoSec, Content(d))
  /\ \A d \in Handles : m_is_open[d] => OpenStable(d)

(* What a content leaves allocated does not depend on earlier opens of it. *)
LEMMA SameAllocated ==
  ASSUME NEW c \in Contents, NEW sec \in [Pointers -> {NULL} \cup Gens],
         \A p \in Pointers : sec[p] # NULL => p \in Allocated(NoSec, c)
  PROVE  /\ Allocated(sec, c) = Allocated(NoSec, c)
         /\ ReadAsSwept(sec, c) <=> "sweeps" \in Begun(c)
<1>1. "sweeps" \in Pointers /\ NoSec.sweeps = NULL
  BY DEF Pointers, NoSec
<1>2. "sweeps" \in Allocated(NoSec, c) => "sweeps" \in Begun(c)
  BY DEF Allocated
<1>3. ReadAsSwept(sec, c) <=> "sweeps" \in Begun(c)
  BY <1>1, <1>2 DEF ReadAsSwept
<1>4. ReadAsSwept(NoSec, c) <=> "sweeps" \in Begun(c)
  BY <1>1 DEF ReadAsSwept
<1> QED BY <1>3, <1>4 DEF Allocated

(* A handle whose file and sections a step leaves alone.                   *)
LEMMA StableFrame ==
  ASSUME StepInv, MapsKept, NEW d \in Handles, m_is_open[d], OpenStable(d), Untouched(d),
         UNCHANGED disk, m_filename'[d] = m_filename[d]
  PROVE  OpenStable(d)'
<1>1. Current(d) \in 1 .. Len(maps)
  BY DEF StepInv, OpenInv, OpenIsParsed
<1>2. maps'[Current(d)] = maps[Current(d)]
  BY <1>1 DEF MapsKept
<1> QED BY <1>2 DEF OpenStable, Untouched, Content, Sec

LEMMA StableThrow ==
  ASSUME StepInv, StableInv, pc # "idle", NEW ex, NEW fd, NEW sec \in [Pointers -> {NULL} \cup Gens],
         \A p \in Pointers : sec[p] # NULL => p \in Allocated(NoSec, Content(cur)), Throw(ex, fd, sec)
  PROVE  StableInv'
<1>1. cur \in Handles /\ ~m_is_open[cur] /\ pc' = "idle"
  BY DEF StepInv, TypeInv, CallOK, OpenInv, Throw
<1>2. UNCHANGED <<disk, maps, fdtab, objects, m_filename, m_is_open>>
  BY DEF Throw, dsVars
<1>3. \A d \in Handles \ {cur} : m_fd'[d] = m_fd[d] /\ m_buffer'[d] = m_buffer[d] /\ m_sec'[d] = m_sec[d]
  BY <1>1 DEF Throw, Forget, StepInv, TypeInv, TypeOK, FileTypeOK
<1>4. m_sec'[cur] = IF cur \in objects THEN sec ELSE NoSec
  BY <1>1 DEF Throw, Forget, NoSec, StepInv, TypeInv, TypeOK, FileTypeOK
<1>5. ASSUME NEW d \in Handles, NEW p \in Pointers, m_sec'[d][p] # NULL
      PROVE  d \in objects /\ p \in Allocated(NoSec, Content(d))
  <2>1. CASE d = cur
    BY <1>4, <1>5, <2>1 DEF NoSec
  <2>2. CASE d # cur
    BY <1>3, <1>5, <2>2 DEF StableInv, Sec
  <2> QED BY <2>1, <2>2
<1>6. ASSUME NEW d \in Handles, m_is_open'[d] PROVE OpenStable(d)'
  <2>1. d # cur /\ m_is_open[d]
    BY <1>1, <1>2, <1>6
  <2>2. Untouched(d)
    BY <1>1, <1>2, <1>3, <2>1, CurrentReleased DEF Untouched, StepInv
  <2>3. MapsKept
    BY <1>2 DEF MapsKept, StepInv, TypeInv, TypeOK, FileTypeOK
  <2> QED BY <1>2, <2>1, <2>2, <2>3, StableFrame DEF StableInv
<1> QED BY <1>1, <1>2, <1>5, <1>6 DEF StableInv, Mapping, Sec, Content

LEMMA StableOpenFile ==
  ASSUME StepInv, StableInv, OpenFile
  PROVE  StableInv'
<1>1. cur \in Handles /\ ~m_is_open[cur] /\ pc # "idle" /\ m_filename[cur] \in Paths
  BY DEF StepInv, TypeInv, CallOK, OpenInv, OpenFile
<1>2. m_sec[cur] \in [Pointers -> {NULL} \cup Gens]
      /\ \A p \in Pointers : m_sec[cur][p] # NULL => p \in Allocated(NoSec, Content(cur))
  BY <1>1 DEF StableInv, Sec, StepInv, TypeInv, TypeOK, FileTypeOK
<1>3. CASE MapFile(cur, m_filename[cur]) /\ pc' = "validate" /\ UNCHANGED <<disk, dsVars, cur, refs, last>>
  <2>1. PICK k \in Handles : k = cur
    BY <1>1
  <2>2. /\ \A e \in Handles \ {k} : Untouched(e)
        /\ MapsKept
    BY <1>3, <2>1, CurrentMapped DEF StepInv
  <2>3. maps'[Len(maps')].content = disk[m_filename[k]] /\ m_sec' = m_sec
    <3>1. PICK a \in Addrs : maps' = Append(maps, [content |-> disk[m_filename[k]], addr |-> a])
      BY <1>3, <2>1 DEF MapFile
    <3>2. maps \in Seq([content : Contents, addr : Addrs])
      BY DEF StepInv, TypeInv, TypeOK, FileTypeOK
    <3>3. maps'[Len(maps')] = [content |-> disk[m_filename[k]], addr |-> a]
      BY <3>1, <3>2
    <3> QED BY <1>3, <3>3 DEF MapFile
  <2>4. ASSUME NEW d \in Handles, m_is_open'[d] PROVE OpenStable(d)'
    BY <1>1, <1>3, <2>1, <2>2, <2>4, StableFrame DEF StableInv, dsVars
  <2> QED BY <1>1, <1>3, <2>1, <2>3, <2>4 DEF StableInv, Mapping, Sec, Content, dsVars
<1> QED BY <1>1, <1>2, <1>3, StableThrow DEF OpenFile

(* What the last step of open() finds and makes.                           *)
LEMMA ParseFacts ==
  ASSUME StepInv, StableInv, ParseFile, NEW g, g = Len(maps), NEW c, c = maps[g].content
  PROVE  /\ cur \in Handles /\ ~m_is_open[cur] /\ g \in 1 .. Len(maps) /\ g # NULL
         /\ c \in Contents /\ c = Content(cur) /\ Current(cur) = g
         /\ Parsed(m_sec[cur], c, g) \in [Pointers -> {NULL} \cup Gens]
         /\ \A p \in Pointers :
              /\ Parsed(m_sec[cur], c, g)[p] # NULL <=> p \in Allocated(NoSec, c)
              /\ Parsed(m_sec[cur], c, g)[p] # NULL => Parsed(m_sec[cur], c, g)[p] = g
         /\ ReadAsSwept(Parsed(m_sec[cur], c, g), c) <=> "sweeps" \in Begun(c)
<1>1. /\ cur \in Handles /\ ~m_is_open[cur] /\ g \in 1 .. Len(maps) /\ g \in Gens /\ g # NULL
      /\ Mapping /\ Current(cur) = g
  BY ResourcesAssumed DEF StepInv, TypeInv, TypeOK, FileTypeOK, CallOK, OpenInv, ParseFile, Mapping, Gens, NULL
<1>2. c \in Contents /\ c = Content(cur)
  BY <1>1, MapsTyped DEF StableInv, StepInv, TypeInv
<1> DEFINE old == m_sec[cur]
           new == Parsed(old, c, g)
<1>3. old \in [Pointers -> {NULL} \cup Gens] /\ \A p \in Pointers : old[p] # NULL => p \in Allocated(NoSec, c)
  BY <1>1, <1>2 DEF StableInv, Sec, StepInv, TypeInv, TypeOK, FileTypeOK
<1>4. Allocated(old, c) = Allocated(NoSec, c)
  BY <1>2, <1>3, SameAllocated
<1>5. new \in [Pointers -> {NULL} \cup Gens]
  BY <1>1, <1>2, <1>3, ParsedTyped
<1>6. \A p \in Pointers : /\ new[p] # NULL <=> p \in Allocated(NoSec, c)
                          /\ new[p] # NULL => new[p] = g
  BY <1>1, <1>3, <1>4 DEF Parsed
<1> HIDE DEF new
<1>7. ReadAsSwept(new, c) <=> "sweeps" \in Begun(c)
  BY <1>2, <1>5, <1>6, SameAllocated
<1> QED BY <1>1, <1>2, <1>5, <1>6, <1>7 DEF new

LEMMA StableParseFile ==
  ASSUME StepInv, StableInv, ParseFile
  PROVE  StableInv'
<1> DEFINE g == Len(maps)
           c == maps[g].content
           new == Parsed(m_sec[cur], c, g)
<1>1. /\ cur \in Handles /\ ~m_is_open[cur] /\ g \in 1 .. Len(maps) /\ g # NULL
      /\ c \in Contents /\ c = Content(cur) /\ Current(cur) = g
      /\ new \in [Pointers -> {NULL} \cup Gens]
      /\ \A p \in Pointers : /\ new[p] # NULL <=> p \in Allocated(NoSec, c)
                             /\ new[p] # NULL => new[p] = g
      /\ ReadAsSwept(new, c) <=> "sweeps" \in Begun(c)
  BY ParseFacts
<1>2. CASE /\ ~ReadsNull(new, c) /\ c.bad = "none"
           /\ Deserialize(cur, g)
           /\ objects' = objects \cup {cur}
           /\ m_is_open' = [m_is_open EXCEPT ![cur] = TRUE]
           /\ pc' = "idle"
           /\ UNCHANGED <<disk, m_filename>>
  <2>1. PICK k \in Handles : k = cur
    BY <1>1
  <2>2. /\ m_sec' = [m_sec EXCEPT ![k] = new] /\ UNCHANGED <<maps, fdtab, m_fd, m_buffer>>
    BY <1>2, <2>1 DEF Deserialize
  <2> HIDE DEF new
  <2>3. m_sec'[k] = new /\ \A d \in Handles \ {k} : m_sec'[d] = m_sec[d]
    BY <2>2 DEF StepInv, TypeInv, TypeOK, FileTypeOK
  <2>4. ASSUME NEW d \in Handles, NEW p \in Pointers, m_sec'[d][p] # NULL
        PROVE  d \in objects' /\ p \in Allocated(NoSec, Content(d))
    <3>1. CASE d = k
      BY <1>1, <1>2, <2>1, <2>3, <2>4, <3>1
    <3>2. CASE d # k
      BY <1>2, <2>3, <2>4, <3>2 DEF StableInv, Sec
    <3> QED BY <3>1, <3>2
  <2>5. OpenStable(k)'
    <3>1. Current(k)' = g /\ Content(k)' = c /\ maps'[g].content = c
      BY <1>1, <1>2, <2>1, <2>2 DEF Current, Content
    <3>2. new["sweepvalues"] # NULL => new["traces"] # NULL
      <4>1. "sweepvalues" \in Allocated(NoSec, c) => "values" \in Begun(c) /\ "sweeps" \in Begun(c)
        <5>1. "sweepvalues" \notin Begun(c)
          BY <1>1, ContentsAssumed DEF Begun, ContentsAssumption, Sections
        <5>2. NoSec.sweeps = NULL
          BY DEF NoSec, Pointers
        <5> QED BY <5>1, <5>2 DEF Allocated, ReadAsSwept
      <4> QED BY <1>1, <1>2, <4>1 DEF ReadsNull, Pointers
    <3> QED BY <1>1, <2>3, <3>1, <3>2 DEF OpenStable, Sec
  <2>6. ASSUME NEW d \in Handles, m_is_open'[d] PROVE OpenStable(d)'
    <3>1. CASE d = k
      BY <2>5, <3>1
    <3>2. CASE d # k
      <4>1. m_is_open[d] /\ Untouched(d) /\ MapsKept
        BY <1>2, <2>1, <2>2, <2>3, <2>6, <3>2 DEF Untouched, Current, MapsKept, StepInv, TypeInv, TypeOK, FileTypeOK
      <4> QED BY <1>2, <4>1, StableFrame DEF StableInv
    <3> QED BY <3>1, <3>2
  <2> QED BY <1>2, <2>4, <2>6 DEF StableInv, Mapping, Sec, Content
<1>3. CASE Throw("ParseError", m_fd[cur], new)
  <2> HIDE DEF new
  <2>1. pc # "idle"
    BY DEF ParseFile
  <2> QED BY <1>1, <1>3, <2>1, StableThrow
<1>4. CASE pc' = "idle" /\ UNCHANGED <<disk, fileVars, dsVars>>
  BY <1>4 DEF StableInv, OpenStable, Mapping, Sec, Content, Current, fileVars, dsVars
<1> QED BY <1>2, <1>3, <1>4 DEF ParseFile

LEMMA StableClosed ==
  ASSUME StepInv, StableInv, NEW d \in Handles, CloseSet(d) \/ Delete(d)
  PROVE  StableInv'
<1>1. ~CloseFails(d) /\ pc' = "idle" /\ UNCHANGED <<disk, maps>>
  BY DEF CloseFails, StepInv, FdOwnership, Current, CloseSet, Close, CloseTo, Delete, Destroy, Idle, fileVars
<1>2. CASE CloseSet(d) /\ ~m_is_open[d]
  BY <1>1, <1>2 DEF CloseSet, StableInv, OpenStable, Mapping, Sec, Content, Current, fileVars
<1>3. CASE Delete(d) \/ m_is_open[d]
  <2>1. /\ fdtab' = FdClosed(d)
        /\ m_is_open' = [m_is_open EXCEPT ![d] = FALSE]
        /\ m_sec'[d] = NoSec \/ (m_sec'[d] = m_sec[d] /\ objects' = objects /\ m_filename' = m_filename)
        /\ objects \ {d} \subseteq objects'
        /\ \A e \in Handles \ {d} : m_fd'[e] = m_fd[e] /\ m_buffer'[e] = m_buffer[e]
                                    /\ m_sec'[e] = m_sec[e] /\ m_filename'[e] = m_filename[e]
    BY <1>1, <1>3 DEF CloseSet, Close, CloseTo, Delete, Destroy, Forget, NoSec, StepInv, TypeInv, TypeOK, FileTypeOK
  <2>2. ASSUME NEW e \in Handles, m_is_open'[e] PROVE OpenStable(e)'
    <3>1. e # d /\ m_is_open[e]
      BY <2>1, <2>2 DEF StepInv, TypeInv, TypeOK
    <3>2. Untouched(e) /\ MapsKept
      BY <1>1, <2>1, <3>1, CurrentReleased DEF Untouched, MapsKept, StepInv, TypeInv, TypeOK, FileTypeOK
    <3> QED BY <1>1, <2>1, <3>1, <3>2, StableFrame DEF StableInv
  <2>3. ASSUME NEW e \in Handles, NEW p \in Pointers, m_sec'[e][p] # NULL
        PROVE  e \in objects' /\ p \in Allocated(NoSec, Content(e)')
    <3>1. CASE e = d
      BY <1>1, <2>1, <2>3, <3>1 DEF StableInv, Sec, Content, NoSec
    <3>2. CASE e # d
      BY <1>1, <2>1, <2>3, <3>2 DEF StableInv, Sec, Content
    <3> QED BY <3>1, <3>2
  <2> QED BY <1>1, <2>2, <2>3 DEF StableInv, Mapping, Sec, Content
<1> QED BY <1>2, <1>3

LEMMA StableStep == StepInv /\ StableInv /\ [Next]_vars => StableInv'
<1> SUFFICES ASSUME StepInv, StableInv, [Next]_vars PROVE StableInv'
  OBVIOUS
<1>1. CASE ValidateFile
  <2>1. CASE UNCHANGED <<disk, fileVars, dsVars, cur, last>>
    BY <1>1, <2>1 DEF ValidateFile, StableInv, OpenStable, Mapping, Sec, Content, Current, fileVars, dsVars
  <2>2. CASE Throw("InvalidFileError", m_fd[cur], m_sec[cur])
    <3>1. cur \in Handles /\ pc # "idle"
      BY <1>1 DEF ValidateFile, StepInv, TypeInv, CallOK
    <3>2. m_sec[cur] \in [Pointers -> {NULL} \cup Gens]
          /\ \A p \in Pointers : m_sec[cur][p] # NULL => p \in Allocated(NoSec, Content(cur))
      BY <3>1 DEF StableInv, Sec, StepInv, TypeInv, TypeOK, FileTypeOK
    <3> QED BY <2>2, <3>1, <3>2, StableThrow
  <2> QED BY <1>1, <2>1, <2>2 DEF ValidateFile
<1>2. CASE \E d \in Handles, p \in Paths : New(d, p)
  <2>1. PICK d \in Handles, p \in Paths : New(d, p)
    BY <1>2
  <2>2. /\ d \notin objects /\ ~m_is_open[d] /\ m_filename' = [m_filename EXCEPT ![d] = p]
        /\ pc' = "open" /\ last'.res = "pending"
        /\ UNCHANGED <<disk, fileVars, objects, m_is_open>>
    BY <2>1 DEF New, StepInv, OpenInv, Return, Result
  <2>3. \A e \in Handles : e # d => Content(e)' = Content(e)
    BY <2>2 DEF Content, StepInv, TypeInv, TypeOK
  <2> QED BY <2>2, <2>3 DEF StableInv, OpenStable, Mapping, Sec, Content, Current, fileVars
<1>3. CASE \E d \in Handles : Open(d)
  BY <1>3 DEF Open, Idle, Return, Result, StableInv, OpenStable, Mapping, Sec, Content, Current, fileVars, dsVars
<1>4. CASE \/ Rewrite \/ UNCHANGED vars \/ \E d \in Handles : QueryStep(d)
  BY <1>4 DEF Rewrite, vars, QueryStep, Idle, StableInv, OpenStable, Mapping, Sec, Content, Current, fileVars, dsVars
<1> QED BY <1>1, <1>2, <1>3, <1>4, StableOpenFile, StableParseFile, StableClosed, NextCases DEF StepInv, TypeInv

LEMMA StableInit == ~Rewrites /\ Init => StableInv
  BY DEF Init, FileInit, StableInv, Mapping, Sec

-----------------------------------------------------------------------------
(* Answers.                                                                *)

LEMMA NextActions ==
  ASSUME Next
  PROVE  \/ Rewrite \/ OpenFile \/ ValidateFile \/ ParseFile
         \/ \E d \in Handles, p \in Paths : New(d, p)
         \/ \E d \in Handles : Open(d) \/ CloseSet(d) \/ Delete(d) \/ IsQuery(d)
  BY DEF Next, Client, IsQuery

(* A value comes from a section that is there.                             *)
FromSection(d) ==
  last'.d = d /\ (last'.res = "value" => \E p \in Pointers : Sec(d, p) # NULL /\ last'.from = Sec(d, p))

LEMMA AnswerFrom ==
  ASSUME NEW d, NEW op, NEW p \in Pointers, Sec(d, p) # NULL, NEW handsOut, Answer(d, op, p, handsOut)
  PROVE  FromSection(d)
  BY DEF Answer, Return, Result, FromSection

LEMMA FailsFrom ==
  ASSUME NEW d, NEW op, NEW ex, ex # "value", Fails(d, op, ex)
  PROVE  FromSection(d)
  BY DEF Fails, Return, Result, FromSection

LEMMA VectorFrom ==
  ASSUME NEW d, NEW op, NEW readable, SweepVector(d, op, readable)
  PROVE  FromSection(d)
<1> DEFINE values == Mapped(d) /\ Answer(d, op, "sweepvalues", FALSE)
           undefined == ~readable /\ Fails(d, op, "undefined")
           throws == /\ ~CountsFit(d)
                     /\ \E ex \in {"IncorrectChunk", "out_of_range", "length_error"} : Fails(d, op, ex)
<1>1. CASE NoAnswer(d, op)
  BY <1>1, FailsFrom DEF NoAnswer
<1>2. CASE Sec(d, "sweepvalues") # NULL /\ WithHeader(d, op, VectorProps(d), values \/ undefined \/ throws)
  <2>1. values => FromSection(d)
    BY <1>2, AnswerFrom DEF Pointers
  <2>2. undefined \/ throws => FromSection(d)
    BY FailsFrom
  <2> HIDE DEF values, undefined, throws
  <2>3. FromSection(d) \/ values \/ undefined \/ throws
    BY <1>2, FailsFrom DEF WithHeader
  <2> QED BY <2>1, <2>2, <2>3
<1> QED BY <1>1, <1>2 DEF SweepVector

LEMMA SignalFrom ==
  ASSUME NEW d, NEW op, SignalVector(d, op)
  PROVE  FromSection(d)
<1>1. CASE \E ex \in {"NotFound", "bad_cast"} : Fails(d, op, ex)
  BY <1>1, FailsFrom
<1> QED BY <1>1, VectorFrom DEF SignalVector

LEMMA ScalarFrom ==
  ASSUME NEW d, NEW op, NEW handsOut, SignalScalar(d, op, handsOut)
  PROVE  FromSection(d)
<1>1. "nonsweepvalues" \in Pointers
  BY DEF Pointers
<1> QED BY <1>1, AnswerFrom, FailsFrom DEF SignalScalar

QueryFromSection(d) ==
  /\ UNCHANGED <<disk, fileVars, dsVars, pc, cur>>
  /\ ~m_is_open[d] => last'.res = "DataSetNotOpen"
  /\ FromSection(d)

LEMMA NotOpenFrom ==
  ASSUME NEW d, NEW op, Fails(d, op, "DataSetNotOpen")
  PROVE  FromSection(d) /\ last'.res = "DataSetNotOpen"
  BY DEF Fails, Return, Result, FromSection

LEMMA QueryFrom ==
  ASSUME NEW d, IsQuery(d)
  PROVE  QueryFromSection(d)
<1>0. "header" \in Pointers
  BY DEF Pointers
<1>1. CASE GetHeaderProperties(d)
  <2> DEFINE op == "get_header_properties"
             body == WithHeader(d, op, {}, Answer(d, op, "header", TRUE))
  <2>1. body => FromSection(d)
    BY <1>0, FailsFrom, AnswerFrom DEF WithHeader
  <2>2. Query(d, op, body)
    BY <1>1 DEF GetHeaderProperties
  <2> HIDE DEF body
  <2> QED BY <2>1, <2>2, NotOpenFrom DEF Query, QueryFromSection
<1>2. CASE GetHeaderNumber(d)
  <2>1. PICK prop \in {"PSF sweeps", "PSF sweep points"} :
          Query(d, prop, WithHeader(d, prop, {prop}, Answer(d, prop, "header", FALSE)))
    BY <1>2 DEF GetHeaderNumber
  <2> DEFINE body == WithHeader(d, prop, {prop}, Answer(d, prop, "header", FALSE))
  <2>2. body => FromSection(d)
    BY <1>0, FailsFrom, AnswerFrom DEF WithHeader
  <2> HIDE DEF body
  <2> QED BY <2>1, <2>2, NotOpenFrom DEF Query, QueryFromSection, body
<1>3. CASE GetSignalNames(d)
  <2> DEFINE op == "get_signal_names"
             p  == IF Sec(d, "traces") # NULL THEN "traces" ELSE "nonsweepvalues"
             body == IF Sec(d, p) # NULL THEN Answer(d, op, p, FALSE) ELSE Fails(d, op, "undefined")
  <2>1. p \in Pointers
    BY DEF Pointers
  <2>2. Query(d, op, body)
    BY <1>3 DEF GetSignalNames
  <2> HIDE DEF p
  <2>3. body => FromSection(d)
    BY <2>1, AnswerFrom, FailsFrom
  <2> HIDE DEF body
  <2> QED BY <2>2, <2>3, NotOpenFrom DEF Query, QueryFromSection
<1>4. CASE GetSweepParamNames(d)
  <2> DEFINE op == "get_sweep_param_names"
             body == IF Sec(d, "sweeps") # NULL THEN Answer(d, op, "sweeps", FALSE) ELSE NoAnswer(d, op)
  <2>1. body => FromSection(d)
    BY AnswerFrom, FailsFrom DEF NoAnswer, Pointers
  <2>2. Query(d, op, body)
    BY <1>4 DEF GetSweepParamNames
  <2> HIDE DEF body
  <2> QED BY <2>1, <2>2, NotOpenFrom DEF Query, QueryFromSection
<1>5. CASE GetSweepValues(d)
  BY <1>5, VectorFrom, NotOpenFrom DEF Query, QueryFromSection, GetSweepValues
<1>6. CASE GetSignalVector(d)
  BY <1>6, SignalFrom, NotOpenFrom DEF Query, QueryFromSection, GetSignalVector
<1>7. CASE GetSignalScalar(d) \/ GetSignalProperties(d)
  BY <1>7, ScalarFrom, NotOpenFrom DEF Query, QueryFromSection, GetSignalScalar, GetSignalProperties
<1>8. CASE GetSignal(d)
  <2> DEFINE op == "get_signal"
             signal == IF ReadFrom(d, "header").nsweeps > 0 THEN SignalVector(d, op)
                       ELSE SignalScalar(d, op, FALSE)
             body == WithHeader(d, op, {"PSF sweeps"}, signal)
  <2>1. signal => FromSection(d)
    BY SignalFrom, ScalarFrom
  <2>2. Query(d, op, body)
    BY <1>8 DEF GetSignal
  <2> HIDE DEF signal
  <2>3. body => FromSection(d)
    BY <2>1, FailsFrom DEF WithHeader
  <2> HIDE DEF body
  <2> QED BY <2>2, <2>3, NotOpenFrom DEF Query, QueryFromSection
<1> QED BY <1>1, <1>2, <1>3, <1>4, <1>5, <1>6, <1>7, <1>8 DEF IsQuery

LEMMA AnswersStep == StepInv /\ StableInv /\ AnswersAreCurrent /\ [Next]_vars => AnswersAreCurrent'
<1> SUFFICES ASSUME StepInv, StableInv, AnswersAreCurrent, [Next]_vars PROVE AnswersAreCurrent'
  OBVIOUS
<1>1. CASE UNCHANGED vars
  BY <1>1 DEF vars, fileVars, AnswersAreCurrent, Current
<1>2. CASE Rewrite
  BY <1>2 DEF Rewrite, StableInv
<1>3. CASE OpenFile \/ ValidateFile \/ ParseFile
  <2>1. last.res = "pending"
    BY <1>3 DEF OpenFile, ValidateFile, ParseFile, StableInv
  <2>2. last'.res # "value"
    BY <1>3, <2>1 DEF OpenFile, ValidateFile, ParseFile, Throw, Return, Result
  <2> QED BY <2>2 DEF AnswersAreCurrent
<1>4. CASE \/ \E d \in Handles, p \in Paths : New(d, p)
           \/ \E d \in Handles : Open(d) \/ CloseSet(d) \/ Delete(d)
  <2>1. last'.res # "value"
    BY <1>4 DEF New, Open, CloseSet, Delete, Return, Result
  <2> QED BY <2>1 DEF AnswersAreCurrent
<1>5. CASE \E d \in Handles : IsQuery(d)
  <2>1. PICK d \in Handles : IsQuery(d)
    BY <1>5
  <2>2. /\ Current(d)' = Current(d) /\ last'.d = d
        /\ ~m_is_open[d] => last'.res = "DataSetNotOpen"
        /\ last'.res = "value" => \E p \in Pointers : Sec(d, p) # NULL /\ last'.from = Sec(d, p)
    BY <2>1, QueryFrom DEF QueryFromSection, FromSection, Current, fileVars
  <2>3. last'.res = "value" => last'.from = Current(d)
    BY <2>2 DEF StableInv, OpenStable
  <2> QED BY <2>2, <2>3 DEF AnswersAreCurrent, Current
<1> QED BY <1>1, <1>2, <1>3, <1>4, <1>5, NextActions

(* If files stay as they are, what a query returns is read from the file   *)
(* that the data set has open, although nothing resets section pointers    *)
(* between two opens (psffile.cc:73-98).                                   *)
THEOREM AnswersStayCurrent == ~Rewrites /\ Spec => []AnswersAreCurrent
<1>1. Init => AnswersAreCurrent
  BY DEF Init, AnswersAreCurrent, Result
<1> QED BY <1>1, StableInit, StepInvariant, StableStep, AnswersStep, PTL DEF Spec

-----------------------------------------------------------------------------
(* Undefined behaviour.                                                    *)

(* What an open data set holds, in terms of the content of its file.       *)
LEMMA OpenFacts ==
  ASSUME StepInv, StableInv, NEW d \in Handles, m_is_open[d], NEW g, g = Current(d),
         NEW c, c = maps[g].content
  PROVE  /\ g \in 1 .. Len(maps) /\ g # NULL /\ c \in Contents /\ c = Content(d)
         /\ c.bad = "none" /\ c.toc \subseteq Sections /\ c.nsweeps \in Nat
         /\ Sec(d, "header") = g
         /\ \A s \in c.toc \ {"values"} : Sec(d, s) = g
         /\ \A p \in Pointers : Sec(d, p) # NULL => Sec(d, p) = g
<1>1. g \in 1 .. Len(maps) /\ c.bad = "none" /\ \A s \in c.toc \ {"values"} : Sec(d, s) = g
  BY DEF StepInv, OpenInv, OpenIsParsed
<1>2. c \in Contents
  BY <1>1, MapsTyped DEF StepInv, TypeInv
<1>3. "header" \in c.toc /\ c.toc \subseteq Sections /\ c.nsweeps \in Nat
  BY <1>1, <1>2, ContentsAssumed DEF ContentsAssumption
<1>4. c = Content(d) /\ \A p \in Pointers : Sec(d, p) # NULL => Sec(d, p) = g
  BY DEF StableInv, OpenStable
<1> QED BY <1>1, <1>2, <1>3, <1>4 DEF NULL

(* Which value section it has follows from the table of contents.          *)
LEMMA OpenValues ==
  ASSUME StepInv, StableInv, NEW d \in Handles, m_is_open[d], NEW c, c = maps[Current(d)].content
  PROVE  /\ Sec(d, "sweepvalues") # NULL => {"values", "sweeps"} \subseteq c.toc
         /\ Sec(d, "nonsweepvalues") = NULL => ~("values" \in c.toc /\ "sweeps" \notin c.toc)
<1> DEFINE g == Current(d)
<1>1. /\ g # NULL /\ c \in Contents /\ c = Content(d) /\ c.bad = "none" /\ c.toc \subseteq Sections
  BY OpenFacts
<1>2. "sweepvalues" \notin Sections /\ "sweeps" \in Pointers /\ "sweepvalues" \in Pointers
      /\ NoSec.sweeps = NULL
  BY DEF Sections, Pointers, NoSec
<1>3. Begun(c) = c.toc \cup {"header"}
  BY <1>1 DEF Begun, Rank, Sections
<1>4. \A p \in Pointers : Sec(d, p) # NULL => p \in Allocated(NoSec, c)
  BY <1>1 DEF StableInv
<1>5. "sweepvalues" \in Allocated(NoSec, c) => {"values", "sweeps"} \subseteq c.toc
  BY <1>1, <1>2, <1>3 DEF Allocated, ReadAsSwept
<1>6. "values" \in c.toc => g \in {Sec(d, "sweepvalues"), Sec(d, "nonsweepvalues")}
  BY DEF StepInv, OpenInv, OpenIsParsed
<1> QED BY <1>1, <1>2, <1>4, <1>5, <1>6

(* What reading sweep values relies on fails only by flaws of the file.    *)
LEMMA SweptReadable ==
  ASSUME StepInv, StableInv, MappedInv, NEW d \in Handles, m_is_open[d], Sec(d, "sweepvalues") # NULL,
         NEW c, c = maps[Current(d)].content
  PROVE  /\ ~ParamReadable(d) => {"untyped sweep", "counts"} \cap c.flaws # {}
         /\ ~SignalReadable(d) => {"untyped sweep", "counts", "untyped trace", "family trace"} \cap c.flaws # {}
<1> DEFINE g == Current(d)
<1>1. /\ g # NULL /\ Sec(d, "header") = g /\ \A s \in c.toc \ {"values"} : Sec(d, s) = g
      /\ \A p \in Pointers : Sec(d, p) # NULL => Sec(d, p) = g
  BY OpenFacts
<1>2. Sec(d, "sweeps") = g
  BY <1>1, OpenValues
<1>3. Sec(d, "traces") = g /\ Sec(d, "sweepvalues") = g /\ Sec(d, "types") \in {NULL, g}
  BY <1>1 DEF StableInv, OpenStable, Pointers
<1>4. mmaps[maps[g].addr] = g
  BY DEF StepInv, OpenInv, OpenIsParsed, MappedInv, OpenIsMapped
<1>5. Mapped(d)
  BY <1>3, <1>4 DEF Mapped
<1>6. CountsFit(d) \/ "counts" \in c.flaws
  BY <1>1, <1>3 DEF CountsFit, ReadFrom
<1>7. TypeKnown(d, "sweeps", "untyped sweep") \/ "untyped sweep" \in c.flaws
  BY <1>2, <1>3 DEF TypeKnown, ReadFrom
<1>8. TypeKnown(d, "traces", "untyped trace") \/ "untyped trace" \in c.flaws
  BY <1>3 DEF TypeKnown, ReadFrom
<1>9. OffsetKnown(d) \/ "family trace" \in c.flaws
  BY <1>3 DEF OffsetKnown, ReadFrom
<1> QED BY <1>5, <1>6, <1>7, <1>8, <1>9 DEF ParamReadable, SignalReadable

(* The ways in which a query ends undefined.                               *)
LEMMA VectorUndefined ==
  ASSUME NEW d, NEW op, NEW readable, Sec(d, "header") # NULL, SweepVector(d, op, readable),
         last'.res = "undefined"
  PROVE  last'.op = op /\ Sec(d, "sweepvalues") # NULL /\ ~readable
<1>1. Sec(d, "sweepvalues") # NULL
  <2>1. ~NoAnswer(d, op)
    BY DEF NoAnswer, Fails, Return, Result
  <2> QED BY <2>1 DEF SweepVector
<1>2. CASE Fails(d, op, "PropertyNotFound")
  BY <1>2 DEF Fails, Return, Result
<1>3. CASE Mapped(d) /\ Answer(d, op, "sweepvalues", FALSE)
  BY <1>3 DEF Answer, Return, Result
<1>4. CASE ~readable /\ Fails(d, op, "undefined")
  BY <1>1, <1>4 DEF Fails, Return, Result
<1>5. CASE \E ex \in {"IncorrectChunk", "out_of_range", "length_error"} : Fails(d, op, ex)
  BY <1>5 DEF Fails, Return, Result
<1> QED BY <1>1, <1>2, <1>3, <1>4, <1>5 DEF SweepVector, WithHeader

LEMMA SignalUndefined ==
  ASSUME NEW d, NEW op, Sec(d, "header") # NULL, SignalVector(d, op), last'.res = "undefined"
  PROVE  last'.op = op /\ Sec(d, "sweepvalues") # NULL /\ ~SignalReadable(d)
<1>1. ~\E ex \in {"NotFound", "bad_cast"} : Fails(d, op, ex)
  BY DEF Fails, Return, Result
<1> QED BY <1>1, VectorUndefined DEF SignalVector

LEMMA ScalarUndefined ==
  ASSUME NEW d, NEW op, NEW handsOut, SignalScalar(d, op, handsOut), last'.res = "undefined"
  PROVE  last'.op = op /\ Sec(d, "nonsweepvalues") = NULL
  BY DEF SignalScalar, Answer, Fails, Return, Result

LEMMA QueryUndefined ==
  ASSUME StepInv, StableInv, MappedInv, NEW d \in Handles, IsQuery(d), last'.res = "undefined"
  PROVE  Current(d) # 0 /\ UndefinedToAsk(maps[Current(d)].content, last'.op)
<1>0. PICK c : c = maps[Current(d)].content
  OBVIOUS
<1>1. m_is_open[d]
  BY QueryFrom DEF QueryFromSection
<1>2. /\ Current(d) # 0 /\ Sec(d, "header") # NULL /\ c.toc \subseteq Sections
      /\ ReadFrom(d, "header") = c /\ \A s \in c.toc \ {"values"} : Sec(d, s) # NULL
  BY <1>0, <1>1, OpenFacts DEF NULL, ReadFrom
<1>3. CASE GetHeaderProperties(d) \/ GetHeaderNumber(d)
  <2>1. PICK op, props, handsOut :
          Query(d, op, WithHeader(d, op, props, Answer(d, op, "header", handsOut)))
    BY <1>3 DEF GetHeaderProperties, GetHeaderNumber
  <2>2. Fails(d, op, "PropertyNotFound") \/ Answer(d, op, "header", handsOut)
    BY <1>1, <1>2, <2>1 DEF Query, WithHeader
  <2> QED BY <2>2 DEF Answer, Fails, Return, Result
<1>4. CASE GetSignalNames(d)
  <2> DEFINE p == IF Sec(d, "traces") # NULL THEN "traces" ELSE "nonsweepvalues"
  <2>1. last'.op = "get_signal_names" /\ Sec(d, p) = NULL
    BY <1>1, <1>4 DEF GetSignalNames, Query, Answer, Fails, Return, Result
  <2>2. Sec(d, "traces") = NULL /\ Sec(d, "nonsweepvalues") = NULL
    BY <2>1
  <2>3. "traces" \notin c.toc /\ ~("values" \in c.toc /\ "sweeps" \notin c.toc)
    BY <1>0, <1>1, <1>2, <2>2, OpenValues
  <2> QED BY <1>0, <1>2, <2>1, <2>3 DEF UndefinedToAsk
<1>5. CASE GetSweepParamNames(d)
  BY <1>1, <1>5 DEF GetSweepParamNames, Query, Answer, NoAnswer, Fails, Return, Result
<1>6. CASE GetSweepValues(d)
  <2>1. last'.op = "get_sweep_values" /\ Sec(d, "sweepvalues") # NULL /\ ~ParamReadable(d)
    BY <1>1, <1>2, <1>6, VectorUndefined DEF GetSweepValues, Query
  <2>2. {"values", "sweeps"} \subseteq c.toc /\ {"untyped sweep", "counts"} \cap c.flaws # {}
    BY <1>0, <1>1, <2>1, OpenValues, SweptReadable
  <2> QED BY <1>0, <1>2, <2>1, <2>2 DEF UndefinedToAsk
<1>7. ASSUME Sec(d, "sweepvalues") # NULL, ~SignalReadable(d)
      PROVE  {"values", "sweeps"} \subseteq c.toc /\ c.flaws \ {"untyped value"} # {}
  BY <1>0, <1>1, <1>7, OpenValues, SweptReadable
<1>8. CASE GetSignalVector(d)
  <2>1. last'.op = "get_signal_vector" /\ Sec(d, "sweepvalues") # NULL /\ ~SignalReadable(d)
    BY <1>1, <1>2, <1>8, SignalUndefined DEF GetSignalVector, Query
  <2> QED BY <1>0, <1>2, <1>7, <2>1 DEF UndefinedToAsk
<1>9. CASE GetSignalScalar(d) \/ GetSignalProperties(d)
  <2>1. last'.op \in {"get_signal_scalar", "get_signal_properties"} /\ Sec(d, "nonsweepvalues") = NULL
    BY <1>1, <1>9, ScalarUndefined DEF GetSignalScalar, GetSignalProperties, Query
  <2>2. ~("values" \in c.toc /\ "sweeps" \notin c.toc)
    BY <1>0, <1>1, <2>1, OpenValues
  <2> QED BY <1>0, <1>2, <2>1, <2>2 DEF UndefinedToAsk
<1>10. CASE GetSignal(d)
  <2>1. ~Fails(d, "get_signal", "PropertyNotFound") /\ ~Fails(d, "get_signal", "DataSetNotOpen")
    BY DEF Fails, Return, Result
  <2>2. CASE c.nsweeps > 0
    <3>1. SignalVector(d, "get_signal")
      BY <1>1, <1>2, <1>10, <2>1, <2>2 DEF GetSignal, Query, WithHeader
    <3>2. last'.op = "get_signal" /\ Sec(d, "sweepvalues") # NULL /\ ~SignalReadable(d)
      BY <1>2, <3>1, SignalUndefined
    <3> QED BY <1>0, <1>2, <1>7, <2>2, <3>2 DEF UndefinedToAsk
  <2>3. CASE ~(c.nsweeps > 0)
    <3>1. SignalScalar(d, "get_signal", FALSE)
      BY <1>1, <1>2, <1>10, <2>1, <2>3 DEF GetSignal, Query, WithHeader
    <3>2. last'.op = "get_signal" /\ Sec(d, "nonsweepvalues") = NULL
      BY <3>1, ScalarUndefined
    <3>3. ~("values" \in c.toc /\ "sweeps" \notin c.toc)
      BY <1>0, <1>1, <3>2, OpenValues
    <3> QED BY <1>0, <1>2, <2>3, <3>2, <3>3 DEF UndefinedToAsk
  <2> QED BY <2>2, <2>3
<1> QED BY <1>3, <1>4, <1>5, <1>6, <1>8, <1>9, <1>10 DEF IsQuery

(* Opening runs into undefined behaviour only by the content of the file,  *)
(* whatever the data set had open before.                                  *)
LEMMA ParseUndefined ==
  ASSUME StepInv, StableInv, ParseFile, last'.res = "undefined"
  PROVE  UndefinedToOpen(maps[Len(maps)].content)
<1>0. PICK g, c : g = Len(maps) /\ c = maps[g].content
  OBVIOUS
<1> DEFINE new == Parsed(m_sec[cur], c, g)
<1>1. \/ c.bad # "none"
      \/ ReadsNull(new, c) \/ ReadsUntyped(new, c, g) \/ ReadsForeign(new, c, g)
  BY <1>0 DEF ParseFile, Throw, Return, Result
<1>2. CASE c.bad # "none"
  BY <1>0, <1>2 DEF UndefinedToOpen
<1>3. CASE c.bad = "none"
  <2>1. /\ g # NULL /\ c \in Contents /\ (ReadAsSwept(new, c) <=> "sweeps" \in Begun(c))
        /\ \A p \in Pointers : /\ new[p] # NULL <=> p \in Allocated(NoSec, c)
                               /\ new[p] # NULL => new[p] = g
    BY <1>0, ParseFacts
  <2> HIDE DEF new
  <2>2. c.toc \subseteq Sections
    BY <2>1, ContentsAssumed DEF ContentsAssumption
  <2>3. Begun(c) = c.toc \cup {"header"}
    BY <1>3, <2>2 DEF Begun, Rank, Sections
  <2>4. new["types"] \in {NULL, g} /\ new["traces"] \in {NULL, g}
        /\ (new["traces"] = NULL => "traces" \notin c.toc)
    BY <2>1, <2>3 DEF Pointers, Allocated
  <2>5. CASE ReadsNull(new, c)
    BY <1>0, <2>1, <2>3, <2>4, <2>5 DEF ReadsNull, UndefinedToOpen
  <2>6. CASE ~ReadsNull(new, c)
    <3>1. ReadsTypes(new, c) => TypeUser(new, c, g) = g
      BY <2>4, <2>6 DEF ReadsTypes, TypeUser, ReadsNull
    <3>2. ReadsUntyped(new, c, g)
      BY <1>1, <1>3, <2>4, <2>6, <3>1 DEF ReadsForeign
    <3>3. ReadsTypes(new, c) /\ (IF ReadAsSwept(new, c) THEN "untyped trace" ELSE "untyped value") \in c.flaws
      BY <1>0, <3>1, <3>2 DEF ReadsUntyped
    <3> QED BY <1>0, <2>1, <2>3, <3>3 DEF ReadsTypes, UndefinedToOpen
  <2> QED BY <2>5, <2>6
<1> QED BY <1>2, <1>3

LEMMA UndefinedStep ==
  StepInv /\ StableInv /\ MappedInv /\ UndefinedHasCause /\ [Next]_vars => UndefinedHasCause'
<1> SUFFICES ASSUME StepInv, StableInv, MappedInv, UndefinedHasCause, [Next]_vars, last'.res = "undefined"
             PROVE  UndefinedHasCause'
  BY DEF UndefinedHasCause
<1>1. CASE UNCHANGED vars
  BY <1>1 DEF vars, fileVars, UndefinedHasCause, Current
<1>2. CASE Rewrite
  BY <1>2 DEF Rewrite, StableInv
<1>3. CASE OpenFile \/ ValidateFile
  BY <1>3 DEF OpenFile, ValidateFile, StableInv, Throw, Return, Result
<1>4. CASE ParseFile
  <2>1. /\ last'.op = "open" /\ last'.d = cur /\ UNCHANGED <<maps, fdtab, m_fd>>
    BY <1>4 DEF ParseFile, Throw, Return, Result, Deserialize, fileVars
  <2>2. Current(cur) = Len(maps) /\ Len(maps) # 0
    <3>1. PICK g, c : g = Len(maps) /\ c = maps[g].content
      OBVIOUS
    <3>2. Current(cur) = g /\ g # NULL
      BY <1>4, <3>1, ParseFacts
    <3> QED BY <3>1, <3>2 DEF NULL
  <2>3. UndefinedToOpen(maps[Len(maps)].content)
    BY <1>4, ParseUndefined
  <2> QED BY <2>1, <2>2, <2>3 DEF UndefinedHasCause, Current
<1>5. CASE \/ \E d \in Handles, p \in Paths : New(d, p)
           \/ \E d \in Handles : Open(d) \/ CloseSet(d) \/ Delete(d)
  BY <1>5 DEF New, Open, CloseSet, Delete, Return, Result
<1>6. CASE \E d \in Handles : IsQuery(d)
  <2>1. PICK d \in Handles : IsQuery(d)
    BY <1>6
  <2>2. last'.d = d /\ UNCHANGED <<maps, fdtab, m_fd>>
    BY <2>1, QueryFrom DEF QueryFromSection, FromSection, fileVars
  <2>3. Current(d) # 0 /\ UndefinedToAsk(maps[Current(d)].content, last'.op)
    BY <2>1, QueryUndefined
  <2>4. last'.op # "open"
    BY <2>3 DEF UndefinedToAsk
  <2> QED BY <2>2, <2>3, <2>4 DEF UndefinedHasCause, Current
<1> QED BY <1>1, <1>2, <1>3, <1>4, <1>5, <1>6, NextActions

(* If files stay as they are and addresses are not reused, what runs into  *)
(* undefined behaviour does so for the content of the file that is open    *)
(* and for the query, as on a first open: no order of calls adds to it     *)
(* (psffile.cc:73-115).                                                    *)
THEOREM UndefinedByCause == FreshAddrs /\ ~Rewrites /\ Spec => []UndefinedHasCause
<1>1. FreshAddrs /\ Init => MappedInv
  BY DEF Init, FileInit, MappedInv, OpenIsMapped, Mapping
<1>2. Init => UndefinedHasCause
  BY DEF Init, UndefinedHasCause, Result
<1> QED BY <1>1, <1>2, StableInit, StepInvariant, MappedStep, StableStep, UndefinedStep, PTL DEF Spec
=============================================================================
