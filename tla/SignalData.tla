----------------------------- MODULE SignalData -----------------------------
(***************************************************************************)
(* The objects behind signals: the scalars of a value section that is not  *)
(* swept (NonSweepValue), the vectors that get_signal and get_sweep_values *)
(* make and hand to the client (SweepValue, PSFVectorT, Struct), their     *)
(* inversion into a structure of vectors (VectorStruct), and what the      *)
(* Python binding does with each (psfpython.cc).                           *)
(*                                                                         *)
(* An object is named by the path that led to its birth: <<0, v>> is the   *)
(* value v of the section, <<q>> the SweepValue of call q, and the others  *)
(* of that call begin with q.  Elements of a vector count as objects.      *)
(***************************************************************************)
EXTENDS DataTypes

CONSTANTS
  Files,      \* the files that may be open
  Clients,    \* of "cpp" and "python"
  MaxCalls    \* calls of a behaviour

(* A file has signals of some types; a swept one its points, in windows    *)
(* (one point each, if it has no windows), another one values, followed by *)
(* property blocks of some length.                                         *)
ASSUME FilesAssumed ==
  \A f \in Files :
    /\ f.swept \in BOOLEAN /\ f.windowed \in BOOLEAN
    /\ f.signals \in Seq(TypeIds) /\ f.signals # << >>
    /\ f.windows \in Seq(Nat)
    /\ ~f.windowed => \A w \in DOMAIN f.windows : f.windows[w] = 1
    /\ f.props \in [DOMAIN f.signals -> Nat]

ASSUME CallsAssumed == Clients \subseteq {"cpp", "python"} /\ MaxCalls \in Nat

VARIABLES
  file, client,
  pc,              \* "parse", "idle", "read", "convert", "failed", "deleted"
  buf,             \* of ValueSectionNonSweep::deserialize
  heap,            \* the objects that are allocated
  m_invertstruct,
  calls,           \* begun so far
  query,           \* of the running call: signal (0: the sweep), invert
  w,               \* windows read
  held,            \* the objects the client has to delete
  views,           \* the vectors whose memory a numpy array shows
  last             \* what the last call returned or threw

vars == <<file, client, pc, buf, heap, m_invertstruct, calls, query, w, held, views, last>>

Param == 0
TypeOf(s) == file.signals[s]

Init ==
  /\ file \in Files /\ client \in Clients
  /\ pc = IF file.swept THEN "idle" ELSE "parse"
  /\ buf = 0 /\ heap = << >> /\ m_invertstruct = FALSE
  /\ calls = 0 /\ query = [signal |-> Param, invert |-> FALSE] /\ w = 0
  /\ held = {} /\ views = {}
  /\ last = "none"

-----------------------------------------------------------------------------
(* Objects.                                                                *)

Allocated == DOMAIN heap

KidsOf(h, o) == IF o \in DOMAIN h THEN ToSet(h[o].kids) ELSE {}

(* The objects that o leads to: at most an element, a scalar, its members  *)
(* and theirs below a vector of a VectorStruct.                            *)
Depth == Len(Types) + 2
Reach(h, objects) ==
  LET reach[d \in 0 .. Depth] ==
        IF d = 0 THEN objects ELSE UNION {{o} \cup KidsOf(h, o) : o \in reach[d - 1]}
  IN reach[Depth]

Without(h, objects) == [o \in DOMAIN h \ objects |-> h[o]]

(* delete: a destructor runs into what was deleted before.                 *)
Dangles(h, o) == ~(Reach(h, {o}) \subseteq DOMAIN h)

Put(new, h) == [o \in DOMAIN new \cup DOMAIN h |-> IF o \in DOMAIN new THEN new[o] ELSE h[o]]

(* new_vector and resize: n elements nothing was read into.                *)
Vector(v, n) ==
  [o \in {v} \cup {Append(v, k) : k \in 1 .. n} |->
     Cell(IF o = v THEN [k \in 1 .. n |-> Append(v, k)] ELSE << >>, Nowhere)]

-----------------------------------------------------------------------------
(* Opening a file that is not swept.                                       *)

HEADER == 16    \* chunk type, id, name and type id

ValueBytes(v) == HEADER + DataSize[TypeOf(v)] + file.props[v]
ChunkAt(v) == Sums([u \in DOMAIN file.signals |-> ValueBytes(u)])[v - 1]
PropsAt(v) == ChunkAt(v) + HEADER + DataSize[TypeOf(v)]
SubEnd     == ChunkAt(Len(file.signals) + 1)

(* Mutant: the property block is not read.                                 *)
NoBlockBytes(v, at) == 0

(* PropertyBlock::deserialize at a place that is, or is not, the block's.  *)
BlockBytes(v, at) == IF at = PropsAt(v) THEN file.props[v] ELSE 0

(* NonSweepValue::deserialize.                                             *)
ParseValue ==
  /\ pc = "parse" /\ buf < SubEnd
  /\ \E v \in DOMAIN file.signals :
       LET t == TypeOf(v)
           data == buf + HEADER
       IN /\ buf = ChunkAt(v)
          /\ heap' = Put(Placed(ReadTree[t], <<0, v>>, data), heap)
          /\ buf' = data + Taken[t] + BlockBytes(v, data + Taken[t])
  /\ UNCHANGED <<file, client, pc, m_invertstruct, calls, query, w, held, views, last>>

(* The bytes inside a value are no chunk type.                             *)
ParseThrows ==
  /\ pc = "parse" /\ buf < SubEnd /\ \A v \in DOMAIN file.signals : buf # ChunkAt(v)
  /\ pc' = "failed" /\ last' = "IncorrectChunk"
  /\ UNCHANGED <<file, client, buf, heap, m_invertstruct, calls, query, w, held, views>>

Parsed ==
  /\ pc = "parse" /\ buf >= SubEnd
  /\ pc' = "idle"
  /\ UNCHANGED <<file, client, buf, heap, m_invertstruct, calls, query, w, held, views, last>>

SectionValues ==
  IF file.swept \/ pc = "deleted" THEN {} ELSE {<<0, v>> : v \in DOMAIN file.signals} \cap Allocated

-----------------------------------------------------------------------------
(* Calls.                                                                  *)

Begin(s, invert) ==
  /\ pc = "idle" /\ calls < MaxCalls
  /\ calls' = calls + 1
  /\ query' = [signal |-> s, invert |-> invert]

SetInvertStruct ==
  /\ pc = "idle"
  /\ m_invertstruct' = ~m_invertstruct
  /\ UNCHANGED <<file, client, pc, buf, heap, calls, query, w, held, views, last>>

NPoints == Sums(file.windows)[Len(file.windows)]

(* The objects of the running call.                                        *)
Sv     == <<calls>>
Vec    == <<calls, 1>>
ParVec == <<calls, 2>>
Vs     == <<calls, 3>>
Scalar == <<calls, 4>>

(* ValueSectionSweep::get_values, until the loop over points begins.       *)
NewSweepValue(s, invert) ==
  /\ file.swept
  /\ Begin(s, invert)
  /\ pc' = "read" /\ w' = 0
  /\ LET vec  == Vec'
         pars == Vector(ParVec', IF file.windowed THEN 0 ELSE NPoints)
     IN heap' = Put(IF s = Param THEN pars ELSE Put(Vector(vec, NPoints), pars),
                    Put([o \in {Sv'} |-> Cell(IF s = Param THEN <<ParVec'>> ELSE <<ParVec', vec>>, Nowhere)],
                        heap))
  /\ UNCHANGED <<file, client, buf, m_invertstruct, held, views, last>>

(* Without a section of swept values there is no vector to return.         *)
NoValues(s) ==
  /\ ~file.swept
  /\ Begin(s, FALSE)
  /\ last' = "NULL"
  /\ UNCHANGED <<file, client, pc, buf, heap, m_invertstruct, w, held, views>>

GetSignalSwept(s)  == NewSweepValue(s, m_invertstruct)
GetSignalVector(s) == client = "cpp" /\ (NewSweepValue(s, FALSE) \/ NoValues(s))
GetSweepValues     == NewSweepValue(Param, FALSE) \/ NoValues(Param)

(* Mutant: the members of the copy are those of the value.                 *)
GetSignalShallow(s) ==
  /\ ~file.swept
  /\ Begin(s, FALSE)
  /\ heap' = Put([o \in {Scalar'} |-> heap[<<0, s>>]], heap)
  /\ IF client = "cpp" THEN pc' = "idle" /\ held' = held \cup {Scalar'} /\ last' = "scalar"
     ELSE pc' = "convert" /\ UNCHANGED <<held, last>>
  /\ UNCHANGED <<file, client, buf, m_invertstruct, w, views>>

(* The value of a file that is not swept is cloned, structures deep.       *)
GetSignalScalar(s) ==
  /\ ~file.swept
  /\ Begin(s, FALSE)
  /\ heap' = Put(Placed([q \in DOMAIN ReadTree[TypeOf(s)] |->
                           [ReadTree[TypeOf(s)][q] EXCEPT !.from = heap[<<0, s>> \o q].from]],
                        Scalar', 0), heap)
  /\ IF client = "cpp" THEN pc' = "idle" /\ held' = held \cup {Scalar'} /\ last' = "scalar"
     ELSE pc' = "convert" /\ UNCHANGED <<held, last>>
  /\ UNCHANGED <<file, client, buf, m_invertstruct, w, views>>

GetSignal(s) == GetSignalSwept(s) \/ GetSignalScalar(s)

-----------------------------------------------------------------------------
(* Reading the points of a swept signal.                                   *)

First == Sums(file.windows)[w]

(* The sweep parameter is a double; what is read of it is its first n values. *)
Params(size, n) ==
  LET v == Vector(ParVec, size)
  IN [o \in DOMAIN v |->
        IF Len(o) = 3 /\ o[3] <= n THEN Cell(<< >>, [at |-> 8 * (o[3] - 1), bytes |-> 8]) ELSE v[o]]

(* deserialize_data, n times in a row from where the window begins.        *)
Elements(t, n) ==
  Joined({Placed(ReadTree[t], Append(Vec, First + k), First * DataSize[t] + (k - 1) * Taken[t]) :
            k \in 1 .. n})

ReadWindow ==
  /\ pc = "read" /\ w < Len(file.windows)
  /\ LET n    == file.windows[w + 1]
         pars == Params(IF file.windowed THEN First + n ELSE NPoints, First + n)
     IN heap' = Put(IF query.signal = Param THEN pars ELSE Put(Elements(TypeOf(query.signal), n), pars), heap)
  /\ w' = w + 1
  /\ UNCHANGED <<file, client, pc, buf, m_invertstruct, calls, query, held, views, last>>

(* A chunk that is no value, or more values than the header says: nothing  *)
(* deletes the SweepValue.                                                 *)
ReadThrows ==
  /\ pc = "read" /\ w < Len(file.windows)
  /\ pc' = "idle" /\ last' \in {"IncorrectChunk", "out_of_range"}
  /\ UNCHANGED <<file, client, buf, heap, m_invertstruct, calls, query, w, held, views>>

Inverts == query.invert /\ IsStruct(TypeOf(query.signal))

(* What a call returns.                                                    *)
Result ==
  CASE ~file.swept                                         -> Scalar
    [] file.swept /\ query.signal = Param                  -> ParVec
    [] file.swept /\ query.signal # Param /\ Inverts       -> Vs
    [] file.swept /\ query.signal # Param /\ ~Inverts      -> Vec

(* Mutant: v->clear() is forgotten.                                        *)
ReleasedNot(v) == heap

(* v->clear() or get_param_values(true): the SweepValue forgets v.          *)
Released(v) == [heap EXCEPT ![Sv].kids = IF v = ParVec THEN << >> ELSE <<ParVec>>]

(* Copies of the elements by PSFVectorT::assign_scalar: a member that is a *)
(* structure is assigned, that is, shares its members with the original.   *)
MemberVectors(h) ==
  [o \in {Vs} \cup {Append(Vs, m) : m \in Members(TypeOf(query.signal))}
             \cup {Vs \o <<m, k>> : m \in Members(TypeOf(query.signal)), k \in 1 .. NPoints} |->
     CASE Len(o) = 2 -> Cell([m \in Members(TypeOf(query.signal)) |-> Append(Vs, m)], Nowhere)
       [] Len(o) = 3 -> Cell([k \in 1 .. NPoints |-> Append(o, k)], Nowhere)
       [] Len(o) = 4 -> h[Vec \o <<o[4], o[3]>>]]

(* Mutant: the vector is not deleted.                                      *)
InvertedKept(h) == Put(MemberVectors(h), h)

(* PSFDataSet::get_signal: new VectorStruct(vec), delete vec.              *)
Inverted(h) == Without(Put(MemberVectors(h), h), Reach(h, {Vec}))

Return ==
  /\ pc = "read" /\ w = Len(file.windows)
  /\ LET vec == IF query.signal = Param THEN ParVec ELSE Vec
         h   == Without(heap, Reach(Released(vec), {Sv}))
     IN heap' = IF Inverts THEN Inverted(h) ELSE h
  /\ IF client = "cpp" THEN pc' = "idle" /\ held' = held \cup {Result} /\ last' = "values"
     ELSE pc' = "convert" /\ UNCHANGED <<held, last>>
  /\ UNCHANGED <<file, client, buf, m_invertstruct, calls, query, w, views>>

-----------------------------------------------------------------------------
(* The Python binding converts what a call returned.                       *)

Unconvertible(t) == Leaves[t] \cap {"int8", "complex"} # {}

(* The call ends; what is freed of its result was copied.                  *)
Converted(outcome, freed) ==
  /\ pc' = IF outcome = "undefined" THEN "failed" ELSE "idle"
  /\ last' = outcome
  /\ heap' = Without(heap, Reach(heap, freed))
  /\ UNCHANGED <<file, client, buf, m_invertstruct, calls, query, w, held>>

(* PSFBase_to_numpyarray of a scalar, which is not deleted.                *)
ConvertScalar ==
  /\ pc = "convert" /\ Result = Scalar
  /\ Converted(IF Unconvertible(TypeOf(query.signal)) THEN "NotImplemented" ELSE "scalar", {})
  /\ UNCHANGED views

(* Mutant: the vector is deleted after its memory was given to an array.   *)
ConvertSweepFreed ==
  /\ pc = "convert" /\ Result = ParVec
  /\ IF NPoints = 0 THEN Converted("out_of_range", {}) /\ UNCHANGED views
     ELSE Converted("array", {ParVec}) /\ views' = views \cup {ParVec}

(* PSFVector_to_numpyarray: an array over the vector's own memory.         *)
ConvertSweep ==
  /\ pc = "convert" /\ Result = ParVec
  /\ IF NPoints = 0 THEN Converted("out_of_range", {}) /\ UNCHANGED views
     ELSE Converted("array", {}) /\ views' = views \cup {ParVec}

(* psfvector_to_numpyarray(vec, true): what it returns or throws.          *)
Outcome(vec, t) ==
  CASE Dangles(heap, vec) -> "undefined"
    [] ~Dangles(heap, vec) /\ Types[t].kind \in {"int8", "int32"} -> "no result"
    [] ~Dangles(heap, vec) /\ Types[t].kind \in {"double", "complex"} ->
         IF NPoints = 0 THEN "out_of_range" ELSE "array"
    [] ~Dangles(heap, vec) /\ IsStruct(t) ->
         IF NPoints > 0 /\ Unconvertible(t) THEN "NotImplemented" ELSE "array"

Deletes(outcome) == outcome \in {"array", "no result"}

ConvertVector ==
  /\ pc = "convert" /\ Result = Vec
  /\ LET outcome == Outcome(Vec, TypeOf(query.signal))
     IN Converted(outcome, IF Deletes(outcome) THEN {Vec} ELSE {})
  /\ UNCHANGED views

(* vectorstruct_to_python: member by member, until one fails; a vector for *)
(* which there is no array puts a NULL into the dictionary.                *)
ConvertVectorStruct ==
  /\ pc = "convert" /\ Result = Vs
  /\ LET types == Types[TypeOf(query.signal)].members
         outcome == [m \in DOMAIN types |-> Outcome(Append(Vs, m), types[m])]
         bad == {m \in DOMAIN types : outcome[m] # "array"}
         done == {m \in DOMAIN types : \A b \in bad : m < b}
         end == IF bad = {} THEN "array" ELSE outcome[Min(bad)]
     IN Converted(IF end = "no result" THEN "undefined" ELSE end, {Append(Vs, m) : m \in done})
  /\ UNCHANGED views

-----------------------------------------------------------------------------
(* The end of objects.                                                     *)

IsVectorStruct(o) == Len(o) = 2 /\ o[2] = 3

(* A VectorStruct has no destructor that deletes its vectors.              *)
Delete(o) ==
  /\ pc \in {"idle", "deleted"}
  /\ LET freed == IF IsVectorStruct(o) THEN {o} ELSE Reach(heap, {o})
     IN IF freed \subseteq Allocated
        THEN heap' = Without(heap, freed) /\ held' = held \ {o} /\ last' = "deleted" /\ UNCHANGED pc
        ELSE pc' = "failed" /\ last' = "undefined" /\ UNCHANGED <<heap, held>>
  /\ UNCHANGED <<file, client, buf, m_invertstruct, calls, query, w, views>>

(* ~NonSweepValue of every value; what was handed out stays.               *)
DeleteSet ==
  /\ pc = "idle"
  /\ pc' = "deleted" /\ last' = "deleted"
  /\ heap' = Without(heap, Reach(heap, SectionValues))
  /\ UNCHANGED <<file, client, buf, m_invertstruct, calls, query, w, held, views>>

(* The last reference to an array goes; the array does not own its memory. *)
DropArray(v) ==
  /\ pc \in {"idle", "deleted"}
  /\ views' = views \ {v}
  /\ UNCHANGED <<file, client, pc, buf, heap, m_invertstruct, calls, query, w, held, last>>

Parse   == ParseValue \/ ParseThrows \/ Parsed
Call    == GetSweepValues \/ \E s \in DOMAIN file.signals : GetSignal(s) \/ GetSignalVector(s)
Read    == ReadWindow \/ ReadThrows \/ Return
Convert == ConvertScalar \/ ConvertSweep \/ ConvertVector \/ ConvertVectorStruct

Next ==
  \/ Parse \/ Call \/ Read \/ Convert
  \/ SetInvertStruct \/ DeleteSet
  \/ \E o \in held : Delete(o)
  \/ \E v \in views : DropArray(v)

Spec == Init /\ [][Next]_vars

-----------------------------------------------------------------------------
(* Properties.                                                             *)

TypeOK ==
  /\ file \in Files /\ client \in Clients
  /\ pc \in {"parse", "idle", "read", "convert", "failed", "deleted"}
  /\ buf \in Nat /\ m_invertstruct \in BOOLEAN
  /\ calls \in 0 .. MaxCalls /\ query.signal \in {Param} \cup DOMAIN file.signals
  /\ w \in 0 .. Len(file.windows)
  /\ heap \in [Allocated -> [kids : Seq(Seq(Nat)), from : [at : Nat, bytes : Nat]]]
  /\ held \subseteq Allocated /\ (client = "python" => held = {})

(* A value is read from the bytes it was stored in, member by member, and  *)
(* is still that value after a clone and an inversion; not so a structure  *)
(* with a complex member, of which PSFComplexDoubleScalar takes half.      *)
Stored(t, q, k) == [StoredTree[t][q].from EXCEPT !.at = @ + (k - 1) * DataSize[t]]

ReadAsStored ==
  query.signal # Param /\ ~ComplexMember(TypeOf(query.signal)) =>
    LET t      == TypeOf(query.signal)
        leaves == {q \in DOMAIN StoredTree[t] : StoredTree[t][q].from # Nowhere}
        place(s) == ChunkAt(s) + HEADER
    IN /\ \A q \in leaves, k \in 1 .. NPoints :
            LET o == Vec \o <<k>> \o q
            IN o \in Allocated /\ heap[o].from # Nowhere => heap[o].from = Stored(t, q, k)
       /\ \A m \in Members(t), k \in 1 .. NPoints :
            LET o == Vs \o <<m, k>>
            IN o \in Allocated /\ <<m>> \in leaves => heap[o].from = Stored(t, <<m>>, k)
       /\ \A q \in leaves :
            LET o == Scalar \o q
            IN o \in Allocated =>
                 heap[o].from = [Stored(t, q, 1) EXCEPT !.at = @ + place(query.signal)]

(* A file that is not swept opens, unless a structure has a complex member: *)
(* what is read of every other value ends where its properties begin.      *)
OpensUnlessComplex ==
  pc = "failed" /\ last = "IncorrectChunk" => \E s \in DOMAIN file.signals : ComplexMember(TypeOf(s))

(* What the client holds lives, down to the last member, also after other  *)
(* results and the data set were deleted; but for a VectorStruct.          *)
HeldIsLive == \A o \in held : o \in Allocated /\ (Dangles(heap, o) => IsVectorStruct(o))

(* No object is deleted by two others.                                     *)
OwnedOnce ==
  \A a, b \in Allocated : a # b => ToSet(heap[a].kids) \cap ToSet(heap[b].kids) = {}

(* An array that shows the memory of a vector shows a vector that lives.   *)
ViewsLive == \A v \in views : v \in Allocated /\ ~Dangles(heap, v)

(* Python runs into undefined behaviour only by inverting a structure with *)
(* a member that is an integer (a NULL for the dictionary) or a structure  *)
(* (whose members were deleted with the vector).                           *)
UndefinedOnlyInverted ==
  last = "undefined" =>
    /\ client = "python" /\ Inverts
    /\ \E m \in Members(TypeOf(query.signal)) :
         Types[Types[TypeOf(query.signal)].members[m]].kind \in {"int8", "int32", "struct"}

(* Memory is lost, so that nothing can delete it any more, by an exception *)
(* of the running call, by a VectorStruct (its vectors), and in Python     *)
(* with the scalars and with the arrays over vectors; by nothing else.     *)
Roots ==
  SectionValues \cup held \cup views
    \cup (IF pc = "read" THEN {Sv} ELSE {}) \cup (IF pc = "convert" THEN {Result} ELSE {})
Garbage == Allocated \ Reach(heap, Roots)

Threw == {"IncorrectChunk", "out_of_range", "NotImplemented", "undefined"}

LeaksNamed ==
  [][\A o \in Garbage' \ Garbage :
       \/ last' \in Threw /\ o[1] = calls
       \/ o[1] > 0 /\ Len(o) > 1 /\ o[2] = 3
       \/ client = "python" /\ o[1] > 0 /\ Len(o) > 1 /\ o[2] = 4
       \/ o \in Reach(heap, views \ views')]_vars
=============================================================================
