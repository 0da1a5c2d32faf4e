------------------------------ MODULE PSFDataSet ------------------------------
(***************************************************************************)
(* The public class PSFDataSet of src/src/psf.cc over its PSFFile: a       *)
(* client that constructs, closes, reopens, queries and deletes data sets  *)
(* on one thread, while simulators replace the result files.               *)
(*                                                                         *)
(* A query that returns data sets last.from to the generation the data     *)
(* comes from.  "undefined" is C++ undefined behaviour (a null or dangling *)
(* dereference, a function that ends without return): nothing is claimed   *)
(* of what follows, so the process takes no further step.                  *)
(***************************************************************************)
EXTENDS PSFFile

CONSTANTS
  None,       \* no handle, no path
  Rewrites    \* TRUE: files are replaced while the process runs

ASSUME ClientAssumed == None \notin Handles /\ Rewrites \in BOOLEAN

VARIABLES
  objects,     \* handles whose constructor returned, not yet deleted
  m_filename, m_is_open,
  pc, cur,     \* the open() in progress: its next step and its handle
  refs,        \* references to section data handed to the client
  last         \* the last call, and what it returned or threw

dsVars == <<objects, m_filename, m_is_open>>
vars == <<disk, fileVars, dsVars, pc, cur, refs, last>>

Results == {"pending", "ok", "value", "null", "undefined", "DataSetNotOpen", "FileOpenError",
            "InvalidFileError", "FileCloseError", "ParseError", "NotFound", "bad_cast",
            "PropertyNotFound", "IncorrectChunk", "out_of_range", "length_error"}
Result(d, op, res, from) == [d |-> d, op |-> op, res |-> res, from |-> from]

TypeOK ==
  /\ FileTypeOK
  /\ objects \subseteq Handles
  /\ m_filename \in [Handles -> Paths \cup {None}]
  /\ m_is_open \in [Handles -> BOOLEAN]
  /\ pc \in {"idle", "open", "validate", "deserialize"}
  /\ cur \in Handles \cup {None}
  /\ refs \subseteq Handles \X Pointers \X Gens
  /\ last.d \in Handles \cup {None} /\ last.res \in Results /\ last.from \in {0} \cup Gens

Init ==
  /\ FileInit
  /\ objects = {}
  /\ m_filename = [d \in Handles |-> None]
  /\ m_is_open = [d \in Handles |-> FALSE]
  /\ pc = "idle" /\ cur = None
  /\ refs = {}
  /\ last = Result(None, "main", "ok", 0)

Idle == pc = "idle" /\ last.res # "undefined"
Return(d, op, res, from) == last' = Result(d, op, res, from)

-----------------------------------------------------------------------------
(* The environment: a simulator replaces a result file (a new inode, so    *)
(* existing mappings keep the old content).                                *)
Rewrite ==
  /\ Rewrites
  /\ \E p \in Paths, c \in Contents \cup {Missing} :
       disk[p] # c /\ disk' = [disk EXCEPT ![p] = c]
  /\ UNCHANGED <<fileVars, dsVars, pc, cur, refs, last>>

-----------------------------------------------------------------------------
(* The constructor and open().                                             *)

(* Mutant: the constructor leaves open() to the client.                    *)
NewUnopened(d, p) ==
  /\ Idle /\ d \notin objects
  /\ m_filename' = [m_filename EXCEPT ![d] = p]
  /\ objects' = objects \cup {d}
  /\ Return(d, "open", "ok", 0)
  /\ UNCHANGED <<disk, fileVars, m_is_open, pc, cur, refs>>

New(d, p) ==
  /\ Idle /\ d \notin objects /\ Len(maps) < MaxMaps
  /\ m_filename' = [m_filename EXCEPT ![d] = p]
  /\ pc' = "open" /\ cur' = d
  /\ Return(d, "open", "pending", 0)
  /\ UNCHANGED <<disk, fileVars, objects, m_is_open, refs>>

(* Mutant: the flag is set before the file is open.                        *)
OpenFlagFirst(d) ==
  /\ Idle /\ d \in objects /\ Len(maps) < MaxMaps
  /\ m_is_open' = [m_is_open EXCEPT ![d] = TRUE]
  /\ IF m_is_open[d]
     THEN Return(d, "open", "ok", 0) /\ UNCHANGED <<pc, cur>>
     ELSE Return(d, "open", "pending", 0) /\ pc' = "open" /\ cur' = d
  /\ UNCHANGED <<disk, fileVars, objects, m_filename, refs>>

Open(d) ==
  /\ Idle /\ d \in objects /\ Len(maps) < MaxMaps
  /\ IF m_is_open[d]
     THEN Return(d, "open", "ok", 0) /\ UNCHANGED <<pc, cur>>
     ELSE Return(d, "open", "pending", 0) /\ pc' = "open" /\ cur' = d
  /\ UNCHANGED <<disk, fileVars, dsVars, refs>>

(* An exception leaves a constructed object closed, with the descriptor    *)
(* and the section pointers open() has set so far.  In the constructor the *)
(* object ceases to exist, and nothing deletes the PSFFile it had made.    *)
Throw(ex, fd, sec) ==
  /\ pc' = "idle" /\ cur' = None
  /\ Return(cur, "open", ex, 0)
  /\ IF cur \in objects
     THEN /\ m_fd' = [m_fd EXCEPT ![cur] = fd]
          /\ m_sec' = [m_sec EXCEPT ![cur] = sec]
          /\ UNCHANGED m_buffer
     ELSE Forget(cur)
  /\ UNCHANGED <<disk, maps, fdtab, mmaps, dsVars, refs>>

OpenFile ==
  /\ pc = "open"
  /\ \/ /\ MapFile(cur, m_filename[cur])
        /\ pc' = "validate"
        /\ UNCHANGED <<disk, dsVars, cur, refs, last>>
     \/ /\ OpenFails(m_filename[cur])
        /\ Throw("FileOpenError", NoFd, m_sec[cur])
        /\ UNCHANGED heap

ValidateFile ==
  /\ pc = "validate"
  /\ \E valid \in Validates(m_filename[cur]) :
       \/ /\ valid
          /\ pc' = "deserialize"
          /\ UNCHANGED <<disk, fileVars, dsVars, cur, refs, last>>
       \/ /\ ~valid
          /\ Throw("InvalidFileError", m_fd[cur], m_sec[cur])
          /\ UNCHANGED heap

(* The file that open() parses is the youngest mapping.                    *)
ParseFile ==
  /\ pc = "deserialize"
  /\ LET g   == Len(maps)
         c   == maps[g].content
         sec == Parsed(m_sec[cur], c, g)
     IN \/ /\ ~ReadsNull(sec, c) /\ ~ReadsUntyped(sec, c, g) /\ c.bad = "none"
           /\ Deserialize(cur, g)
           /\ objects' = objects \cup {cur}
           /\ m_is_open' = [m_is_open EXCEPT ![cur] = TRUE]
           /\ pc' = "idle" /\ cur' = None
           /\ Return(cur, "open", "ok", 0)
           /\ UNCHANGED <<disk, m_filename, refs>>
        \/ /\ ~ReadsNull(sec, c) /\ (c.bad # "none" \/ ReadsForeign(sec, c, g))
           /\ heap' = heap \cup (Allocated(m_sec[cur], c) \X {g})
           /\ Throw("ParseError", m_fd[cur], sec)
        \/ /\ \/ c.bad # "none" \/ ReadsNull(sec, c)
              \/ ReadsUntyped(sec, c, g) \/ ReadsForeign(sec, c, g)
           /\ pc' = "idle" /\ cur' = None
           /\ Return(cur, "open", "undefined", 0)
           /\ UNCHANGED <<disk, fileVars, dsVars, refs>>

-----------------------------------------------------------------------------
(* close() and the destructor.                                             *)

(* Mutant: close() does not reset m_is_open.                               *)
CloseSetStaysOpen(d) ==
  /\ Idle /\ d \in objects
  /\ IF m_is_open[d] THEN Close(d) ELSE UNCHANGED fileVars
  /\ Return(d, "close", "ok", 0)
  /\ UNCHANGED <<disk, dsVars, pc, cur, refs>>

CloseSet(d) ==
  /\ Idle /\ d \in objects
  /\ IF m_is_open[d]
     THEN /\ Close(d)
          /\ IF CloseFails(d)
             THEN Return(d, "close", "FileCloseError", 0) /\ UNCHANGED m_is_open
             ELSE Return(d, "close", "ok", 0) /\ m_is_open' = [m_is_open EXCEPT ![d] = FALSE]
     ELSE Return(d, "close", "ok", 0) /\ UNCHANGED <<fileVars, m_is_open>>
  /\ UNCHANGED <<disk, objects, m_filename, pc, cur, refs>>

Delete(d) ==
  /\ Idle /\ d \in objects
  /\ Destroy(d)
  /\ objects' = objects \ {d}
  /\ m_filename' = [m_filename EXCEPT ![d] = None]
  /\ m_is_open' = [m_is_open EXCEPT ![d] = FALSE]
  /\ refs' = {r \in refs : r[1] # d}
  /\ Return(d, "delete", IF CloseFails(d) THEN "FileCloseError" ELSE "ok", 0)
  /\ UNCHANGED <<disk, pc, cur>>

-----------------------------------------------------------------------------
(* The queries.  verify_open throws first; a null section pointer is       *)
(* tested for by some and dereferenced by others.  An exception leaves the *)
(* data set as it is.                                                      *)

Sec(d, p) == m_sec[d][p]
ReadFrom(d, p) == maps[Sec(d, p)].content

Answer(d, op, p, handsOut) ==
  /\ Return(d, op, "value", Sec(d, p))
  /\ refs' = IF handsOut THEN refs \cup {<<d, p, Sec(d, p)>>} ELSE refs

Fails(d, op, ex) == Return(d, op, ex, 0) /\ UNCHANGED refs
NoAnswer(d, op)  == Fails(d, op, "null")

Query(d, op, body) ==
  /\ Idle /\ d \in objects
  /\ \/ m_is_open[d] /\ body
     \/ ~m_is_open[d] /\ Fails(d, op, "DataSetNotOpen")
  /\ UNCHANGED <<disk, fileVars, dsVars, pc, cur>>

(* The header is dereferenced, and PropertyBlock::find throws.             *)
WithHeader(d, op, props, body) ==
  IF Sec(d, "header") = NULL THEN Fails(d, op, "undefined")
  ELSE IF ~(props \subseteq ReadFrom(d, "header").props) THEN Fails(d, op, "PropertyNotFound")
  ELSE body

(* The properties as a whole are handed out by reference.                  *)
GetHeaderProperties(d) ==
  LET op == "get_header_properties"
  IN Query(d, op, WithHeader(d, op, {}, Answer(d, op, "header", TRUE)))

(* get_nsweeps and is_swept, get_sweep_npoints.                            *)
GetHeaderNumber(d) ==
  \E prop \in {"PSF sweeps", "PSF sweep points"} :
    Query(d, prop, WithHeader(d, prop, {prop}, Answer(d, prop, "header", FALSE)))

GetSignalNames(d) ==
  LET op == "get_signal_names"
      p  == IF Sec(d, "traces") # NULL THEN "traces" ELSE "nonsweepvalues"
  IN Query(d, op, IF Sec(d, p) # NULL THEN Answer(d, op, p, FALSE) ELSE Fails(d, op, "undefined"))

GetSweepParamNames(d) ==
  LET op == "get_sweep_param_names"
  IN Query(d, op, IF Sec(d, "sweeps") # NULL THEN Answer(d, op, "sweeps", FALSE) ELSE NoAnswer(d, op))

(* What reading sweep values relies on.  They are read from the mapping at *)
(* the time of the call, as many as the header at hand says; a type id is  *)
(* looked up in the type section at hand; the trace that a name stands for *)
(* in the offset map.                                                      *)
Mapped(d)    == LET g == Sec(d, "sweepvalues") IN mmaps[maps[g].addr] = g
CountsFit(d) == Sec(d, "header") = Sec(d, "sweepvalues") /\ "counts" \notin ReadFrom(d, "header").flaws

TypeKnown(d, p, flaw) == Sec(d, "types") \in {NULL, Sec(d, p)} /\ flaw \notin ReadFrom(d, p).flaws
OffsetKnown(d) ==
  Sec(d, "traces") = Sec(d, "sweepvalues") /\ "family trace" \notin ReadFrom(d, "traces").flaws

ParamReadable(d)  == Mapped(d) /\ CountsFit(d) /\ TypeKnown(d, "sweeps", "untyped sweep")
SignalReadable(d) == ParamReadable(d) /\ TypeKnown(d, "traces", "untyped trace") /\ OffsetKnown(d)

VectorProps(d) ==
  {"PSF sweep points"} \cup
  (IF Windowed(ReadFrom(d, "sweepvalues")) THEN {"PSF window size", "PSF traces"} ELSE {})

(* A vector read with readable FALSE may still come out well: a name may   *)
(* stand for another trace, an id of another file may be found.            *)
SweepVector(d, op, readable) ==
  IF Sec(d, "sweepvalues") = NULL THEN NoAnswer(d, op)
  ELSE WithHeader(d, op, VectorProps(d),
         \/ Mapped(d) /\ Answer(d, op, "sweepvalues", FALSE)
         \/ ~readable /\ Fails(d, op, "undefined")
         \/ /\ ~CountsFit(d)
            /\ \E ex \in {"IncorrectChunk", "out_of_range", "length_error"} : Fails(d, op, ex))

GetSweepValues(d) ==
  LET op == "get_sweep_values" IN Query(d, op, SweepVector(d, op, ParamReadable(d)))

(* A name is found, is in no group searched or not there at all, or is the *)
(* name of a group.                                                        *)
SignalVector(d, op) ==
  \/ SweepVector(d, op, SignalReadable(d))
  \/ Sec(d, "sweepvalues") # NULL /\ \E ex \in {"NotFound", "bad_cast"} : Fails(d, op, ex)

GetSignalVector(d) ==
  LET op == "get_signal_vector" IN Query(d, op, SignalVector(d, op))

SignalScalar(d, op, handsOut) ==
  IF Sec(d, "nonsweepvalues") = NULL THEN Fails(d, op, "undefined")
  ELSE Answer(d, op, "nonsweepvalues", handsOut) \/ Fails(d, op, "NotFound")

GetSignalScalar(d) ==
  LET op == "get_signal_scalar" IN Query(d, op, SignalScalar(d, op, TRUE))

(* is_swept goes by the header; the scalar is cloned, not handed out.      *)
GetSignal(d) ==
  LET op == "get_signal"
  IN Query(d, op, WithHeader(d, op, {"PSF sweeps"},
                     IF ReadFrom(d, "header").nsweeps > 0 THEN SignalVector(d, op)
                     ELSE SignalScalar(d, op, FALSE)))

GetSignalProperties(d) ==
  LET op == "get_signal_properties" IN Query(d, op, SignalScalar(d, op, TRUE))

-----------------------------------------------------------------------------
Client(d) ==
  \/ \E p \in Paths : New(d, p)
  \/ Open(d)
  \/ CloseSet(d)
  \/ Delete(d)
  \/ GetHeaderProperties(d)
  \/ GetHeaderNumber(d)
  \/ GetSignalNames(d)
  \/ GetSweepParamNames(d)
  \/ GetSweepValues(d)
  \/ GetSignalVector(d)
  \/ GetSignalScalar(d)
  \/ GetSignal(d)
  \/ GetSignalProperties(d)

Next ==
  \/ Rewrite
  \/ OpenFile
  \/ ValidateFile
  \/ ParseFile
  \/ \E d \in Handles : Client(d)

Spec == Init /\ [][Next]_vars

-----------------------------------------------------------------------------
(* Properties.                                                             *)

(* The generation of the file whose descriptor data set d holds.           *)
Current(d) == IF m_fd[d] = NoFd THEN 0 ELSE fdtab[m_fd[d]]

(* A descriptor that a data set will close is open, and no other data set  *)
(* will close it: psffile.cc:117-123 resets m_fd, so neither a second      *)
(* close nor a reused descriptor number makes close() throw or close a     *)
(* stranger's file.                                                        *)
FdOwnership ==
  \A d \in Handles : m_fd[d] # NoFd =>
    /\ Current(d) # 0
    /\ \A e \in Handles \ {d} : m_fd[e] # m_fd[d]

(* A data set that says it is open has its file open and has parsed every  *)
(* section of it: an exception on any path through open() leaves m_is_open *)
(* false (psf.cc:24-29), also when an earlier open() had succeeded.        *)
OpenIsParsed ==
  \A d \in Handles : m_is_open[d] =>
    /\ Current(d) \in 1 .. Len(maps)
    /\ LET c == maps[Current(d)].content
       IN /\ c.bad = "none"
          /\ m_buffer[d] = maps[Current(d)].addr
          /\ \A s \in c.toc \ {"values"} : Sec(d, s) = Current(d)
          /\ "values" \in c.toc => Current(d) \in {Sec(d, "sweepvalues"), Sec(d, "nonsweepvalues")}

(* What get_header_properties, get_signal_scalar and get_signal_properties *)
(* handed out by reference stays allocated while the data set lives,       *)
(* whatever is closed and reopened in between.                             *)
RefsValid == \A r \in refs : r[1] \in objects /\ <<r[2], r[3]>> \in heap

(* close() and the destructor never unmap an uninitialised m_buffer        *)
(* (psffile.cc:115 runs unconditionally, the constructor sets neither      *)
(* m_buffer nor m_size).                                                   *)
BufferSet == \A d \in objects : m_buffer[d] # Uninit

(* A descriptor loses its owner only when the constructor throws after     *)
(* ::open, or when a reopened set maps again after an open() that threw.   *)
Orphans == {n \in Fds : fdtab[n] # 0 /\ \A d \in Handles : m_fd[d] # n}

LeaksOnlyAfterThrow ==
  [][Orphans' \subseteq Orphans
     \/ (cur \notin objects /\ last'.res \in {"InvalidFileError", "ParseError"})
     \/ (cur \in objects /\ pc = "open" /\ m_fd[cur] # NoFd)]_vars

(* The buffer of an open data set is mapped: what the client does to other *)
(* data sets does not unmap it.                                            *)
OpenIsMapped ==
  \A d \in Handles : m_is_open[d] => Current(d) # 0 /\ mmaps[m_buffer[d]] = Current(d)

(* Whatever a query returns was read from the file that the data set has   *)
(* open now, not from one it had open before.                              *)
AnswersAreCurrent == last.res = "value" => last.from = Current(last.d)

(* What of a file's own content, or of the kind of query asked of it, runs *)
(* into undefined behaviour.  Opening: a section that leaves the file, a   *)
(* swept file without traces, a missing type id (psfindexedcontainer.cc:99). *)
UndefinedToOpen(c) ==
  \/ c.bad # "none"
  \/ "values" \in c.toc /\ "sweeps" \in c.toc /\ "traces" \notin c.toc
  \/ "values" \in c.toc /\ "sweeps" \in c.toc /\ ~Windowed(c) /\ "untyped trace" \in c.flaws
  \/ "values" \in c.toc /\ "sweeps" \notin c.toc /\ "untyped value" \in c.flaws

(* Reading a swept file: missing type ids, counts that do not fit and, for *)
(* signals, a trace without an offset (psfsweepvalue.cc:132).  Names and   *)
(* scalars: a file without a section that could answer (psffile.cc:162-178). *)
UndefinedToAsk(c, op) ==
  LET swept == {"values", "sweeps"} \subseteq c.toc
      scalar == "values" \in c.toc /\ "sweeps" \notin c.toc
      asked == IF op # "get_signal" THEN op
               ELSE IF c.nsweeps > 0 THEN "get_signal_vector" ELSE "get_signal_scalar"
  IN CASE asked = "get_sweep_values" -> swept /\ {"untyped sweep", "counts"} \cap c.flaws # {}
       [] asked = "get_signal_vector" -> swept /\ c.flaws \ {"untyped value"} # {}
       [] asked \in {"get_signal_scalar", "get_signal_properties"} -> ~scalar
       [] asked = "get_signal_names" -> "traces" \notin c.toc /\ ~scalar
       [] OTHER -> FALSE

(* Undefined behaviour has its cause in the file that is open and in the   *)
(* query, never in the history: no order of closing, reopening, failed     *)
(* opening and deleting of this and of other data sets makes undefined     *)
(* what is defined for a file freshly opened, through a section pointer,   *)
(* a type section or a mapping that is not the file's (psffile.cc:73-115). *)
UndefinedHasCause ==
  last.res = "undefined" =>
    /\ Current(last.d) # 0
    /\ LET c == maps[Current(last.d)].content
       IN IF last.op = "open" THEN UndefinedToOpen(c) ELSE UndefinedToAsk(c, last.op)

(* As test_psfdataset.cc:102 has it: a data set whose file has no sweep    *)
(* section has no sweep values.                                            *)
NoSweepNoValues ==
  last.op = "get_sweep_values" /\ last.res # "DataSetNotOpen" =>
    ("sweeps" \notin maps[Current(last.d)].content.toc => last.res = "null")

(* As bindings/python/tests/test_psfdataset.py:56-58 has it:               *)
(* get_signal_properties may be called on a swept data set.                *)
PropertiesDefined == last.op = "get_signal_properties" => last.res # "undefined"
=============================================================================
