------------------------------- MODULE PSFFile -------------------------------
(***************************************************************************)
(* The PSFFile objects of src/src/psffile.cc and the process resources     *)
(* they hold: the descriptor m_fd, the mapping m_buffer, and the section   *)
(* objects m_header .. m_nonsweepvalues that deserialize allocates.        *)
(*                                                                         *)
(* Every successful ::open + mmap of the process gets the next number g,   *)
(* its generation.  A section pointer is NULL or the generation of the     *)
(* file it was parsed from, so stale data can be told from current data.   *)
(* The module holds the state and the effects; PSFDataSet has the actions. *)
(***************************************************************************)
EXTENDS Integers, FiniteSets, Sequences

CONSTANTS
  Handles,     \* the PSFDataSet objects of the client, one PSFFile each
  Paths,       \* the file names they are constructed with
  Contents,    \* what a file can hold, see ContentsAssumption
  Missing,     \* no file of that name
  Fds,         \* descriptors the process may have open at once
  Addrs,       \* addresses mmap may return
  FreshAddrs,  \* TRUE: the kernel never returns an address twice
  MaxMaps      \* bound: successful mmaps in a behaviour

Sections == {"header", "types", "sweeps", "traces", "values"}
Pointers == {"header", "types", "sweeps", "traces", "sweepvalues", "nonsweepvalues"}

(* The header properties that are looked up, and what can be wrong with a  *)
(* file that parses: a section with an entry whose type id the type        *)
(* section lacks (or a sweep section with no entry), a listed trace        *)
(* without values of its own, as the sweep data of a waveform family has   *)
(* it, and values that are not as many as the header says.                 *)
HeaderProps == {"PSF sweeps", "PSF sweep points", "PSF window size", "PSF traces"}
Flaws == {"untyped sweep", "untyped trace", "untyped value", "family trace", "counts"}

(* A content is what the code can tell of a file: whether the last words   *)
(* hold the Clarissa signature ("short": the file is too short to have     *)
(* one), the sections its table of contents lists, the section at which    *)
(* parsing throws IncorrectChunk, UnknownType or PropertyNotFound or leaves *)
(* the file ("none": it parses), the properties its header has, the value  *)
(* of "PSF sweeps" and the flaws.                                          *)
ContentsAssumption ==
  /\ Contents \subseteq [clarissa : {"yes", "no", "short"}, toc : SUBSET Sections,
                         bad : Sections \cup {"none"}, props : SUBSET HeaderProps,
                         nsweeps : Nat, flaws : SUBSET Flaws]
  /\ Missing \notin Contents
  /\ \A c \in Contents :
       c.clarissa # "yes" \/ "header" \notin c.toc => c.bad = "header"

ASSUME ContentsAssumed == ContentsAssumption

ASSUME ResourcesAssumed ==
  /\ Fds \subseteq Nat
  /\ Addrs \subseteq Nat \ {0}
  /\ FreshAddrs \in BOOLEAN
  /\ MaxMaps \in Nat

NULL   == 0
NoFd   == -1
Uninit == 0    \* m_buffer is not set by the constructor

VARIABLES
  disk,      \* the file system: content of each path
  maps,      \* maps[g]: content and address of the g-th successful mmap
  fdtab,     \* descriptor table: generation of the open file, or 0
  mmaps,     \* address space: generation mapped at an address, or 0
  heap,      \* section objects allocated and not deleted
  m_fd, m_buffer, m_sec

fileVars == <<maps, fdtab, mmaps, heap, m_fd, m_buffer, m_sec>>

Gens   == 1 .. MaxMaps
FreeFd == {n \in Fds : fdtab[n] = 0}

FileTypeOK ==
  /\ disk \in [Paths -> Contents \cup {Missing}]
  /\ maps \in Seq([content : Contents, addr : Addrs]) /\ Len(maps) <= MaxMaps
  /\ fdtab \in [Fds -> {0} \cup Gens]
  /\ mmaps \in [Addrs -> {0} \cup Gens]
  /\ heap \subseteq Pointers \X Gens
  /\ m_fd \in [Handles -> Fds \cup {NoFd}]
  /\ m_buffer \in [Handles -> Addrs \cup {Uninit}]
  /\ m_sec \in [Handles -> [Pointers -> {NULL} \cup Gens]]

FileInit ==
  /\ disk \in [Paths -> Contents \cup {Missing}]
  /\ maps = << >>
  /\ fdtab = [n \in Fds |-> 0]
  /\ mmaps = [a \in Addrs |-> 0]
  /\ heap = {}
  /\ m_fd = [d \in Handles |-> NoFd]
  /\ m_buffer = [d \in Handles |-> Uninit]
  /\ m_sec = [d \in Handles |-> [p \in Pointers |-> NULL]]

-----------------------------------------------------------------------------
(* PSFFile::open, first half: ::open, lseek and mmap.                      *)

OpenFails(path) == disk[path] = Missing \/ FreeFd = {}

(* ::open returns the lowest free descriptor, mmap any free address.       *)
MapFile(d, path) ==
  \E n \in FreeFd, a \in Addrs :
    /\ disk[path] # Missing
    /\ \A k \in FreeFd : n <= k
    /\ mmaps[a] = 0
    /\ FreshAddrs => \A g \in 1 .. Len(maps) : maps[g].addr # a
    /\ maps' = Append(maps, [content |-> disk[path], addr |-> a])
    /\ fdtab' = [fdtab EXCEPT ![n] = Len(maps) + 1]
    /\ mmaps' = [mmaps EXCEPT ![a] = Len(maps) + 1]
    /\ m_fd' = [m_fd EXCEPT ![d] = n]
    /\ m_buffer' = [m_buffer EXCEPT ![d] = a]
    /\ UNCHANGED <<heap, m_sec>>

(* PSFFile::validate opens the file a second time, by name.  When that     *)
(* fails, or fewer than 12 bytes can be read, it compares an uninitialised *)
(* buffer.                                                                 *)
Validates(path) ==
  IF OpenFails(path) \/ disk[path].clarissa = "short" THEN BOOLEAN
  ELSE {disk[path].clarissa = "yes"}

-----------------------------------------------------------------------------
(* PSFFile::deserialize of the mapped content c.                           *)

Rank == [header |-> 1, types |-> 2, sweeps |-> 3, traces |-> 4, values |-> 5, none |-> 6]

(* The sections begun, in order, up to the one that throws.  The header is *)
(* looked up without a find: a table without one yields offset 0.          *)
Begun(c) == {s \in c.toc \cup {"header"} : Rank[s] <= Rank[c.bad]}

(* The value section is read as swept iff m_sweeps is set, by this call or *)
(* by an earlier one.                                                      *)
ReadAsSwept(sec, c) == "sweeps" \in Begun(c) \/ sec.sweeps # NULL

Allocated(sec, c) ==
  (Begun(c) \ {"values"}) \cup
  (IF "values" \notin Begun(c) THEN {}
   ELSE IF ReadAsSwept(sec, c) THEN {"sweepvalues"} ELSE {"nonsweepvalues"})

(* Mutant: a section is parsed only when its pointer is null.              *)
ParsedOnce(sec, c, g) ==
  [p \in Pointers |-> IF p \in Allocated(sec, c) /\ sec[p] = NULL THEN g ELSE sec[p]]

(* The pointers after the call: nothing is deleted, what this file lacks   *)
(* keeps its old value.                                                    *)
Parsed(sec, c, g) == [p \in Pointers |-> IF p \in Allocated(sec, c) THEN g ELSE sec[p]]

(* Windowed values need no sizes: fill_offsetmap goes by the window size.  *)
Windowed(c) == "PSF window size" \in c.props

(* What reading the value section looks up, given the new pointers: the    *)
(* traces, if swept, and the types of the traces or of the values, by id.  *)
(* A null traces pointer, and a type id that is not in the type section    *)
(* (idmap.end()), are undefined; an id of another file may be found or not.*)
ReadsNull(sec, c) == "values" \in Begun(c) /\ ReadAsSwept(sec, c) /\ sec.traces = NULL

ReadsTypes(sec, c) == "values" \in Begun(c) /\ ~(ReadAsSwept(sec, c) /\ Windowed(c))

TypeUser(sec, c, g) == IF ReadAsSwept(sec, c) THEN sec.traces ELSE g

ReadsForeign(sec, c, g) == ReadsTypes(sec, c) /\ sec.types \notin {NULL, TypeUser(sec, c, g)}

ReadsUntyped(sec, c, g) ==
  /\ ReadsTypes(sec, c) /\ ~ReadsNull(sec, c) /\ ~ReadsForeign(sec, c, g)
  /\ (IF ReadAsSwept(sec, c) THEN "untyped trace" ELSE "untyped value")
       \in maps[TypeUser(sec, c, g)].content.flaws

(* Mutant: the new sections replace the old ones, as if reset in open.     *)
DeserializeDeletes(d, g) ==
  /\ m_sec' = [m_sec EXCEPT ![d] = Parsed(m_sec[d], maps[g].content, g)]
  /\ heap' = (heap \ {<<p, m_sec[d][p]>> : p \in Pointers})
               \cup (Allocated(m_sec[d], maps[g].content) \X {g})
  /\ UNCHANGED <<maps, fdtab, mmaps, m_fd, m_buffer>>

Deserialize(d, g) ==
  /\ m_sec' = [m_sec EXCEPT ![d] = Parsed(m_sec[d], maps[g].content, g)]
  /\ heap' = heap \cup (Allocated(m_sec[d], maps[g].content) \X {g})
  /\ UNCHANGED <<maps, fdtab, mmaps, m_fd, m_buffer>>

-----------------------------------------------------------------------------
(* PSFFile::close and the destructor.                                      *)

(* munmap of m_buffer is unconditional; m_buffer keeps its value.          *)
Unmapped(d) == [a \in Addrs |-> IF a = m_buffer[d] THEN 0 ELSE mmaps[a]]

(* ::close is guarded by m_fd, which is then reset.                        *)
FdClosed(d) == [n \in Fds |-> IF n = m_fd[d] THEN 0 ELSE fdtab[n]]

(* ::close fails, and close throws FileCloseError before it resets m_fd,   *)
(* if m_fd is not open.                                                    *)
CloseFails(d) == m_fd[d] # NoFd /\ fdtab[m_fd[d]] = 0

CloseTo(d, fd) ==
  /\ mmaps' = Unmapped(d)
  /\ fdtab' = FdClosed(d)
  /\ m_fd' = [m_fd EXCEPT ![d] = fd]
  /\ UNCHANGED <<maps, heap, m_buffer, m_sec>>

(* Mutants: m_fd is not reset, or reset to 0.                              *)
CloseKeepsFd(d) == CloseTo(d, m_fd[d])
CloseZeroesFd(d) == CloseTo(d, 0)

Close(d) == CloseTo(d, IF CloseFails(d) THEN m_fd[d] ELSE NoFd)

(* ~PSFFile deletes the sections the pointers hold, then closes again.     *)
Owned(d) == {<<p, m_sec[d][p]>> : p \in Pointers}

Forget(d) ==
  /\ m_fd' = [m_fd EXCEPT ![d] = NoFd]
  /\ m_buffer' = [m_buffer EXCEPT ![d] = Uninit]
  /\ m_sec' = [m_sec EXCEPT ![d] = [p \in Pointers |-> NULL]]

(* Mutant: the destructors rely on the client to have closed the file.     *)
DestroyUnclosed(d) ==
  /\ heap' = heap \ Owned(d)
  /\ Forget(d)
  /\ UNCHANGED <<maps, fdtab, mmaps>>

Destroy(d) ==
  /\ mmaps' = Unmapped(d)
  /\ fdtab' = FdClosed(d)
  /\ heap' = heap \ Owned(d)
  /\ Forget(d)
  /\ UNCHANGED maps
=============================================================================
