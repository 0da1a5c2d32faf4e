# A TLA+ development of libpsf

libpsf reads the PSF result files of circuit simulators: a C++ library
(`src/src`, `src/include`) with Python bindings (`src/bindings/python`). It is
a sequential program. What is hard in it is not concurrency inside the library
but

- a life cycle (construct, open, close, reopen, query, delete) whose calls the
  client makes in any order, over a descriptor, a mapping and heap objects that
  every exception path must leave with an owner;
- a file system and an address space that other programs and other data sets
  change between two calls;
- binary layouts that two loops compute independently (where a trace's values
  are said to be, where they are) and that must agree for every file;
- files that are damaged, unfinished, or simply not what the header says.

## Inventory

| Component | State | Operations | Correct if |
|---|---|---|---|
| `PSFDataSet` (psf.cc) | `m_psf`, `m_filename`, `m_is_open`, `m_invertstruct` | constructor, `open`, `close`, destructor, 11 queries | a set that is open is parsed, completely and from the file it has open; a query of a closed set throws; after any exception the set is closed and usable |
| `PSFFile` (psffile.cc) | `m_fd`, `m_buffer`, `m_size`, six section pointers | `open` (`::open`, `mmap`, `validate`, `deserialize`), `close`, destructor, section access | descriptors, mappings and section objects have one owner; nothing handed out dangles |
| `ValueSectionSweep`, `SweepValueSimple`, `SweepValueWindowed` (psfsweepvalue.cc), `GroupDef::fill_offsetmap` | `m_offsetmap`, `m_valuesize`, `m_valuebuf`; of a query the read position and two vectors | `deserialize`, `get_values`, `get_param_values` | every trace is read from the bytes it was written to; every call returns a whole waveform or throws |
| `TraceSection`, `GroupDef`, `IndexedContainer` (psftrace.cc, psfgroup.cc, psfindexedcontainer.cc) | children, `idmap`, `namemap`, `m_namemap`, `m_indexmap` | `deserialize`, `get_names`, `get_trace_by_name`, `get_traceindex_by_name`, `get_child` | every listed name is found, and stands for the trace listed |
| `Chunk`, `Container`, `SimpleContainer`, sections, properties (psfchunk.cc, psfcontainer.cc, psfsections.cc, psfproperty.cc, psfpropertyblock.cc) | position in the buffer, children, property map and list | `deserialize`, `find`, `append_prop` | the loops stop at the section's end; chunks are owned once; a property is found under the name it was stored with |
| signals by name: `PSFFile`, `TraceSection` and `ValueSectionSweep` together (psffile.cc, psfsweepvalue.cc:78-93) | that of the parts | `get_signal(name)`, `get_sweep_values` | a name is answered with the waveform recorded under it |
| `DataTypeDef`, `DataTypeRef`, `StructDef`, `Struct`, `VectorStruct` (psftype.cc, psfstruct.cc, psfdata.cc, psfdata.h) | type ids, sizes, members; data of structures, elements of vectors | `deserialize`, `deserialize_data`, `clone`, `new_scalar`, `new_vector`, conversion to `VectorStruct` | the size of a type is what reading it consumes; every object has one owner, and what the client holds lives |
| `ValueSectionNonSweep`, `NonSweepValue` (psfnonsweepvalue.cc) | one scalar and its properties per name | `deserialize`, `get_value`, `get_value_properties` | every value is read from its own bytes; a clone outlives the data set |
| Python bindings (psfpython.cc) | the results it converts, reference counts | conversions, exception translators | a result is freed once or shown as long as its array lives; every reference is counted |

`PSFDataSet` owns a `PSFFile` and forwards to it; `PSFFile` owns the sections;
sections of one file refer to each other through `PSFFile` (a trace reference
finds its type through `get_type_section()`, the swept values find traces,
sweeps and header properties), so which file each pointer stems from matters.
There are no callbacks and no threads. psfreader.cc and psftestraw.cc are not
built (`src/src/Makefile.am`).

## Modules

| Module | Models |
|---|---|
| `PSFFile` | state and effects of `PSFFile` objects: descriptor table, address space, heap of sections, the six pointers; `MapFile`, `Validates`, `Deserialize`, `Close`, `Destroy` |
| `PSFDataSet` | the actions: a client with several data sets, `open()` in its steps (`OpenFile`, `ValidateFile`, `ParseFile`) and a simulator that replaces files between them |
| `MCPSFDataSet` | contents of files: swept, non-swept, ASCII, too short, damaged in the traces, without traces, without values, without both, with a waveform family, with a type id of a trace, a sweep or a value missing, with counts that do not fit, windowed and lacking a header property |
| `PSFDataSet_proofs` | theorems about `PSFDataSet`: whatever happens to files and addresses, then on files that stay as they are and addresses that are not reused |
| `SweepFile` | a file with swept values as the reader sees it, and how a simulator lays it out (`WellFormed`) |
| `ValueSectionSweep` | building the offset map, reference by reference; reading a trace or the parameter, window by window or point by point |
| `SweepReader` | the abstract specification: a call returns, with the waveform recorded |
| `MCSweepFile` | how a simulator lays out small files of both kinds |
| `MCValueSectionSweep` | well-formed files of both kinds and files that break one rule each |
| `ValueSectionSweep_proofs` | theorems about `ValueSectionSweep` for every file, then for every well-formed one; it implements `SweepReader` |
| `Container` | parsing a section: the loops over chunks, the factories, groups, structures, property blocks, indices, and the destructors |
| `MCContainer` | sections of each of the five kinds, and each with one thing wrong, displaced or cut off |
| `Container_proofs` | theorems about `Container` |
| `TraceSection` | the name maps of the trace section and its groups, and the lookups by name |
| `MCTraceSection` | the smallest trace section with two groups |
| `TraceSection_proofs` | theorems about `TraceSection` |
| `SweptSignal` | `TraceSection` and `ValueSectionSweep` over one file: names are read, then values, and a call by name reads the trace found |
| `SignalReader` | the abstract specification: a call by name returns a waveform recorded under it, and throws only for a name that stands for no one trace |
| `MCSweptSignal` | every small trace section, names repeated or not, with values for its traces |
| `SweptSignal_proofs` | the components' invariants hold of the composition; it implements `SignalReader` |
| `DataTypes` | types, the bytes they are said to take and those reading takes, the objects a value is read into |
| `SignalData` | the objects of values, vectors and inverted structures: their data, their owners, their end, in C++ and behind the Python binding |
| `MCSignalData` | nine types, swept files with windows, with points and with none, non-swept files of two values |
| `Induction` | induction over the naturals, course-of-values recursion and iteration, stated of sets and functions |
| `DataTypes_proofs` | what the recursive definitions of `DataTypes` compute, for every list of types |
| `SignalData_proofs` | theorems about `SignalData`: owners, lifetimes, undefined behaviour, the bytes read, and the losses |

### PSFFile and PSFDataSet

Every successful `::open` + `mmap` gets the next number, its *generation*;
`maps[g]` keeps what was mapped and where. Descriptors and addresses hold
generations, and so do section pointers: a pointer that differs from the
generation of the descriptor is stale. `Forget` is the end of an object: its
fields return to what the constructor will set.

A content is reduced to what the code's control flow depends on: the signature
at its end, the sections in its table, the section that is damaged (`bad`), which
properties the header has (`props`) and its number of sweeps, and its `flaws`: a
type id of a trace, of the sweep or of a value that the type section lacks, a
trace that stands for a waveform family, counts that do not fit the values. A call that is one step of the client is one action,
except for `open()`, which is three: between them a simulator may replace the
file that `validate` opens a second time. A query sets `last.from` to the
generation its data stems from. C++ undefined behaviour is the result
"undefined"; nothing is claimed of what follows, so no further call is made. A
use of a pointer that may or may not go well (a type id looked up in the type
section of another file) is a choice.

A query with a section to read may also throw, and leaves the set as it is:
PropertyNotFound for a header property that is missing (`WithHeader`), NotFound or
bad_cast for a name that stands for no trace or for a group (`SignalVector`,
`SignalScalar`), IncorrectChunk, out_of_range or length_error if counts do not fit
(`SweepVector`). It is undefined for a type id that the type section at hand lacks
(psfindexedcontainer.cc:99), for a trace without an offset (psfsweepvalue.cc:132),
for a section that neither exists nor is tested for, and for a mapping that is gone.
`UndefinedHasCause` does not say that there is no undefined behaviour, which would be
false. It says that a file and a query on which it occurs are those on which it
occurs when the file is opened for the first time: `UndefinedToOpen` and
`UndefinedToAsk` speak of the open file's content and of the query, and of nothing
that earlier openings left behind.

### ValueSectionSweep

The buffer is a set of words and a set of values, each at a byte offset from
`m_valuebuf`; other bytes read as no chunk type and no value. A file also has,
for the specification only, what the simulator recorded and where it put it;
`WellFormed` (in `SweepFile`) relates the two. The open's loop over references and a query's
loop over windows are one action per turn. What the library does with an
exception (leave the data set as it is) is `QueryFails`; an assertion that
fails and the dereference of `end()` stop the process. The header's properties "PSF
sweep points", "PSF traces" and "PSF window size" are numbers of the file here, so
they are assumed to be there if they are read; a header without one of them makes
the query throw PropertyNotFound, which is in `PSFDataSet` (`VectorProps`).

### Container

A section is the sequence of tokens that the parser *meets* on its way through the
bytes: the fixed part of a chunk, a property, an end marker or an index, each at its
file offset and with the attributes that decide what the code does next. Where the next
token begins is decided by bytes of the last one: its chunk type, the lengths of its
strings (psfdata.cc:158), the size of an index (psfindexedcontainer.cc:12). How they
decide it is not modelled. A section in which one of them is damaged is another
sequence from there on, which ends where the walk leaves the file. `Damaged` changes
one attribute, `Displaced` lets the parser come down behind a token at any later one,
or first at bytes that look like a chunk of another type, `Cut` ends the walk anywhere.
A token's `fault` is what reading it comes to: UnknownType for a data type without a
size, length_error for a negative string length, undefined for a length or an index
that reaches beyond the file, and for a type id that is not in the type section.
Nothing is said, then, of whether parsing stays within the file: it need not.

A chunk object is named by the token it was read from. The recursion
of `deserialize_child` is `stack`; `owner[c]` is the container that `add_child`
gave `c` to. `child_factory` of all classes together is the relation `Factory`.
`BeginChild` is the factory, the constructor and the head of `deserialize`;
`EndChild` is the return and the `add_child` behind it. What throws between the
two leaves `c` in `chunk` but in no `owner`: `Delete` then frees `Freed`, what the
destructors reach from the section, and the rest is lost.

Two containers end in different ways, and the guard `Wants` says which: a section
at its end position or end marker, a group at its count, a structure definition
at its marker. A property block ends at the first token that is no property.

A property goes into two places (`append_prop`): `props`, the list in file order,
and `propmap`, the map by name, where a later one replaces an earlier one. The
header has no block: its properties are chunks of the section, and
`HeaderSection::deserialize` appends them to the header's map once the loop has
ended (`HeaderProperties`); a header that throws has an empty map. `PropertyBlock`
has no destructor, so the clones in the maps are never deleted. They are not among
the objects that `Freed` speaks of.

`Files` has intact and damaged sections; reading on behind the last token is "undefined".
An intact section also says, for `ReadAsWritten`, in which chunk each token was
written (`parent`); no action reads that. `Intact` is the assumption on it: `FrameIntact`
(headers, what follows the chunks, an end position before or behind the end marker) and
for each token `ChunkIntact`. The tokens are the chunks of a tree in the order of a walk through
it, and a chunk holds what simulators write in it: a group as many references as it says,
a structure its members, one end marker and its properties, other chunks properties only.
None has a fault. The last clause of `ReadAsWritten` says where the walk ends, not where the next
section is read: `PSFFile` takes the start of each section from the section table.

### TraceSection

Reading the references of the groups, indexing the children, and the lookups, one
step per turn of a loop. A trace is named by its position: child, place in the
child. `ByName` is `get_trace_by_name` as it stands, with its early return in the
loop over groups. `get_traceindex_by_name` and `get_trace_by_index` are called by
nothing and are not modelled.

### SweptSignal

A file is one of `SweepFile` with, besides, the names of its children; both modules'
variables speak of it, and `ListingsAssumed` says that they describe the same
children. `OpenNames` is any step of `TraceSection`'s reading, `OpenValues` a turn of
the loop that builds the offset map and is enabled only after it. `GetSignal` is one
action up to the loop over windows: the lookup, then `Query` of the trace at the
place found. `call` is the name that was asked for, `reply` what was returned for
it; neither decides anything.

### DataTypes and SignalData

A type is a kind or a list of member types. `DataSize` is `psfdata_size` and
`StructDef::datasize`; `Taken` is what `deserialize_data` moves the buffer by, which
for a structure is what its members' own `deserialize` take. The two tables of sizes
differ in one entry: psfdata.cc:142 returns 8 for a complex member where
`psfdata_size` says 16. Types are listed members first, as a file defines them, so both
are functions over the list whose value at a type needs only earlier ones; a
structure's size is the last of the `Sums` of its members' sizes. A path of cells is therefore at
most as long as the list of types, which is what `Depth` takes.

An object is a path (see the module's comment) with its kids and the bytes it was
read from; contents that were copied keep the place of the original, so that
`ReadAsStored` can compare an element of an inverted vector with what the simulator
wrote. `assign_scalar` on a vector of structures assigns a
`Struct`, a map of pointers, by copying the pointers, and then `delete vec` takes what
they point to. `Inverted` does both in one step, as psf.cc:68-70 does without a call
in between: that for a moment two structures own the same pointers is not a state, and
`OwnedOnce` says nothing of it. What comes of it afterwards is a state. `Delete` and `DropArray` are the client's; a VectorStruct
is a `std::map` without a destructor, hence `IsVectorStruct`.

Assumed: no four bytes inside a value happen to be the chunk type of a value or
of a property (`ParseThrows`); the member names of a structure are distinct and in
`std::map` order, so that vectors are converted in member order; the sweep parameter
is a double, as it is in every data file of the repository; the part of a value
chunk before its data takes `HEADER` bytes. `TypesAssumed`, `FilesAssumed` and
`CallsAssumed` say only that members come before the structures made of them, that a
file has a signal and its values have listed types, and that points come one by one
outside windows. Each `ReadWindow` may throw
instead (`ReadThrows`), for the reasons that `ValueSectionSweep` models.

## Runs

| Run | Question | Bounds |
|---|---|---|
| `lifecycle_damage` | do descriptors, sections and references keep their owners when files are damaged and replaced at any moment? | 2 handles, 1 path, 9 contents, 2 descriptors, 2 addresses, 2 successful openings |
| `lifecycle_stable` | if files stay as they are and addresses are not reused: is an open data set mapped and current, and undefined behaviour the open file's and the query's own? | 2 handles, 2 paths, 9 contents, 3 descriptors, 2 openings |
| `address_reuse` | (violation) is it still mapped if the kernel reuses addresses? | as above, 1 path, 2 contents |
| `replaced_file` | (violation) does a reopened set without sweeps have no sweep values? | 1 handle, 2 openings |
| `swept_properties` | (violation) may the properties of a swept signal be asked for? | 1 handle |
| `sweep_read` | are well-formed files read back as recorded, by any sequence of queries? | 3 traces, up to 3 windows or points, 20 files |
| `sweep_broken` | does every call on an inconsistent file end, with a whole waveform or an exception? | 13 files, each breaking one rule |
| `family_trace` | (violation) can every listed trace be read? | 4 files of a waveform family |
| `parse` | is an intact section read as the tree it was written as? does a damaged one still end, hold every chunk once, find the last property of each name and lose memory only by throwing? | 5 kinds of section, 2 trees each, and each with one chunk type, end position, count or attribute changed, with one fault, with the walk displaced once, or cut off |
| `signal_names` | do the name maps hold what was read, do lookups find it, and is a name answered with what was recorded under it? | every trace section of up to 3 children, up to 2 traces in a group, 3 names, up to renaming; 2 points |
| `two_groups` | (violation) is a listed trace of the second group found? | 2 groups of one trace |
| `signal_data` | is data what was stored, does it live as long as it is held, and which objects are lost? | 9 types, 15 swept and 70 other files, both clients, 2 calls |

Two handles are enough for one data set to harm another: descriptors and
addresses are related pairwise. Two openings allow an open, a close and a
reopen, or two sets; a third opening adds nothing of its own, since what an
opening finds is the state its predecessor left (and the theorems below hold for
any number). The bound is `MaxMaps`, a guard on `New` and `Open`: nothing
else in the life cycle grows. In the sweep runs three traces allow a first,
a middle and a last in a group, groups beside references, and three sizes; an
empty window stands between two that are not. The trees of `parse` have what the
loops treat differently next to each other: a structure in a structure, a group
beside references, an empty group, property blocks at every level, an end marker
before and behind the end position. One damage at a time is what tells the
guards apart; a second one is met only if the first did not end the parse.

The trace sections of `signal_names` are those in which names occur first in a
fixed order: renaming makes every other one of that size equal to one of them.
With three children a group stands between two others, a name can be
outside groups, in one, be a group's own, and be repeated in each of these ways. In
`signal_data` the types are one of each kind, and structures with an integer, a
complex number, a structure and a structure without either as a member; two calls are enough for
one result to be deleted, converted or lost while another is held, since no call
reads what another one made; the first value of a file is what displaces the second.

`CHECK_DEADLOCK FALSE` is said where the process stops after undefined behaviour,
a failed open or the deletion of the section; each cfg says which.

### What the violations show

- `address_reuse`: `PSFFile::close` calls `munmap` on every call (psffile.cc:115),
  the destructors call it twice more, and an address that was unmapped may by
  then hold the file of another data set. That set stays "open" on memory that
  is gone.
- `replaced_file`: `deserialize` sets the pointers of the sections the file has and
  leaves the others; nothing resets them. A swept file that is replaced by a
  non-swept one between close and open is read as swept, through the old
  file's sections.
- `swept_properties`: the null dereference behind the comments at psffile.cc:163
  and bindings/python/tests/test_psfdataset.py:56.
- `family_trace`: the trace that psfsweepvalue.cc:43-50 leaves out of the offset map is
  listed by `get_names`, and reading it dereferences `end()`.
- `two_groups`: the loop over groups in psftrace.cc:36-41 returns the answer of the first
  group, which throws NotFound for a name it lacks (psfgroup.cc:72): a trace of the
  second group is listed and cannot be read.

### What `signal_data` shows

Its properties hold; what they leave out is what the code loses.

- `OpensUnlessComplex` and `ReadAsStored` except structures with a complex member:
  half of it is taken, members behind it are read from the wrong bytes, and in a
  non-swept file the next chunk is looked for inside the value.
- `UndefinedOnlyInverted` has two cases. Inverting a structure with a structure as a
  member leaves that member's vector with pointers into the vector that was
  deleted; converting a member of integers yields `NULL`, which is put into a
  dictionary (psfpython.cc:134 and `vectorstruct_to_python`).
- `LeaksNamed` lists the losses: what an exception of the running call leaves behind, a
  VectorStruct's vectors, the scalar that the binding converts and keeps, and
  the vector under an array of sweep values once the array is dropped.

## Fairness

`ValueSectionSweep!FairSpec` has weak fairness of the two loops and none of the
client: the program is sequential and its loops never block, so a call that was
made runs on; that a client calls is not assumed. `CallsEnd` and the liveness
part of `Implements` (an asked reader replies) rest on it. `Container!FairSpec` has
weak fairness of `Parse` for the same reason: parsing is one call.
`SweptSignal!SignalFairSpec` has weak fairness of `ReadOn`, the loop of a call that was
made, and of nothing else. The life cycle and `SignalData` state no liveness: each of
their calls is a bounded number of steps.

## Proofs

`PSFDataSet_proofs` proves five invariants and an action property for every number of handles, paths,
contents, descriptors, addresses and openings, from `ContentsAssumed`,
`ResourcesAssumed` and `ClientAssumed` only, whatever `FreshAddrs` and
`Rewrites` are:

- `TypeCorrect`. `TypeOK` is not inductive: the steps of `open()` need the handle in
  progress to have a file name and, after `OpenFile`, the descriptor, buffer and
  youngest mapping of this call. `CallOK` says so; `TypeInv` is both.
- `DescriptorsOwned`. Every descriptor held is open *and* held once: the second half is
  what makes the first survive another set's close. `::open` returns a free
  descriptor, which by the first half nobody holds.
- `BuffersSet`. An object that exists, and one being opened, has passed `MapFile` or is
  not an object yet: the constructor that throws leaves no object.
- `ReferencesValid`. What is handed out is in `heap` because what a live set's pointers
  name is; `Deserialize` only adds, `Destroy` takes only what the deleted set owns, and
  no two sets own the same section, since generations are used once.
- `OpenMeansParsed`. While a call parses generation `g`, `m_fd`, `m_buffer` and the
  mapping are those of `g`; an open set's are untouched by other sets' calls.
- `LeaksAfterThrows`. A descriptor can only lose its owner if a field that held it is
  overwritten or forgotten. `HoldsInv`: an object that does not exist holds none, unless
  it is being constructed; so `MapFile` overwrites nothing in a constructor,
  and `Close` and `Destroy` close what they forget (`NoOrphanByStep`).

Its second part adds the three invariants of `lifecycle_stable`, for the
same constants, and says which environment each needs:

- `OpenStaysMapped`, under `FreshAddrs`. `MappedInv`: buffers that are set are addresses
  already given out, and those of two objects differ. So the `munmap` of a close or a
  destructor, repeated or not, hits the object's own. (`address_reuse` shows that
  the assumption cannot be dropped.)
- `AnswersStayCurrent`, under `~Rewrites`. `StableInv`: the pointers a set holds
  are those that parsing its file sets, and `OpenStable`: those of an open set are of
  the file it has open. A reopening parses the same content, so it sets the same
  pointers (`SameAllocated`, `ParseFacts`) and leaves no older one behind. (`replaced_file`
  shows what happens otherwise.)
- `UndefinedByCause`, under both. `OpenFacts`, `OpenValues`: every section pointer of an
  open set is of the file it has open, or null if the file lacks the section. `SweptReadable`:
  hence a mapping that is gone or a type section of another file do not occur, and what
  reading a vector relies on fails only by a flaw of that file. `QueryUndefined` goes through the
  queries one by one; `ParseUndefined` does the same for `ParseFile`, which on a set that was
  open before finds the pointers that parsing the same content had set.

`ValueSectionSweep_proofs` takes any file that satisfies `FileOK`, consistent or not.
(It does not show that reading ends: that is `CallsEnd`.)

- `TypeCorrect`, with `Books`: a query runs on a finished map, asks for a listed
  trace and, without windows, has a parameter vector of all points, which makes the
  assignment to its element `i` lie inside it.
- `TracesApart`. `OffsetsDisjoint` becomes inductive with `Behind`: all that is mapped
  ends before `Frontier`, the place of the next reference, so a new one is apart
  from all others, and an id that occurs again only leaves its old place.
- `OnlySkippedUndefined`, from `Complete`: every reference passed is mapped or skipped,
  and when a query runs all are passed.
- `AnswersWhole`: no file, however its parts disagree, makes a query return an element that
  was not read. `Filled` is the loop invariant: both vectors are filled up to point `i`,
  and with windows the parameters' vector ends there. It needs that
  bytes in which nothing is stored still read as a value (`Junk`) and never as the mark
  of an element that was not assigned (`ValuesAssumed`).

Its second part assumes `AllWellFormed`: every file is as `WellFormed` says
simulators write it.

- `OffsetsAreRecorded`. Inside a group, `offset` is where the next reference was
  written (`Places`); that a new mapping does not move an old one needs distinct ids.
- `ReadAsRecorded`. A query with points left stands at a window (`AtWindow`) whose words
  then say the number of points; `QueryPlaced` finds the trace's offset. The step to
  the next window is the arithmetic of `WindowReads`, that of a point `PointReads`.
- `Refines`: `Spec => Reader!Spec`. Opening and reading stutter, nothing throws
  (`NothingThrows`), and a return is the abstract `Reply` since all points were read
  (`ReturnsWhole`).

`Container_proofs` takes any sequence of tokens that the parser may meet, wherever the walk
leads and ends, and for its last theorem any intact one.

- `TypeCorrect`. `Running` is what is needed besides: the stack rises from the section,
  everything on it and in `chunk` lies behind the read position.
- `ChunksHeldOnce`: `EndChild` gives away only the top, which the rising stack has once.
- `TokensKept`: a step that moves `buf` makes a chunk of the token or appends it to one
  block, and neither is done to a token already passed.
- `PropertiesAreFound`. `LastIn(f, map, tokens)` says that a map holds the last token of
  every name; `FoundInv` says it of each block's map and its list, and of the header's
  map and the section's chunks once it was read. A property is appended behind all
  tokens of its block (`BindLast`), by the read position of `Running`; the header's loop
  is `HeaderLast`.
- `SectionsFreed`: what the destructors reach is defined level by level. A holder is an
  earlier token than what it holds (`Running`), so `FreedAll` goes by strong induction
  over the tokens: a chunk's holder is reached, hence the chunk, and the number of tokens
  bounds the levels. `FreedInv`: once a section is read, nothing is on the stack but itself.
- `SectionsReadAsWritten`, under `IntactAssumed`, which `parse` evaluates on its sections.
  `AsWritten` says that what was read is placed as it was written, `OnPath` that the stack
  is the path to the next token: later tokens were written in chunks on the stack or in
  chunks to come, a structure on it is in `members` exactly if its marker is to come, and
  every chunk below the top still wants a child. From these, `Situation` lists what the
  parser can stand at: a child or a property of the top (`OwnToken`), the end of the top
  (`OtherToken`), the section's marker or its end (`SectionLeft`). The count of a group is
  reached exactly at its last reference (`GroupWants`), and a property behind the end of a
  chunk cannot be one of an outer chunk, whose marker is still to come; in each
  situation one action is possible and it keeps both invariants.

`TraceSection_proofs` takes any section.

- `NamesAreIndexed`: `NamesIndexed` is inductive given the types; `LastOfBind` is the step
  of both loops.
- `NamesAreFound`: with distinct names, the last of a name is the only one.

`SweptSignal_proofs` takes any trace section and, as the second part of
`ValueSectionSweep_proofs`, well-formed values. `SignalInv` is `NamesInv`, `ReaderInv` and `CallInv`: while a query runs, its
trace stands at a position whose name is the one asked for.

- `ComposedNames`. Every step of the composition is a step or a stutter of each
  component (`StepParts`), so their invariants carry over, without a new proof.
- `RefinesByName`: `SignalSpec => ByNameReader!Spec`. A call that is begun is the abstract
  `Ask`; a return carries the waveform of its trace (`ReturnsWhole`), which is listed
  under the name by `CallInv`; a call that throws is the abstract `Refuse`, since a
  name that stands for one trace is found (`FindableIsFound`, from `NamesIndexed`).

`Induction` replaces the library's induction theorems, whose operator parameter the
provers cannot instantiate: a set of naturals that has a number whenever it has the smaller
ones has them all; a function whose value at `n` is a step of its values below `n` exists
and satisfies its equation. `DataTypes_proofs` instantiates it for `Sums`, `DataSize`,
`Taken`, the trees of cells and the kinds of leaves, by recursion over the list of types:
the paths of a tree are short and unbroken (`Shape`), members lie behind each other
without overlap, and without complex leaves the bytes said and the bytes
taken are the same (`PlainAgree`).

`SignalData_proofs` proves every property of `signal_data`, for any list of types,
nested to any depth, any files and any number of calls. `Inv` is inductive; its parts:

- `FileInv`: the control state, and positions within the file.
- `HeapInv`. Ownership cannot be proved of the graph as it is; it follows from the names. `Sound`:
  a kid's name continues the name its owner's *contents* had when they were read (`Named`; for a
  structure whose pointers were copied, that is the element it was copied from), a copy and
  its original are never both there, and only a vector of an inverted structure may have
  kids that are gone. So two objects with a kid in common would be one.
- `HandleInv`: what the client has are results of calls that returned, whose `SweepValue` is
  gone, so no destructor of a later call reaches them.
- `ParseInv`, `ReadingInv`: which values and elements are complete, and with which bytes; it is what
  a clone and an inversion copy from.
- `ConvertInv`: what the binding finds when it converts; `LastInv` the outcome.

From it follow `NothingTwice`, `HeldLives`, `ArraysLive`, `UndefinedNamed` and `TypeCorrect`.
Three theorems need more:

- `PlainFilesOpen`, with `AtChunk`: parsing stands where the simulator put the next
  chunk, since what a value takes is what its type is said to take (`PlainAgree`).
- `ReadsWhatIsStored`, with `StoredInv`: of a type without complex members, every cell of an
  element, a copy and a clone has the source that the layout gives its leaf (`RightSource`).
- `LossesAreNamed`, an action property. `Garbage` is what no root reaches, and reaching is
  iterated; `HangInv` makes it a matter of names: every object that is no vector of an
  inverted structure hangs on the one its name continues, a vector on its `SweepValue`, so
  that a root leads to it exactly if its name starts with that of a root or the call runs
  (`KeptFacts`). Then one lemma per action says which names lose their root.

Only model-checked: all liveness (TLAPS has no rule for fairness and ENABLED here). That the
sections of `MCContainer` are intact, which builds them from trees by recursion, is evaluated
by TLC.

## Not modelled, and why

- Formatting, printing, psftest.cc; psfreader.cc and psftestraw.cc (not built).
- The section table (psffile.cc:36-62): the number of sections from two size words,
  offsets by section number. It is arithmetic on words of the file, without state, and
  ends before anything is parsed. That a section is missing is modelled in the contents
  of `PSFDataSet`, where an offset outside the file is one of the ways in which a section is
  `bad`; that it ends too early or late is modelled in `Container`.
- How bytes lead from one token of a section to the next (string lengths, index sizes, the
  lengths of chunk types): `Container` takes any sequence they may lead to. No property
  says that parsing a damaged file stays within it.
- In-place writes into a mapped file, and a failing `mmap`: both end in a fault
  at once, at a point the model could only repeat.
- The Python binding's reference counts, property dictionaries and exception translators:
  what it does to the library's objects is in `SignalData`.
- String values: `psfdata_size` throws for their type when the definition is read.
- `PropertyBlock::findprop`, `SweepValueIterator`, `new_dataobject`: called by nothing.
- Byte order and IEEE formats: values are opaque, each distinct.

## Plan

Done: the life cycle and all its invariants as theorems; the swept values with their
abstract reader; the parser, property maps included; the names; names and values
composed, with an abstract reader by name and the theorem that it is implemented; the
layout, ownership and conversion of signals' data; every action property of the
runs and every invariant as a theorem. What is left, in this order:

1. The section table, if a reader of damaged tables is ever added to the library.
2. Reference counts of the Python bindings (`None` without a reference, dictionaries).
