------------------------------ MODULE SweepFile ------------------------------
(***************************************************************************)
(* A PSF file with swept values, as psfsweepvalue.cc sees it: the trace    *)
(* section, the header properties it asks for, and the words and values    *)
(* stored behind m_valuebuf, by byte offset.                               *)
(*                                                                         *)
(* A file is a record f with the fields                                    *)
(*   windowed, windowsize   "PSF window size": is there one, and its value *)
(*   npoints, ntraces       "PSF sweep points", "PSF traces"               *)
(*   children               the trace section: references and groups       *)
(*   size, key              datasize and property "key" of an id's type    *)
(*   paramsize, paramid     datasize and id of the sweep parameter         *)
(*   padded                 a zero pad chunk precedes the values           *)
(*   words, values          what is stored, where                          *)
(* and, never read by the program, what the simulator recorded and where:  *)
(*   param, wave            the sweep values, the waveform of each id      *)
(*   base, at               offset of a child, of its references           *)
(*   count, first, start    points in a window, before it, its offset      *)
(***************************************************************************)
EXTENDS Integers, Sequences

CONSTANTS
  Ids,      \* ids of traces
  Sweep,    \* in the place of an id: the sweep parameter
  Values,   \* of traces and parameters
  Junk,     \* the value that bytes have in which none is stored
  Unset     \* in a vector: nothing was read into this element

ASSUME ValuesAssumed == Junk \in Values /\ Unset \notin Values

VALUECHUNK == 16

Ref(f, c, r) == f.children[c].refs[r]
RefsOf(f, c) == DOMAIN f.children[c].refs

(* All references, by child and place in the child.                        *)
Refs(f) == UNION {{<<c, r>> : r \in RefsOf(f, c)} : c \in DOMAIN f.children}

(* What is stored at an address; bytes that are neither a word nor a value *)
(* (padding, other sections) are no chunk type and any value.              *)
Word(f, a)  == IF a \in DOMAIN f.words THEN f.words[a] ELSE -1
Value(f, a) == IF a \in DOMAIN f.values THEN f.values[a] ELSE Junk

(* A reference outside a group whose type says it is the sweep itself: a   *)
(* file of a waveform family, in which the trace has no values.            *)
Skipped(f, c) == ~f.windowed /\ ~f.children[c].group /\ f.key[Ref(f, c, 1)] = "sweep"

(* The bytes a trace takes in a window, or in a point.                     *)
Width(f, id) == IF f.windowed /\ f.windowsize # 0 THEN f.windowsize ELSE f.size[id]

(* In a point, chunk type and id precede each value or group of values.    *)
Prefix(f) == IF f.windowed THEN 0 ELSE 8

FileOK(f) ==
  /\ f.windowed \in BOOLEAN /\ f.padded \in BOOLEAN
  /\ f.windowsize \in Nat /\ f.npoints \in Nat /\ f.ntraces \in Nat
  /\ f.paramsize \in Nat \ {0} /\ f.paramid \in Nat
  /\ f.children \in Seq([group : BOOLEAN, refs : Seq(Ids)])
  /\ \A c \in DOMAIN f.children : ~f.children[c].group => Len(f.children[c].refs) = 1
  /\ \A id \in Ids : f.size[id] \in Nat \ {0}
  /\ \A a \in DOMAIN f.words : f.words[a] \in Nat
  /\ \A a \in DOMAIN f.values : f.values[a] \in Values

(* No two references of the trace section have the same id.                *)
DistinctIds(f) ==
  \A c, d \in DOMAIN f.children : \A r \in RefsOf(f, c), s \in RefsOf(f, d) :
    Ref(f, c, r) = Ref(f, d, s) => c = d /\ r = s

-----------------------------------------------------------------------------
(* How simulators write a file.                                            *)

RefsPlaced(f) ==
  /\ f.base[1] = 0
  /\ \A c \in DOMAIN f.children :
       IF Skipped(f, c) THEN f.base[c + 1] = f.base[c]
       ELSE /\ f.at[c][1] = f.base[c] + Prefix(f)
            /\ \A r \in RefsOf(f, c) : f.at[c][r + 1] = f.at[c][r] + Width(f, Ref(f, c, r))
            /\ f.base[c + 1] = f.at[c][Len(f.children[c].refs) + 1]

TraceBytes(f) == f.base[Len(f.children) + 1]

(* The traces' part of a window, after chunk type, word and parameters.    *)
TracesAt(f, w) == f.start[w] + 8 + f.count[w] * f.paramsize

(* The values of a trace are at the end of its part of the window.         *)
Shift(f, id, n) == IF f.windowed THEN f.windowsize - n * f.size[id] ELSE 0

WindowsPlaced(f) ==
  /\ f.start[1] = 0 /\ f.first[1] = 0 /\ f.first[Len(f.count) + 1] = f.npoints
  /\ \A w \in DOMAIN f.count :
       /\ f.count[w] \in Nat /\ f.first[w] \in 0 .. f.npoints /\ f.start[w] \in Nat
       /\ f.first[w + 1] = f.first[w] + f.count[w]
       /\ f.start[w + 1] = TracesAt(f, w) + TraceBytes(f)
       /\ f.windowed => f.count[w] < 65536
       /\ ~f.windowed => f.count[w] = 1

ValuesPlaced(f) ==
  \A w \in DOMAIN f.count :
    /\ Word(f, f.start[w]) = VALUECHUNK
    /\ f.windowed => Word(f, f.start[w] + 4) % 65536 = f.count[w]
    /\ ~f.windowed => Word(f, f.start[w] + 4) = f.paramid
    /\ \A k \in 1 .. f.count[w] :
         /\ Value(f, f.start[w] + 8 + (k - 1) * f.paramsize) = f.param[f.first[w] + k]
         /\ \A c \in DOMAIN f.children : \A r \in RefsOf(f, c) :
              LET id == Ref(f, c, r)
              IN Value(f, TracesAt(f, w) + f.at[c][r] + Shift(f, id, f.count[w]) + (k - 1) * f.size[id])
                   = f.wave[id][f.first[w] + k]

(* A file that the program must be able to read.                           *)
WellFormed(f) ==
  /\ DistinctIds(f)
  /\ f.windowed => f.padded /\ f.ntraces * f.windowsize = TraceBytes(f)
  /\ \A c \in DOMAIN f.children :
       IF f.windowed THEN f.children[c].group
       ELSE f.children[c].group \/ f.key[Ref(f, c, 1)] \notin {"sweep", "absent"}
  /\ f.count \in Seq(Nat)
  /\ RefsPlaced(f) /\ WindowsPlaced(f) /\ ValuesPlaced(f)
  /\ f.param \in [1 .. f.npoints -> Values]
  /\ f.wave \in [Ids -> [1 .. f.npoints -> Values]]
=============================================================================
