------------------------------ MODULE SweptSignal ------------------------------
(***************************************************************************)
(* get_signal(name) and get_sweep_values of a swept data set: the names of *)
(* the trace section (TraceSection) and the values behind its ids          *)
(* (ValueSectionSweep), of one file.  PSFFile::deserialize reads the trace *)
(* section before the values, and the value section finds traces through   *)
(* PSFFile: ids in the offset map, names when it is asked for one.         *)
(*                                                                         *)
(* A file of SweepFile has, besides, its children's names (names[c]).      *)
(***************************************************************************)
EXTENDS TraceSection, ValueSectionSweep

(* The two modules describe the same children.                             *)
ASSUME ListingsAssumed ==
  \A f \in Files :
    /\ f.names \in TraceSections
    /\ DOMAIN f.names = DOMAIN f.children
    /\ \A c \in DOMAIN f.names : /\ f.names[c].group = f.children[c].group
                                 /\ DOMAIN f.names[c].refs = DOMAIN f.children[c].refs

ASSUME SweepNoName == Sweep \notin Names

VARIABLES
  call,      \* the name that is asked for, or Sweep; none: << >>
  reply      \* of the last call: its argument, and what it returned if it did

signalVars == <<nameVars, vars, call, reply>>

SignalInit ==
  /\ Init
  /\ children = file.names /\ NamesInit
  /\ call = << >> /\ reply = << >>

(* TraceSection::deserialize.                                              *)
OpenNames ==
  /\ ReadTrace \/ EndChild \/ EndChildren \/ IndexChild \/ EndIndex
  /\ UNCHANGED <<vars, call, reply>>

(* ValueSectionSweep::deserialize, after it.                               *)
OpenValues ==
  /\ phase = "ready" /\ MapNext
  /\ UNCHANGED <<nameVars, call, reply>>

(* Mutant: of a child, the first trace is taken.                           *)
FirstOfChild(pos) == Ref(file, pos[1], 1)

(* The trace that goes into the filter.                                    *)
Filtered(pos) == Ref(file, pos[1], pos[2])

(* get_values(name): filter.push_back(&get_trace_by_name(name)).           *)
GetSignal(name) ==
  /\ pc = "ready" /\ Lookup(name)
  /\ LET found == ByName(name)
     IN \/ /\ found.res = "ok"
           /\ Query(Filtered(found.at))
           /\ call' = <<name>> /\ UNCHANGED reply
        \/ /\ found.res # "ok"
           /\ reply' = <<name>>
           /\ UNCHANGED <<vars, call>>

GetSweepValues ==
  /\ Query(Sweep)
  /\ call' = <<Sweep>>
  /\ UNCHANGED <<nameVars, reply>>

ReadOn ==
  /\ ReadNext
  /\ IF pc' = "read" THEN UNCHANGED <<call, reply>>
     ELSE /\ call' = << >>
          /\ reply' = IF answer'.res = "values" THEN <<call[1], answer'.data>> ELSE call
  /\ UNCHANGED nameVars

SignalNext ==
  OpenNames \/ OpenValues \/ GetSweepValues \/ ReadOn \/ \E name \in Names : GetSignal(name)

SignalSpec == SignalInit /\ [][SignalNext]_signalVars

(* A call that was made runs on.                                           *)
SignalFairSpec == SignalSpec /\ WF_signalVars(ReadOn)

-----------------------------------------------------------------------------
(* Properties.                                                             *)

(* A signal is answered with a waveform recorded under the name it was     *)
(* asked for, and it is always if the name is listed once, outside groups  *)
(* or in the first group, and is no group's.                               *)
ByNameReader == INSTANCE SignalReader WITH recording <- file, asked <- call

ImplementsByName == ByNameReader!FairSpec
=============================================================================
