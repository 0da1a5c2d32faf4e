----------------------------- MODULE SignalReader -----------------------------
(***************************************************************************)
(* What get_signal(name) and get_sweep_values of a swept data set promise: *)
(* every call returns or throws; what it returns is a waveform recorded    *)
(* under that name; and it throws only if the name is not Findable.        *)
(***************************************************************************)
EXTENDS Integers, Sequences

CONSTANTS Names, Sweep

VARIABLES
  recording,   \* of the simulator; any, and it stays as it is
  asked, reply

vars == <<recording, asked, reply>>

(* Where a name is listed: child, place in the child.                      *)
Listings(name) ==
  UNION {{<<c, r>> : r \in {r \in DOMAIN recording.names[c].refs : recording.names[c].refs[r] = name}} :
           c \in DOMAIN recording.names}

IsGroup(c) == c \in DOMAIN recording.names /\ recording.names[c].group

(* A name that stands for one trace, outside groups or in the first group, *)
(* and for no group.                                                       *)
Findable(name) ==
  /\ \E x \in Listings(name) :
       /\ Listings(name) = {x}
       /\ IsGroup(x[1]) => \A c \in 1 .. x[1] - 1 : ~IsGroup(c)
  /\ \A c \in DOMAIN recording.names : IsGroup(c) => recording.names[c].name # name

Waveforms(q) ==
  IF q = Sweep THEN {recording.param}
  ELSE {recording.wave[recording.children[x[1]].refs[x[2]]] : x \in Listings(q)}

Init == asked = << >> /\ reply = << >>

Ask(q) ==
  /\ asked = << >>
  /\ asked' = <<q>>
  /\ UNCHANGED <<recording, reply>>

Refuse(name) ==
  /\ asked = << >> /\ ~Findable(name)
  /\ reply' = <<name>>
  /\ UNCHANGED <<recording, asked>>

Reply ==
  /\ asked # << >>
  /\ \E d \in Waveforms(asked[1]) : reply' = <<asked[1], d>>
  /\ asked' = << >>
  /\ UNCHANGED recording

Next == Reply \/ (\E name \in Names : Refuse(name)) \/ \E q \in Names \cup {Sweep} : Ask(q)

Spec == Init /\ [][Next]_vars

FairSpec == Spec /\ WF_vars(Reply)
=============================================================================
