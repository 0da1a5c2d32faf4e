----------------------------- MODULE SweepReader -----------------------------
(***************************************************************************)
(* What get_signal and get_sweep_values of a swept data set promise: every *)
(* call returns, and returns the waveform that was recorded.               *)
(***************************************************************************)
EXTENDS Sequences

CONSTANTS Recordings, Ids, Sweep

VARIABLES recording, asked, reply

vars == <<recording, asked, reply>>

Waveform(q) == IF q = Sweep THEN recording.param ELSE recording.wave[q]

Init ==
  /\ recording \in Recordings
  /\ asked = << >> /\ reply = << >>

Ask(q) ==
  /\ asked = << >>
  /\ asked' = <<q>>
  /\ UNCHANGED <<recording, reply>>

Reply ==
  /\ asked # << >>
  /\ reply' = Waveform(asked[1])
  /\ asked' = << >>
  /\ UNCHANGED recording

Next == Reply \/ \E q \in Ids \cup {Sweep} : Ask(q)

Spec == Init /\ [][Next]_vars

FairSpec == Spec /\ WF_vars(Reply)
=============================================================================
