---------------------------- MODULE MCTraceSection ----------------------------
(* The smallest trace section with two groups; MCSweptSignal has the others. *)
EXTENDS TraceSection

TwoGroups == {<<[group |-> TRUE, name |-> "g", refs |-> <<"a">>],
                [group |-> TRUE, name |-> "h", refs |-> <<"b">>]>>}
GroupNames == {"a", "b", "g", "h"}
=============================================================================
