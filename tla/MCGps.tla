------------------------------- MODULE MCGps -------------------------------
(* Three sentences and a buffer for a little more than one of them.  The   *)
(* receiver leaves empty any of the fields that the structs of nmea.zig    *)
(* have as optional, and a position that it does not have.                 *)
EXTENDS Gps

Good == {"good"}
Optional == {"good", "empty"}

(* Both coordinates are there, or neither is.                              *)
Sent(f, n, position, optional) ==
  {[formatter |-> f, fields |-> m] :
     m \in {s \in [1..n -> Optional] :
              /\ \A i, j \in position : s[i] = s[j]
              /\ \A i \in (1..n) \ (position \cup optional) : s[i] = "good"}}

MCSentence ==
  Sent("GGA", 14, 2..5, {8, 9, 11, 13, 14}) \cup Sent("RMC", 12, 3..6, {10, 11, 12})
    \cup Sent("GSV", 3, {}, {}) \cup Sent("VTG", 1, {}, {})

MCDamaged == {[formatter |-> "empty", fields |-> <<>>],
              [formatter |-> "unknown", fields |-> <<"bad">>],
              [formatter |-> "GSV", fields |-> <<"good", "good">>],
              [formatter |-> "GSV", fields |-> <<"good", "good", "good">>],
              [formatter |-> "RMC", fields |-> <<"good", "good", "early", "good", "good", "good",
                                                 "good", "good", "good", "good", "good">>],
              [formatter |-> "RMC", fields |-> <<"good", "good", "early", "long">>],
              [formatter |-> "GGA", fields |-> <<>>],
              [formatter |-> "RMC", fields |-> [i \in 1..12 |-> "good"]]}
=============================================================================
