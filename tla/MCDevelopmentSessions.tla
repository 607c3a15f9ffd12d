------------------------ MODULE MCDevelopmentSessions ------------------------
(* Two operators, two sessions and one event: each operator can start a     *)
(* session of its own, or work on the other's.                              *)
EXTENDS DevelopmentSessions
CONSTANTS s1, s2, e1, o1, o2

MCSessions == {s1, s2}
MCEvents == {e1}
MCOperators == {o1, o2}

=============================================================================
