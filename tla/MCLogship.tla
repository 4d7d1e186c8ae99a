----------------------------- MODULE MCLogship -----------------------------
(* Two goroutines; one writes whole lines, as log.Logger does, the other a line in parts. *)
EXTENDS Logship

MCFragment == {"a", "b", "c", "d", NL}
MCWriter == {"w1", "w2"}
MCProgram == [w1 |-> << <<"a", NL, NL, "b", NL>> >>,
              w2 |-> << <<"c">>, <<NL, "d", NL>> >>]
=============================================================================
