------------------------------ MODULE MCIngest ------------------------------
(* A model-checking instance of Ingest: a target that exposes two series, and *)
(* two requests that share one.                                               *)
EXTENDS Ingest, TLC

CONSTANTS t1, p1, p2

MCExposed == (t1 :> {"x", "y"})
MCSynthetic == (t1 :> <<"up", "duration", "scraped">>)
MCBatches ==
    (p1 :> {{<<"m", 0>>, <<"n", 0>>}, {<<"m", 0>>, <<"m", 1>>, <<"n", 0>>}}) @@ (p2 :> {{<<"m", 1>>}})
MCValueOf == (p1 :> 2) @@ (p2 :> 3)

\* Two goroutines at a time are in the middle of a batch, or retention and a scrape.
TwoAtATime ==
    Cardinality({a \in Appender : phase[a] \notin {"idle", "done"}}
                \cup (IF cutoff >= 0 THEN {"retention"} ELSE {})) <= 2
=============================================================================
