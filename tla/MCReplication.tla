--------------------------- MODULE MCReplication ---------------------------
(***************************************************************************)
(* Instances of LogReplication for TLC.                                    *)
(***************************************************************************)
EXTENDS LogReplication

\* The second sink does not get log 4.
SomeFields == [s \in Sinks |-> IF s = 2 THEN Logs \ {4} ELSE Logs]
\* start_offset when the configuration does not say
NoOffset == -1
=============================================================================
