------------------------------ MODULE MCWriter ------------------------------
(***************************************************************************)
(* Instances of SwiftWriter for TLC.                                       *)
(***************************************************************************)
EXTENDS SwiftWriterContracts

\* The admin knows no session, the one before, or the one the broker has.
AnySession == {None, 0, 1}
NoSession == {None}
=============================================================================
