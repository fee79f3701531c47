--------------------------- MODULE MCToolGovernance ---------------------------
(* Small instances of ToolGovernance for TLC. *)
EXTENDS ToolGovernance

\* The first tool is registered a second time, with a contract that is not
\* destructive any more; any other keeps the destructive one it has.
TwoForTheFirst == Key \X {0} \cup {<<1, 1>>}
ForcedContracts == Key \X {0}
=============================================================================
