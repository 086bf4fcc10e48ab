--------------------------- MODULE MCCellDirectory ---------------------------
(* Small instances of CellDirectory; the cfg files choose among these sets.  *)
EXTENDS CellDirectory

OneThreshold == {1}
BothPages == {"module", "global"}
=============================================================================
