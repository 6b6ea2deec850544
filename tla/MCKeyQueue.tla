------------------------------ MODULE MCKeyQueue ------------------------------
(***************************************************************************)
(* A ring of five slots: four characters, one more than an arrow's         *)
(* sequence, so that sequences wrap, fit exactly and are cut.  One key     *)
(* types the bracket and one the letter that also name an arrow.           *)
(***************************************************************************)
EXTENDS KeyQueue

MCBursts == {<< Key("[") >>, << Key("A") >>, ArrowKey("A")}

===============================================================================
