------------------------------ MODULE Nothing ------------------------------
(* The one value that stands for "no value" (Option::None, a NULL, a       *)
(* missing key) in the modules of the server's smaller parts.              *)
CONSTANT None
=============================================================================
