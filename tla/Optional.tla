------------------------------ MODULE Optional ------------------------------
(***************************************************************************)
(* The value of every optional thing of the code that is not there: a JSON *)
(* field that is null or absent, None, an option not given.                *)
(***************************************************************************)
CONSTANT NoValue
=============================================================================
