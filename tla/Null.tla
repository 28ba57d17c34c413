---------------------------------- MODULE Null ----------------------------------
(* None of Python, NULL of the database. *)
CONSTANT None
=============================================================================
