------------------------------- MODULE Absence -------------------------------
(***************************************************************************)
(* The value that stands for Rust's Option::None throughout the project.   *)
(***************************************************************************)
CONSTANT None
=============================================================================
