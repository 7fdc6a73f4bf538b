-------------------------- MODULE MCCallAdmission --------------------------
(* CallAdmission with three users, the first and the last of whom have the *)
(* same hashtext value.                                                    *)
EXTENDS CallAdmission, TLC

MCUsers == 1 .. 3
MCLocks == {"x", "y"}
MCHash == <<"x", "y", "x">>
=============================================================================
