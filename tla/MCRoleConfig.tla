---------------------------- MODULE MCRoleConfig ----------------------------
(***************************************************************************)
(* An instance of RoleConfig for TLC: role groups whose names share parts. *)
(***************************************************************************)
EXTENDS RoleConfig

ClashingNames == {<<"a">>, <<"a", "metrics">>}
=============================================================================
