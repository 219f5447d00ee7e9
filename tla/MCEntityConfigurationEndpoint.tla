------------------- MODULE MCEntityConfigurationEndpoint --------------------
(***************************************************************************)
(* Three callers and the settings that matter: no margin, a margin shorter *)
(* than the lifetime, one that signs for every request, and the two kinds  *)
(* of settings that are refused.                                           *)
(***************************************************************************)
EXTENDS EntityConfigurationEndpoint

S(l, m) == [lifetime |-> l, margin |-> m]

SomeSettings == {S(2, 0), S(3, 1), S(2, 2), S(0, 1), S(2, -1)}
=============================================================================
