------------------------ MODULE MCAllChainsDiscovery ------------------------
(***************************************************************************)
(* All-chains discovery in the federations of MCFederation.                *)
(***************************************************************************)
EXTENDS AllChainsDiscovery, MCFederation
=============================================================================
