------------------------ MODULE MCAnchoredDiscovery -------------------------
(***************************************************************************)
(* Anchored discovery in the federations of MCFederation, for anchors that *)
(* are given and anchors that the leaf names.                              *)
(***************************************************************************)
EXTENDS AnchoredDiscovery, MCFederation

SomeAnchors == {{anchor}, NoAnchors}

SomeAnchorHints == {{}, {b, anchor}}
=============================================================================
