---------------------------- MODULE DiscoveryWalk ---------------------------
(***************************************************************************)
(* What the two walks of FederationClient (utils.rs) have in common: a     *)
(* recursion with a frame per call on a stack, each at the entity it was   *)
(* called for and at the hint it tries next.                               *)
(***************************************************************************)
EXTENDS Federation

CONSTANT Start  \* the entity the walk begins at

ASSUME StartAssumption == Start \in Entities

VARIABLES
  step,     \* what the innermost call does next
  target,   \* the entity of the call that begins
  stack,    \* of each call: its entity, and the next of its hints
  superior, \* the Superior's configuration the innermost call holds
  visited,
  chain,
  result    \* "none" until the walk is over

Frame == Last(stack)
NextHint == hints[Frame.entity][Frame.next]
HasHint == Frame.next <= Len(hints[Frame.entity])

\* The frames with the innermost call at its next hint.
Advanced(frames) == [frames EXCEPT ![Len(frames)].next = @ + 1]
=============================================================================
