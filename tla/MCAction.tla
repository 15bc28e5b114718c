------------------------------ MODULE MCAction ------------------------------
(* Three objects: one with a checked digest, one without a digest, and one whose uploader
   claims the digest of the first. *)
EXTENDS Action
MCObjects == {
  [bytes |-> "a", sum |-> "a", checked |-> TRUE],
  [bytes |-> "b", sum |-> "none", checked |-> FALSE],
  [bytes |-> "b", sum |-> "a", checked |-> FALSE]}
=============================================================================
