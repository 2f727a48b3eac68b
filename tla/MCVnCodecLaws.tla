---------------------------- MODULE MCVnCodecLaws ----------------------------
(* Bounded stream and chain for the codec laws. *)
EXTENDS VnCodecLaws

(* Tag and marker values 0..2 and a count of 1: enough for every fixed    *)
(* struct to decode, a union member with a short array, and a chain of a *)
(* known, a foreign and a known link.                                     *)
MCTokens == {0, 1, 2}
=============================================================================
