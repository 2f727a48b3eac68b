----------------------------- MODULE VnCodecLaws -----------------------------
(***************************************************************************)
(* The codec laws of spec.md 8 applied to the generated functions as pure  *)
(* operators: a byte stream arrives one token at a time and an application *)
(* builds a VkMemoryRequirements2 chain one link at a time; every law is a *)
(* statement about what the functions do to the current stream or chain.  *)
(* The input is finite, so the harness stops at its bounds.                *)
(***************************************************************************)
EXTENDS VnWire

CONSTANTS
  Tokens,    \* token values of a stream
  MaxLen,    \* longest stream
  MaxLinks   \* longest chain

VARIABLES bytes, chain

vars == <<bytes, chain>>

Init ==
  /\ bytes = <<>>
  /\ chain = NULL

AppendToken ==
  /\ Len(bytes) < MaxLen
  /\ \E t \in Tokens : bytes' = Append(bytes, t)
  /\ UNCHANGED chain

(* The application links a known or a foreign struct in front. *)
PrependLink ==
  /\ ChainLength(chain) < MaxLinks
  /\ \E t \in {VK_STRUCTURE_TYPE_MEMORY_DEDICATED_REQUIREMENTS, ForeignSType} :
       chain' = [sType |-> t, pNext |-> chain,
                 prefersDedicatedAllocation |-> 1, requiresDedicatedAllocation |-> 0]
  /\ UNCHANGED bytes

Next == AppendToken \/ PrependLink

Spec == Init /\ [][Next]_vars

TypeOK ==
  /\ bytes \in Seq(Tokens)
  /\ ChainLength(chain) <= MaxLinks

Fresh == NewDecoder(bytes, 0)

----------------------------------------------------------------------------
(* Unknown-extension asymmetry (spec 4.1, 8): encoding a chain that holds *)
(* a foreign link after known ones emits the known links up to the       *)
(* foreign one and then ends the chain (vn_encode_VkMemoryRequirements2_  *)
(* pnext).                                                                 *)
EncodeTruncatesAtUnknown ==
  vn_encode_VkMemoryRequirements2_pnext(chain) = WireOfMr2Chain(chain, TRUE)

(* A VkClearColorValue the decoder accepts without a fault has all four   *)
(* of its components written: vkCmdClearColorImage reads all 16 bytes of *)
(* the union, and vn_decode_VkClearColorValue_temp writes as many as the *)
(* size marker says.                                                       *)
ClearColorFullyWritten ==
  LET r == vn_decode_VkClearColorValue_temp(Fresh)
  IN  ~r.dec.fatal => \A i \in 1 .. 4 : r.val[i] # UNINIT
=============================================================================
