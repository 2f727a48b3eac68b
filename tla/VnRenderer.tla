----------------------------- MODULE VnRenderer -----------------------------
(***************************************************************************)
(* The command-execution layer around the generated codec, one command at *)
(* a time (spec.md 5, 7): a command's bytes arrive, its argument struct is *)
(* decoded into a fresh temp arena, a fatal decode rejects the command,    *)
(* otherwise the replace pass rewrites its handles and the driver runs it; *)
(* then the temp pool is reset for the next command.  The dispatch loop    *)
(* itself is not in this repository: the actions are modelled from the   *)
(* spec, the decode and replace they call are VnStructs' translations.    *)
(***************************************************************************)
EXTENDS VnWire

CONSTANTS
  Inputs,    \* commands the transport may deliver: [kind, wire, guest]
  ArenaCap,  \* allocation units of one command's temp arena
  NONE,      \* no value / the bytes are not any guest encoder's output
  DriverVals \* values a driver may write into an output struct

VARIABLES
  stage,     \* "idle", "decoded", "replaced", "executed" or "rejected"
  input,     \* the command being processed
  dec,       \* its decoder
  val,       \* the decoded argument struct
  fault,     \* what the replace pass touched: [oob, uninit]
  reply      \* the tokens encoded back to the guest

vars == <<stage, input, dec, val, fault, reply>>

NoFault == [oob |-> FALSE, uninit |-> FALSE]

(* The decoder of each command kind. *)
DecodeArgs(kind, d) ==
  CASE kind = "WriteDescriptorSet" -> vn_decode_VkWriteDescriptorSet_temp(d)
    [] kind = "GetMemoryRequirements2" -> vn_decode_VkMemoryRequirements2_partial_temp(d)
    [] kind = "ShaderModuleCreateInfo" -> vn_decode_VkShaderModuleCreateInfo_temp(d)
    [] kind = "SamplerYcbcrConversionInfo" -> vn_decode_VkSamplerYcbcrConversionInfo_temp(d)
    [] kind = "MutableDescriptorTypeCreateInfoEXT" ->
         vn_decode_VkMutableDescriptorTypeCreateInfoEXT_temp(d)
    [] kind = "ImageFormatListCreateInfo" -> vn_decode_VkImageFormatListCreateInfo_temp(d)
    [] kind = "MemoryBarrier2" -> vn_decode_VkMemoryBarrier2_temp(d)
    [] kind = "SemaphoreTypeCreateInfo" -> vn_decode_VkSemaphoreTypeCreateInfo_temp(d)
    [] kind = "ImageStencilUsageCreateInfo" -> vn_decode_VkImageStencilUsageCreateInfo_temp(d)

(* The replace pass of each command kind; an output struct has none. *)
ReplaceArgs(kind, v) ==
  CASE kind = "WriteDescriptorSet" -> vn_replace_VkWriteDescriptorSet_handle(v)
    [] kind = "ShaderModuleCreateInfo" -> vn_replace_VkShaderModuleCreateInfo_handle(v)
    [] kind = "SamplerYcbcrConversionInfo" -> vn_replace_VkSamplerYcbcrConversionInfo_handle(v)
    [] kind = "MutableDescriptorTypeCreateInfoEXT" ->
         vn_replace_VkMutableDescriptorTypeCreateInfoEXT_handle(v)
    [] kind = "ImageFormatListCreateInfo" -> vn_replace_VkImageFormatListCreateInfo_handle(v)
    [] kind = "MemoryBarrier2" -> vn_replace_VkMemoryBarrier2_handle(v)
    [] kind = "SemaphoreTypeCreateInfo" -> vn_replace_VkSemaphoreTypeCreateInfo_handle(v)
    [] kind = "ImageStencilUsageCreateInfo" -> vn_replace_VkImageStencilUsageCreateInfo_handle(v)
    [] OTHER -> NoReplace(v)

(* The driver writes every output field: the struct's and every link's. *)
RECURSIVE FillMr2Chain(_, _)
FillMr2Chain(p, b) ==
  IF p = NULL THEN NULL
  ELSE [p EXCEPT !.prefersDedicatedAllocation = b[1],
                 !.requiresDedicatedAllocation = b[2],
                 !.pNext = FillMr2Chain(p.pNext, b)]

TypeOK ==
  /\ stage \in {"idle", "decoded", "replaced", "executed", "rejected"}
  /\ input \in Inputs \cup {NONE}
  /\ dec = NONE \/ dec \in [buf : Seq(Nat), pos : Nat, fatal : BOOLEAN, arena : Nat]
  /\ fault \in [oob : BOOLEAN, uninit : BOOLEAN]
  /\ reply \in Seq(Nat)

Init ==
  /\ stage = "idle"
  /\ input = NONE
  /\ dec = NONE
  /\ val = NONE
  /\ fault = NoFault
  /\ reply = <<>>

(* A command arrives and its argument struct is decoded in one go: the    *)
(* decode is synchronous and has no suspension point (spec 5).            *)
ReceiveAndDecode ==
  /\ stage = "idle"
  /\ \E in \in Inputs :
       LET r == DecodeArgs(in.kind, NewDecoder(in.wire, ArenaCap))
       IN  /\ input' = in
           /\ dec' = r.dec
           /\ val' = r.val
  /\ stage' = "decoded"
  /\ UNCHANGED <<fault, reply>>

(* The fatal flag is checked once, after the whole struct is decoded. *)
Reject ==
  /\ stage = "decoded"
  /\ dec.fatal
  /\ stage' = "rejected"
  /\ UNCHANGED <<input, dec, val, fault, reply>>

ReplaceHandles ==
  /\ stage = "decoded"
  /\ ~dec.fatal
  /\ LET r == ReplaceArgs(input.kind, val)
     IN  /\ val' = r.val
         /\ fault' = [oob |-> r.oob, uninit |-> r.uninit]
  /\ stage' = "replaced"
  /\ UNCHANGED <<input, dec, reply>>

(* A command with no output: the driver consumes the arguments. *)
ExecuteSet ==
  /\ stage = "replaced"
  /\ input.kind # "GetMemoryRequirements2"
  /\ stage' = "executed"
  /\ UNCHANGED <<input, dec, val, fault, reply>>

(* A query: the driver fills the output struct and the renderer encodes   *)
(* it back with vn_encode_VkMemoryRequirements2.                          *)
ExecuteQuery ==
  /\ stage = "replaced"
  /\ input.kind = "GetMemoryRequirements2"
  /\ \E mr \in [size : DriverVals, alignment : DriverVals, memoryTypeBits : DriverVals],
        b \in [1 .. 2 -> {0, 1}] :
       LET out == [val EXCEPT !.memoryRequirements = mr,
                              !.pNext = FillMr2Chain(@, b)]
       IN  /\ val' = out
           /\ reply' = vn_encode_VkMemoryRequirements2(out)
  /\ stage' = "executed"
  /\ UNCHANGED <<input, dec, fault>>

(* vn_cs_decoder_reset_temp_pool: the arena and everything in it is gone. *)
ResetTempPool ==
  /\ stage \in {"executed", "rejected"}
  /\ stage' = "idle"
  /\ input' = NONE
  /\ dec' = NONE
  /\ val' = NONE
  /\ fault' = NoFault
  /\ reply' = <<>>

Next ==
  \/ ReceiveAndDecode
  \/ Reject
  \/ ReplaceHandles
  \/ ExecuteSet
  \/ ExecuteQuery
  \/ ResetTempPool

Spec == Init /\ [][Next]_vars

----------------------------------------------------------------------------
NativeOrNull == {NullHandle} \cup {Native(i) : i \in Registry}

(* The struct the driver receives has nothing unwritten in it and only    *)
(* driver handles: every field, every array element, every chain link.    *)
RECURSIVE ResolvedChain(_)
ResolvedChain(p) ==
  \/ p = NULL
  \/ /\ p # UNINIT
     /\ \A f \in DOMAIN p : p[f] # UNINIT
     /\ ResolvedChain(p.pNext)

ResolvedArgs(kind, v) ==
  CASE kind = "WriteDescriptorSet" ->
         /\ \A f \in DOMAIN v : v[f] # UNINIT
         /\ ResolvedChain(v.pNext)
         /\ v.dstSet \in NativeOrNull
         /\ v.pImageInfo # NULL =>
              \A i \in DOMAIN v.pImageInfo :
                {v.pImageInfo[i].sampler, v.pImageInfo[i].imageView} \subseteq NativeOrNull
         /\ v.pBufferInfo # NULL =>
              \A i \in DOMAIN v.pBufferInfo : v.pBufferInfo[i].buffer \in NativeOrNull
         /\ v.pTexelBufferView # NULL => ToSet(v.pTexelBufferView) \subseteq NativeOrNull
    [] kind = "SamplerYcbcrConversionInfo" ->
         /\ \A f \in DOMAIN v : v[f] # UNINIT
         /\ v.conversion \in NativeOrNull
    [] kind = "MutableDescriptorTypeCreateInfoEXT" ->
         /\ \A f \in DOMAIN v : v[f] # UNINIT
         /\ v.pMutableDescriptorTypeLists # NULL =>
              \A i \in DOMAIN v.pMutableDescriptorTypeLists :
                \A f \in {"descriptorTypeCount", "pDescriptorTypes"} :
                  v.pMutableDescriptorTypeLists[i][f] # UNINIT
    [] OTHER ->
         /\ \A f \in DOMAIN v : v[f] # UNINIT
         /\ ResolvedChain(v.pNext)

----------------------------------------------------------------------------
(* Properties. *)

(* Round trip (spec 3, 8): decoding the bytes the guest encoder produced   *)
(* faults exactly when the guest named an object the session does not     *)
(* know or the arena is too small for the arrays and links; otherwise it  *)
(* consumes every byte and yields the guest's struct, handles resolved,    *)
(* arrays and pNext links in the order sent.                               *)
DecodeMatchesGuest ==
  (stage = "decoded" /\ input.guest # NONE) =>
    LET g == input.guest
        k == input.kind
    IN  /\ dec.fatal <=> (~(GuestIds(k, g) \subseteq Registry \cup {0})
                          \/ GuestUnits(k, g) > ArenaCap)
        /\ ~dec.fatal => /\ dec.pos = Len(input.wire)
                         /\ val = Decoded(k, g)

(* Whatever bytes arrive, a command that reaches the driver carries no    *)
(* unwritten field or pointer, no unresolved or garbage handle, and its   *)
(* replace pass never followed an unwritten pointer (the early returns    *)
(* of the _self_temp decoders leave later fields unwritten).              *)
ExecutedArgsResolved ==
  stage = "executed" => (ResolvedArgs(input.kind, val) /\ ~fault.uninit)

(* The replace pass only indexes array elements the decoder allocated:    *)
(* its loops run to the count field, the decoder allocated as many        *)
(* elements as the wire's size marker said.                                *)
ReplaceInBounds == ~fault.oob

(* Query round trip (spec 4.1, 4.2): the reply to a VkMemoryRequirements2 *)
(* query carries, in the guest's order, exactly the links of the guest's  *)
(* chain the wire could carry, and every value the driver wrote into the  *)
(* struct and its links, laid out as the guest's decoder reads them.      *)
ReplyMatchesQuery ==
  (stage = "executed" /\ input.kind = "GetMemoryRequirements2" /\ input.guest # NONE) =>
    /\ KnownMr2Chain(val.pNext) = KnownMr2Chain(input.guest.pNext)
    /\ reply = WireOfMemoryRequirements2Reply(val)

(* vkCreateShaderModule reads codeSize bytes from pCode: the decoder must *)
(* never hand the driver a pCode shorter than codeSize, or a null pCode   *)
(* with a non-zero codeSize (vn_decode_VkShaderModuleCreateInfo_self_temp *)
(* bounds the array by codeSize / 4).                                      *)
CodeCoversCodeSize ==
  (stage = "executed" /\ input.kind = "ShaderModuleCreateInfo" /\ val.codeSize > 0) =>
    /\ val.pCode # NULL
    /\ 4 * Len(val.pCode) >= val.codeSize
=============================================================================
