------------------------------- MODULE VnWire -------------------------------
(***************************************************************************)
(* The other end of the wire: what the guest-side encoder emits for a      *)
(* struct, written from the encode contract of spec.md 4.1 and the field   *)
(* order of the generated code (sType, pNext chain, then the struct's own  *)
(* fields; a link is marker, sType, the rest of the chain, its fields).    *)
(* These are reference definitions the renderer's decoders are checked     *)
(* against, not translations of code in this repository.                   *)
(*                                                                         *)
(* A guest value carries wire ids where the struct has handles; Lift gives *)
(* the value the renderer must decode from it (ids resolved to objects)    *)
(* and Replaced the value after its replace pass (objects to driver        *)
(* handles).                                                               *)
(***************************************************************************)
EXTENDS VnStructs

(* The tokens of an optional array: absent marker, or count and elements. *)
WireOfArray(a, E(_)) ==
  IF a = NULL THEN <<ABSENT>>
  ELSE vn_encode_array_size(Len(a)) \o FlattenSeq([i \in DOMAIN a |-> E(a[i])])

Tok(x) == <<x>>

WireOfImageInfo(e)  == <<e.sampler, e.imageView, e.imageLayout>>
WireOfBufferInfo(e) == <<e.buffer, e.offset, e.range>>

RECURSIVE WireOfWdsChain(_)
WireOfWdsChain(p) ==
  IF p = NULL THEN <<ABSENT>>
  ELSE <<PRESENT, p.sType>> \o WireOfWdsChain(p.pNext)
         \o <<p.dataSize>> \o WireOfArray(p.pData, Tok)

WireOfWriteDescriptorSet(v) ==
  <<v.sType>> \o WireOfWdsChain(v.pNext)
  \o <<v.dstSet, v.dstBinding, v.dstArrayElement, v.descriptorCount, v.descriptorType>>
  \o WireOfArray(v.pImageInfo, WireOfImageInfo)
  \o WireOfArray(v.pBufferInfo, WireOfBufferInfo)
  \o WireOfArray(v.pTexelBufferView, Tok)

----------------------------------------------------------------------------
(* Expected renderer-side values. *)

MapHandles(e, H(_), fields) == [f \in DOMAIN e |-> IF f \in fields THEN H(e[f]) ELSE e[f]]
MapArray(a, F(_)) == IF a = NULL THEN NULL ELSE [i \in DOMAIN a |-> F(a[i])]

LiftId(i)   == IF i = 0 THEN NullHandle ELSE Obj(i)
NativeId(i) == IF i = 0 THEN NullHandle ELSE Native(i)

WdsWith(v, H(_)) ==
  [MapHandles(v, H, {"dstSet"}) EXCEPT
     !.pImageInfo       = MapArray(@, LAMBDA e : MapHandles(e, H, {"sampler", "imageView"})),
     !.pBufferInfo      = MapArray(@, LAMBDA e : MapHandles(e, H, {"buffer"})),
     !.pTexelBufferView = MapArray(@, H)]

(* Every wire id a guest WriteDescriptorSet carries. *)
IdsOfWds(v) ==
  {v.dstSet}
  \cup (IF v.pImageInfo = NULL THEN {}
        ELSE UNION {{e.sampler, e.imageView} : e \in ToSet(v.pImageInfo)})
  \cup (IF v.pBufferInfo = NULL THEN {} ELSE {e.buffer : e \in ToSet(v.pBufferInfo)})
  \cup (IF v.pTexelBufferView = NULL THEN {} ELSE ToSet(v.pTexelBufferView))

(* Arena units the decoder needs: one per link, one per array element. *)
RECURSIVE ChainUnits(_)
ChainUnits(p) ==
  IF p = NULL THEN 0
  ELSE 1 + ChainUnits(p.pNext) + (IF p.pData = NULL THEN 0 ELSE Len(p.pData))

ArrayUnits(a) == IF a = NULL THEN 0 ELSE Len(a)

UnitsOfWds(v) ==
  ChainUnits(v.pNext) + ArrayUnits(v.pImageInfo) + ArrayUnits(v.pBufferInfo)
  + ArrayUnits(v.pTexelBufferView)

----------------------------------------------------------------------------
(* Bounded sets of guest values: ids from Ids, scalars from Vals, arrays  *)
(* as long as their count field (the guest always sends count elements).  *)

OptSeqOf(S, n) == {NULL} \cup [1 .. n -> S]

RECURSIVE WdsChains(_, _)
WdsChains(depth, Vals) ==
  {NULL} \cup
  (IF depth = 0 THEN {}
   ELSE UNION {{[sType    |-> VK_STRUCTURE_TYPE_WRITE_DESCRIPTOR_SET_INLINE_UNIFORM_BLOCK,
                 pNext    |-> nx, dataSize |-> Len(data), pData |-> data]
                : data \in OptSeqOf(Vals, 1) \ {NULL}}
               : nx \in WdsChains(depth - 1, Vals)})

GuestWriteDescriptorSets(Ids, Vals, Counts, Depth) ==
  UNION {
    {[sType |-> VK_STRUCTURE_TYPE_WRITE_DESCRIPTOR_SET, pNext |-> nx,
      dstSet |-> set, dstBinding |-> 0, dstArrayElement |-> 0,
      descriptorCount |-> c, descriptorType |-> 0,
      pImageInfo |-> img, pBufferInfo |-> buf, pTexelBufferView |-> tex]
     : nx  \in WdsChains(Depth, Vals),
       set \in Ids,
       img \in OptSeqOf([sampler : Ids, imageView : Ids, imageLayout : Vals], c),
       buf \in OptSeqOf([buffer : Ids, offset : Vals, range : Vals], c),
       tex \in OptSeqOf(Ids, c)}
    : c \in Counts}

----------------------------------------------------------------------------
(* The VkMemoryRequirements2 query.  Spec 4.1: the chain walk stops at the *)
(* first link of a type the struct does not know ("truncate the chain").  *)
(* A query sends only the skeleton; the reply carries every field.         *)

(* VK_STRUCTURE_TYPE_PHYSICAL_DEVICE_FEATURES_2: a valid sType that is not *)
(* a known extension of VkMemoryRequirements2.                             *)
ForeignSType == 1000059000

RECURSIVE WireOfMr2Chain(_, _)
WireOfMr2Chain(p, full) ==
  IF p = NULL \/ p.sType # VK_STRUCTURE_TYPE_MEMORY_DEDICATED_REQUIREMENTS
  THEN <<ABSENT>>
  ELSE <<PRESENT, p.sType>> \o WireOfMr2Chain(p.pNext, full)
       \o (IF full THEN <<p.prefersDedicatedAllocation, p.requiresDedicatedAllocation>>
                   ELSE <<>>)

WireOfMemoryRequirements2Query(v) ==
  <<VK_STRUCTURE_TYPE_MEMORY_REQUIREMENTS_2>> \o WireOfMr2Chain(v.pNext, FALSE)

WireOfMemoryRequirements2Reply(v) ==
  <<VK_STRUCTURE_TYPE_MEMORY_REQUIREMENTS_2>> \o WireOfMr2Chain(v.pNext, TRUE)
  \o <<v.memoryRequirements.size, v.memoryRequirements.alignment,
       v.memoryRequirements.memoryTypeBits>>

(* The links of a chain as far as the wire carries them. *)
RECURSIVE KnownMr2Chain(_)
KnownMr2Chain(p) ==
  IF p = NULL \/ p.sType # VK_STRUCTURE_TYPE_MEMORY_DEDICATED_REQUIREMENTS THEN NULL
  ELSE [p EXCEPT !.pNext = KnownMr2Chain(p.pNext),
                 !.prefersDedicatedAllocation = UNINIT,
                 !.requiresDedicatedAllocation = UNINIT]

RECURSIVE ChainLength(_)
ChainLength(p) == IF p = NULL THEN 0 ELSE 1 + ChainLength(p.pNext)

(* What the renderer's partial decode must yield: the known links, every  *)
(* output field unwritten.                                                 *)
Mr2Skeleton(v) ==
  [sType |-> v.sType, pNext |-> KnownMr2Chain(v.pNext), memoryRequirements |-> UNINIT]

(* Application chains of up to Depth links, each known or foreign. *)
RECURSIVE Mr2Chains(_)
Mr2Chains(depth) ==
  {NULL} \cup
  (IF depth = 0 THEN {}
   ELSE {[sType |-> t, pNext |-> nx,
          prefersDedicatedAllocation |-> 0, requiresDedicatedAllocation |-> 0]
         : t \in {VK_STRUCTURE_TYPE_MEMORY_DEDICATED_REQUIREMENTS, ForeignSType},
           nx \in Mr2Chains(depth - 1)})

GuestMemoryRequirements2(Depth) ==
  {[sType |-> VK_STRUCTURE_TYPE_MEMORY_REQUIREMENTS_2, pNext |-> nx,
    memoryRequirements |-> [size |-> 0, alignment |-> 0, memoryTypeBits |-> 0]]
   : nx \in Mr2Chains(Depth)}

----------------------------------------------------------------------------
(* Chain-capable structs with no known extension: sType, an absent pNext  *)
(* marker, the fields.  A guest sends an array of count elements.         *)

WireOfNoneChain(stype, fields) == <<stype, ABSENT>> \o fields

WireOfShaderModuleCreateInfo(v) ==
  WireOfNoneChain(VK_STRUCTURE_TYPE_SHADER_MODULE_CREATE_INFO,
                  <<v.flags, v.codeSize>> \o WireOfArray(v.pCode, Tok))

WireOfSamplerYcbcrConversionInfo(v) ==
  WireOfNoneChain(VK_STRUCTURE_TYPE_SAMPLER_YCBCR_CONVERSION_INFO, <<v.conversion>>)

WireOfMutableList(l) == <<l.descriptorTypeCount>> \o WireOfArray(l.pDescriptorTypes, Tok)

WireOfMutableDescriptorTypeCreateInfoEXT(v) ==
  WireOfNoneChain(VK_STRUCTURE_TYPE_MUTABLE_DESCRIPTOR_TYPE_CREATE_INFO_EXT,
                  <<v.mutableDescriptorTypeListCount>>
                  \o WireOfArray(v.pMutableDescriptorTypeLists, WireOfMutableList))

WireOfImageFormatListCreateInfo(v) ==
  WireOfNoneChain(VK_STRUCTURE_TYPE_IMAGE_FORMAT_LIST_CREATE_INFO,
                  <<v.viewFormatCount>> \o WireOfArray(v.pViewFormats, Tok))

WireOfMemoryBarrier2(v) ==
  WireOfNoneChain(VK_STRUCTURE_TYPE_MEMORY_BARRIER_2,
                  <<v.srcStageMask, v.srcAccessMask, v.dstStageMask, v.dstAccessMask>>)

WireOfSemaphoreTypeCreateInfo(v) ==
  WireOfNoneChain(VK_STRUCTURE_TYPE_SEMAPHORE_TYPE_CREATE_INFO,
                  <<v.semaphoreType, v.initialValue>>)

WireOfImageStencilUsageCreateInfo(v) ==
  WireOfNoneChain(VK_STRUCTURE_TYPE_IMAGE_STENCIL_USAGE_CREATE_INFO, <<v.stencilUsage>>)

GuestShaderModules(CodeSizes, Vals) ==
  UNION {{[sType |-> VK_STRUCTURE_TYPE_SHADER_MODULE_CREATE_INFO, pNext |-> NULL,
           flags |-> 0, codeSize |-> c, pCode |-> code]
          : code \in [1 .. c \div 4 -> Vals]}
         : c \in CodeSizes}

GuestYcbcrInfos(Ids) ==
  {[sType |-> VK_STRUCTURE_TYPE_SAMPLER_YCBCR_CONVERSION_INFO, pNext |-> NULL,
    conversion |-> i] : i \in Ids}

GuestMutableLists(Counts, Vals) ==
  UNION {{[descriptorTypeCount |-> c, pDescriptorTypes |-> t] : t \in OptSeqOf(Vals, c)}
         : c \in Counts}

GuestMutableInfos(Counts, Vals) ==
  UNION {{[sType |-> VK_STRUCTURE_TYPE_MUTABLE_DESCRIPTOR_TYPE_CREATE_INFO_EXT,
           pNext |-> NULL, mutableDescriptorTypeListCount |-> c,
           pMutableDescriptorTypeLists |-> ls]
          : ls \in OptSeqOf(GuestMutableLists(Counts, Vals), c)}
         : c \in Counts}

GuestImageFormatLists(Counts, Vals) ==
  UNION {{[sType |-> VK_STRUCTURE_TYPE_IMAGE_FORMAT_LIST_CREATE_INFO, pNext |-> NULL,
           viewFormatCount |-> c, pViewFormats |-> f] : f \in OptSeqOf(Vals, c)}
         : c \in Counts}

GuestMemoryBarriers(Vals) ==
  {[sType |-> VK_STRUCTURE_TYPE_MEMORY_BARRIER_2, pNext |-> NULL,
    srcStageMask |-> a, srcAccessMask |-> b, dstStageMask |-> c, dstAccessMask |-> e]
   : a, b, c, e \in Vals}

GuestSemaphoreTypes(Vals) ==
  {[sType |-> VK_STRUCTURE_TYPE_SEMAPHORE_TYPE_CREATE_INFO, pNext |-> NULL,
    semaphoreType |-> t, initialValue |-> x] : t, x \in Vals}

GuestStencilUsages(Vals) ==
  {[sType |-> VK_STRUCTURE_TYPE_IMAGE_STENCIL_USAGE_CREATE_INFO, pNext |-> NULL,
    stencilUsage |-> u] : u \in Vals}

----------------------------------------------------------------------------
(* Per command kind: the guest's wire, the ids it names, the arena units  *)
(* it needs and the struct the renderer must decode from it.              *)

WireOf(kind, g) ==
  CASE kind = "WriteDescriptorSet"                 -> WireOfWriteDescriptorSet(g)
    [] kind = "GetMemoryRequirements2"             -> WireOfMemoryRequirements2Query(g)
    [] kind = "ShaderModuleCreateInfo"             -> WireOfShaderModuleCreateInfo(g)
    [] kind = "SamplerYcbcrConversionInfo"         -> WireOfSamplerYcbcrConversionInfo(g)
    [] kind = "MutableDescriptorTypeCreateInfoEXT" -> WireOfMutableDescriptorTypeCreateInfoEXT(g)
    [] kind = "ImageFormatListCreateInfo"          -> WireOfImageFormatListCreateInfo(g)
    [] kind = "MemoryBarrier2"                     -> WireOfMemoryBarrier2(g)
    [] kind = "SemaphoreTypeCreateInfo"            -> WireOfSemaphoreTypeCreateInfo(g)
    [] kind = "ImageStencilUsageCreateInfo"        -> WireOfImageStencilUsageCreateInfo(g)

GuestIds(kind, g) ==
  CASE kind = "WriteDescriptorSet"         -> IdsOfWds(g)
    [] kind = "SamplerYcbcrConversionInfo" -> {g.conversion}
    [] OTHER                               -> {}

GuestUnits(kind, g) ==
  CASE kind = "WriteDescriptorSet"     -> UnitsOfWds(g)
    [] kind = "GetMemoryRequirements2" -> ChainLength(KnownMr2Chain(g.pNext))
    [] kind = "ShaderModuleCreateInfo" -> ArrayUnits(g.pCode)
    [] kind = "MutableDescriptorTypeCreateInfoEXT" ->
         LET ls == g.pMutableDescriptorTypeLists
         IN  ArrayUnits(ls) + (IF ls = NULL THEN 0
                               ELSE FoldSeq(LAMBDA l, acc : acc + ArrayUnits(l.pDescriptorTypes), 0, ls))
    [] kind = "ImageFormatListCreateInfo" -> ArrayUnits(g.pViewFormats)
    [] OTHER -> 0

Decoded(kind, g) ==
  CASE kind = "WriteDescriptorSet"         -> WdsWith(g, LiftId)
    [] kind = "GetMemoryRequirements2"     -> Mr2Skeleton(g)
    [] kind = "SamplerYcbcrConversionInfo" -> [g EXCEPT !.conversion = LiftId(@)]
    [] OTHER                               -> g
=============================================================================
