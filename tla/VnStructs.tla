------------------------------ MODULE VnStructs ------------------------------
(***************************************************************************)
(* The generated per-struct functions of vn_protocol_renderer_structs.h:   *)
(* decode (_temp), partial decode (_partial_temp), encode and handle       *)
(* replacement, each an operator over the primitives of VnCs.  A struct    *)
(* value is a record with the C field names; a pointer field holds NULL,   *)
(* UNINIT (allocated or stack storage never written) or the pointee (a     *)
(* record for a pNext link, a sequence for an array).                      *)
(*                                                                         *)
(* A replace operator returns [val |-> struct', oob |-> b1, uninit |-> b2] *)
(* where oob records that a loop indexed past the array the decoder        *)
(* allocated and uninit that a pointer never written was followed.         *)
(***************************************************************************)
EXTENDS VnCs

(* VkStructureType values of the chain-capable structs modelled. *)
VK_STRUCTURE_TYPE_WRITE_DESCRIPTOR_SET                     == 35
VK_STRUCTURE_TYPE_WRITE_DESCRIPTOR_SET_INLINE_UNIFORM_BLOCK == 1000138002
VK_STRUCTURE_TYPE_MEMORY_REQUIREMENTS_2                    == 1000146003
VK_STRUCTURE_TYPE_MEMORY_DEDICATED_REQUIREMENTS            == 1000127000
VK_STRUCTURE_TYPE_SHADER_MODULE_CREATE_INFO                == 16
VK_STRUCTURE_TYPE_SEMAPHORE_TYPE_CREATE_INFO               == 1000207002
VK_STRUCTURE_TYPE_IMAGE_FORMAT_LIST_CREATE_INFO            == 1000147000
VK_STRUCTURE_TYPE_IMAGE_STENCIL_USAGE_CREATE_INFO          == 1000246000
VK_STRUCTURE_TYPE_SAMPLER_YCBCR_CONVERSION_INFO            == 1000156001
VK_STRUCTURE_TYPE_MUTABLE_DESCRIPTOR_TYPE_CREATE_INFO_EXT  == 1000351002
VK_STRUCTURE_TYPE_MEMORY_BARRIER_2                         == 1000314000

----------------------------------------------------------------------------
(* Shared shapes of the generated code. *)

(* The optional-array block emitted for a pointer field paired with a     *)
(* count field:                                                            *)
(*   if (vn_peek_array_size(dec)) {                                       *)
(*       n = vn_decode_array_size(dec, max); p = alloc(n);                *)
(*       if (!p) return;  decode n elements  }                            *)
(*   else { vn_decode_array_size[_unchecked](dec, max); p = NULL; }       *)
(* ok = FALSE is the early return out of the enclosing function.  The     *)
(* checked and unchecked size reads agree on an absent marker.            *)
DecodeArrayField(d, max, Elem(_)) ==
  IF vn_peek_array_size(d)
  THEN LET n == vn_decode_array_size(d, max)
           a == vn_cs_decoder_alloc_temp(n.dec, n.val)
           e == vn_decode_array(a.dec, n.val, Elem)
       IN  IF a.val THEN [dec |-> e.dec, val |-> e.val, ok |-> TRUE]
                    ELSE [dec |-> a.dec, val |-> NULL, ok |-> FALSE]
  ELSE [dec |-> vn_decode_array_size_unchecked(d).dec, val |-> NULL, ok |-> TRUE]

(* if (p) for (i = 0; i < count; i++) R(&p[i]); *)
ReplaceArrayField(p, count, R(_)) ==
  CASE p = NULL   -> [val |-> p, oob |-> FALSE, uninit |-> FALSE]
    [] p = UNINIT -> [val |-> p, oob |-> FALSE, uninit |-> TRUE]
    [] OTHER      -> [val    |-> [i \in DOMAIN p |-> IF i <= count THEN R(p[i]) ELSE p[i]],
                      oob    |-> count > Len(p),
                      uninit |-> FALSE]

(* The pNext decoder of a struct with no known extension: a present link  *)
(* is a protocol violation.                                                *)
vn_decode_pnext_none_temp(d) ==
  LET p == vn_decode_simple_pointer(d)
  IN  Result(IF p.val THEN vn_cs_decoder_set_fatal(p.dec) ELSE p.dec, NULL)

(* The sType check that opens every chain-capable _temp decoder. *)
DecodeSType(d, expected) ==
  LET t == vn_decode_scalar(d)
  IN  Result(IF t.val # expected THEN vn_cs_decoder_set_fatal(t.dec) ELSE t.dec, t.val)

----------------------------------------------------------------------------
(* Fixed-layout structs: one scalar per field, in declaration order.  A    *)
(* field list is a sequence of field names; a nested struct field is      *)
(* decoded by its own operator.                                            *)

(* vn_decode_<scalar> for each name in turn, into a record. *)
DecodeFields(d, names) ==
  LET r == vn_decode_scalar_array(d, Len(names))
  IN  Result(r.dec, [f \in ToSet(names) |->
                       r.val[CHOOSE i \in DOMAIN names : names[i] = f]])

(* vn_encode_<scalar> for each name in turn. *)
EncodeFields(v, names) == [i \in DOMAIN names |-> v[names[i]]]

Extent3DFields          == <<"width", "height", "depth">>
Offset2DFields          == <<"x", "y">>
Extent2DFields          == <<"width", "height">>
ComponentMappingFields  == <<"r", "g", "b", "a">>
ImageSubresourceFields  == <<"aspectMask", "mipLevel", "arrayLayer">>
Offset3DFields          == <<"x", "y", "z">>
SubresourceRangeFields  == <<"aspectMask", "baseMipLevel", "levelCount",
                            "baseArrayLayer", "layerCount">>
ViewportFields          == <<"x", "y", "width", "height", "minDepth", "maxDepth">>

vn_encode_VkExtent3D(v)        == EncodeFields(v, Extent3DFields)
vn_decode_VkExtent3D_temp(d)   == DecodeFields(d, Extent3DFields)
(* "skip val->width ... depth": no token is read and nothing is written. *)
vn_decode_VkExtent3D_partial_temp(d, v) == Result(d, v)

vn_decode_VkImageSubresource_temp(d)      == DecodeFields(d, ImageSubresourceFields)
vn_decode_VkOffset3D_temp(d)              == DecodeFields(d, Offset3DFields)
vn_decode_VkImageSubresourceRange_temp(d) == DecodeFields(d, SubresourceRangeFields)
vn_decode_VkViewport_temp(d)              == DecodeFields(d, ViewportFields)

vn_encode_VkComponentMapping(v)               == EncodeFields(v, ComponentMappingFields)
vn_decode_VkComponentMapping_temp(d)          == DecodeFields(d, ComponentMappingFields)
vn_decode_VkComponentMapping_partial_temp(d, v) == Result(d, v)

vn_encode_VkOffset2D(v)               == EncodeFields(v, Offset2DFields)
vn_decode_VkOffset2D_temp(d)          == DecodeFields(d, Offset2DFields)
vn_decode_VkOffset2D_partial_temp(d, v) == Result(d, v)

vn_encode_VkExtent2D(v)               == EncodeFields(v, Extent2DFields)
vn_decode_VkExtent2D_temp(d)          == DecodeFields(d, Extent2DFields)
vn_decode_VkExtent2D_partial_temp(d, v) == Result(d, v)

vn_encode_VkRect2D(v) == vn_encode_VkOffset2D(v.offset) \o vn_encode_VkExtent2D(v.extent)

vn_decode_VkRect2D_temp(d) ==
  LET o == vn_decode_VkOffset2D_temp(d)
      e == vn_decode_VkExtent2D_temp(o.dec)
  IN  Result(e.dec, [offset |-> o.val, extent |-> e.val])

vn_decode_VkRect2D_partial_temp(d, v) ==
  LET o == vn_decode_VkOffset2D_partial_temp(d, v.offset)
      e == vn_decode_VkExtent2D_partial_temp(o.dec, v.extent)
  IN  Result(e.dec, [offset |-> o.val, extent |-> e.val])

vn_encode_VkSparseImageFormatProperties(v) ==
  <<v.aspectMask>> \o vn_encode_VkExtent3D(v.imageGranularity) \o <<v.flags>>

vn_decode_VkSparseImageFormatProperties_partial_temp(d, v) ==
  LET g == vn_decode_VkExtent3D_partial_temp(d, v.imageGranularity)
  IN  Result(g.dec, [v EXCEPT !.imageGranularity = g.val])

(* A fixed char/number array of capacity Cap: n elements are decoded into *)
(* its first n slots; the slots after them keep what they held.           *)
DecodeIntoFixedArray(d, n, old) ==
  LET r == vn_decode_scalar_array(d, n)
  IN  Result(r.dec, [i \in DOMAIN old |-> IF i <= n THEN r.val[i] ELSE old[i]])

VK_MAX_EXTENSION_NAME_SIZE == 256

vn_encode_VkExtensionProperties(v) ==
  vn_encode_array_size(VK_MAX_EXTENSION_NAME_SIZE) \o v.extensionName \o <<v.specVersion>>

(* The destination starts as storage nobody wrote. *)
vn_decode_VkExtensionProperties_temp(d) ==
  LET n == vn_decode_array_size(d, VK_MAX_EXTENSION_NAME_SIZE)
      c == DecodeIntoFixedArray(n.dec, n.val,
                                [i \in 1 .. VK_MAX_EXTENSION_NAME_SIZE |-> UNINIT])
      s == vn_decode_scalar(c.dec)
  IN  Result(s.dec, [extensionName |-> c.val, specVersion |-> s.val])

vn_decode_VkExtensionProperties_partial_temp(d, v) == Result(d, v)

(* The union: a tag selects the member; each member is a 4-element array  *)
(* sent with a size marker checked against 4.  An unknown tag is fatal.   *)
(* The three members share the union's 16 bytes, the value here; the tag *)
(* is a local of the decoder and is not stored.                            *)
vn_decode_VkClearColorValue_temp(d) ==
  LET t     == vn_decode_scalar(d)
      n     == vn_decode_array_size(t.dec, 4)
      blank == [i \in 1 .. 4 |-> UNINIT]
  IN  IF t.val \in {0, 1, 2}
      THEN DecodeIntoFixedArray(n.dec, n.val, blank)
      ELSE Result(vn_cs_decoder_set_fatal(t.dec), blank)

----------------------------------------------------------------------------
(* Chain-capable structs whose pNext decoder knows no extension.           *)

(* X_temp: sType check, X_pnext_temp (always NULL, fatal on a link), then *)
(* X_self_temp into storage nobody wrote.                                  *)
DecodeNoneChainTemp(d, stype, fields, Self(_, _)) ==
  LET t == DecodeSType(d, stype)
      p == vn_decode_pnext_none_temp(t.dec)
  IN  Self(p.dec, [[f \in fields |-> UNINIT] EXCEPT !.sType = t.val, !.pNext = p.val])

NoReplace(v) == [val |-> v, oob |-> FALSE, uninit |-> FALSE]

(* X_handle: the do-while walk over the chain from the struct itself,     *)
(* applying X_handle_self where the sType is X's and skipping other       *)
(* links.  A struct this module decodes has pNext = NULL, so the walk     *)
(* visits the struct alone.                                                *)
ReplaceNoneChain(v, stype, Self(_)) == IF v.sType = stype THEN Self(v) ELSE NoReplace(v)

vn_decode_VkSemaphoreTypeCreateInfo_self_temp(d, v) ==
  LET r == vn_decode_scalar_array(d, 2)
  IN  Result(r.dec, [v EXCEPT !.semaphoreType = r.val[1], !.initialValue = r.val[2]])

vn_decode_VkSemaphoreTypeCreateInfo_temp(d) ==
  DecodeNoneChainTemp(d, VK_STRUCTURE_TYPE_SEMAPHORE_TYPE_CREATE_INFO,
                      {"sType", "pNext", "semaphoreType", "initialValue"},
                      vn_decode_VkSemaphoreTypeCreateInfo_self_temp)

(* Every field is skipped. *)
vn_replace_VkSemaphoreTypeCreateInfo_handle(v) ==
  ReplaceNoneChain(v, VK_STRUCTURE_TYPE_SEMAPHORE_TYPE_CREATE_INFO, NoReplace)

vn_decode_VkImageFormatListCreateInfo_self_temp(d, v) ==
  LET n == vn_decode_scalar(d)
      a == DecodeArrayField(n.dec, n.val, vn_decode_scalar)
  IN  Result(a.dec, [v EXCEPT !.viewFormatCount = n.val, !.pViewFormats = a.val])

vn_decode_VkImageFormatListCreateInfo_temp(d) ==
  DecodeNoneChainTemp(d, VK_STRUCTURE_TYPE_IMAGE_FORMAT_LIST_CREATE_INFO,
                      {"sType", "pNext", "viewFormatCount", "pViewFormats"},
                      vn_decode_VkImageFormatListCreateInfo_self_temp)

(* Every field is skipped; pViewFormats is not walked. *)
vn_replace_VkImageFormatListCreateInfo_handle(v) ==
  ReplaceNoneChain(v, VK_STRUCTURE_TYPE_IMAGE_FORMAT_LIST_CREATE_INFO, NoReplace)

vn_decode_VkImageStencilUsageCreateInfo_self_temp(d, v) ==
  LET u == vn_decode_scalar(d) IN Result(u.dec, [v EXCEPT !.stencilUsage = u.val])

vn_decode_VkImageStencilUsageCreateInfo_temp(d) ==
  DecodeNoneChainTemp(d, VK_STRUCTURE_TYPE_IMAGE_STENCIL_USAGE_CREATE_INFO,
                      {"sType", "pNext", "stencilUsage"},
                      vn_decode_VkImageStencilUsageCreateInfo_self_temp)

vn_replace_VkImageStencilUsageCreateInfo_handle(v) ==
  ReplaceNoneChain(v, VK_STRUCTURE_TYPE_IMAGE_STENCIL_USAGE_CREATE_INFO, NoReplace)

vn_decode_VkSamplerYcbcrConversionInfo_self_temp(d, v) ==
  LET c == vn_decode_handle_lookup(d) IN Result(c.dec, [v EXCEPT !.conversion = c.val])

vn_decode_VkSamplerYcbcrConversionInfo_temp(d) ==
  DecodeNoneChainTemp(d, VK_STRUCTURE_TYPE_SAMPLER_YCBCR_CONVERSION_INFO,
                      {"sType", "pNext", "conversion"},
                      vn_decode_VkSamplerYcbcrConversionInfo_self_temp)

vn_replace_VkSamplerYcbcrConversionInfo_handle_self(v) ==
  NoReplace([v EXCEPT !.conversion = vn_replace_handle(@)])

vn_replace_VkSamplerYcbcrConversionInfo_handle(v) ==
  ReplaceNoneChain(v, VK_STRUCTURE_TYPE_SAMPLER_YCBCR_CONVERSION_INFO,
                   vn_replace_VkSamplerYcbcrConversionInfo_handle_self)

(* pCode is bounded by codeSize / 4 words, rounded down. *)
vn_decode_VkShaderModuleCreateInfo_self_temp(d, v) ==
  LET f == vn_decode_scalar(d)
      c == vn_decode_scalar(f.dec)
      a == DecodeArrayField(c.dec, c.val \div 4, vn_decode_scalar)
  IN  Result(a.dec, [v EXCEPT !.flags = f.val, !.codeSize = c.val, !.pCode = a.val])

vn_decode_VkShaderModuleCreateInfo_temp(d) ==
  DecodeNoneChainTemp(d, VK_STRUCTURE_TYPE_SHADER_MODULE_CREATE_INFO,
                      {"sType", "pNext", "flags", "codeSize", "pCode"},
                      vn_decode_VkShaderModuleCreateInfo_self_temp)

(* Every field is skipped. *)
vn_replace_VkShaderModuleCreateInfo_handle(v) ==
  ReplaceNoneChain(v, VK_STRUCTURE_TYPE_SHADER_MODULE_CREATE_INFO, NoReplace)

(* An element's early return leaves the loop of its caller running. *)
vn_decode_VkMutableDescriptorTypeListEXT_temp(d) ==
  LET n == vn_decode_scalar(d)
      a == DecodeArrayField(n.dec, n.val, vn_decode_scalar)
  IN  Result(a.dec, [descriptorTypeCount |-> n.val, pDescriptorTypes |-> a.val])

vn_decode_VkMutableDescriptorTypeCreateInfoEXT_self_temp(d, v) ==
  LET n == vn_decode_scalar(d)
      a == DecodeArrayField(n.dec, n.val, vn_decode_VkMutableDescriptorTypeListEXT_temp)
  IN  Result(a.dec, [v EXCEPT !.mutableDescriptorTypeListCount = n.val,
                              !.pMutableDescriptorTypeLists = a.val])

vn_decode_VkMutableDescriptorTypeCreateInfoEXT_temp(d) ==
  DecodeNoneChainTemp(d, VK_STRUCTURE_TYPE_MUTABLE_DESCRIPTOR_TYPE_CREATE_INFO_EXT,
                      {"sType", "pNext", "mutableDescriptorTypeListCount",
                       "pMutableDescriptorTypeLists"},
                      vn_decode_VkMutableDescriptorTypeCreateInfoEXT_self_temp)

(* The element loop runs to the count, but the element replace touches    *)
(* nothing, so no element is read.                                         *)
vn_replace_VkMutableDescriptorTypeCreateInfoEXT_handle(v) ==
  ReplaceNoneChain(v, VK_STRUCTURE_TYPE_MUTABLE_DESCRIPTOR_TYPE_CREATE_INFO_EXT, NoReplace)

vn_decode_VkMemoryBarrier2_self_temp(d, v) ==
  LET r == vn_decode_scalar_array(d, 4)
  IN  Result(r.dec, [v EXCEPT !.srcStageMask = r.val[1], !.srcAccessMask = r.val[2],
                              !.dstStageMask = r.val[3], !.dstAccessMask = r.val[4]])

vn_decode_VkMemoryBarrier2_temp(d) ==
  DecodeNoneChainTemp(d, VK_STRUCTURE_TYPE_MEMORY_BARRIER_2,
                      {"sType", "pNext", "srcStageMask", "srcAccessMask",
                       "dstStageMask", "dstAccessMask"},
                      vn_decode_VkMemoryBarrier2_self_temp)

vn_replace_VkMemoryBarrier2_handle(v) ==
  ReplaceNoneChain(v, VK_STRUCTURE_TYPE_MEMORY_BARRIER_2, NoReplace)

----------------------------------------------------------------------------
(* VkDescriptorImageInfo, VkDescriptorBufferInfo *)

vn_decode_VkDescriptorImageInfo_temp(d) ==
  LET s == vn_decode_handle_lookup(d)
      v == vn_decode_handle_lookup(s.dec)
      l == vn_decode_scalar(v.dec)
  IN  Result(l.dec, [sampler |-> s.val, imageView |-> v.val, imageLayout |-> l.val])

vn_replace_VkDescriptorImageInfo_handle(e) ==
  [e EXCEPT !.sampler = vn_replace_handle(@), !.imageView = vn_replace_handle(@)]

vn_decode_VkDescriptorBufferInfo_temp(d) ==
  LET b == vn_decode_handle_lookup(d)
      r == vn_decode_scalar_array(b.dec, 2)
  IN  Result(r.dec, [buffer |-> b.val, offset |-> r.val[1], range |-> r.val[2]])

vn_replace_VkDescriptorBufferInfo_handle(e) ==
  [e EXCEPT !.buffer = vn_replace_handle(@)]

----------------------------------------------------------------------------
(* VkWriteDescriptorSetInlineUniformBlock: the one known pNext link of    *)
(* VkWriteDescriptorSet.                                                   *)

vn_decode_VkWriteDescriptorSetInlineUniformBlock_self_temp(d, v) ==
  LET n == vn_decode_scalar(d)
      a == DecodeArrayField(n.dec, n.val, vn_decode_scalar)
  IN  Result(a.dec, [v EXCEPT !.dataSize = n.val, !.pData = a.val])

----------------------------------------------------------------------------
(* VkWriteDescriptorSet *)

WriteDescriptorSetFields ==
  {"sType", "pNext", "dstSet", "dstBinding", "dstArrayElement",
   "descriptorCount", "descriptorType", "pImageInfo", "pBufferInfo",
   "pTexelBufferView"}

(* A link is decoded into arena storage: the rest of the chain first, then *)
(* the link's own fields.  Allocation failure abandons the rest.           *)
RECURSIVE vn_decode_VkWriteDescriptorSet_pnext_temp(_)
vn_decode_VkWriteDescriptorSet_pnext_temp(d) ==
  LET p == vn_decode_simple_pointer(d)
      t == vn_decode_scalar(p.dec)
      a == vn_cs_decoder_alloc_temp(t.dec, 1)
      n == vn_decode_VkWriteDescriptorSet_pnext_temp(a.dec)
  IN  CASE ~p.val -> Result(p.dec, NULL)
        [] t.val # VK_STRUCTURE_TYPE_WRITE_DESCRIPTOR_SET_INLINE_UNIFORM_BLOCK ->
              Result(vn_cs_decoder_set_fatal(t.dec), NULL)
        [] ~a.val -> Result(a.dec, NULL)
        [] OTHER ->
              vn_decode_VkWriteDescriptorSetInlineUniformBlock_self_temp(n.dec,
                 [sType |-> t.val, pNext |-> n.val, dataSize |-> UNINIT, pData |-> UNINIT])

(* Mutant: the decoder stops after pBufferInfo and never reads the texel *)
(* buffer view array.                                                       *)
wds_self_temp_skip_texel_views(d, v) ==
  LET s   == vn_decode_handle_lookup(d)
      f   == vn_decode_scalar_array(s.dec, 4)
      cnt == f.val[3]
      v1  == [v EXCEPT !.dstSet = s.val, !.dstBinding = f.val[1],
                       !.dstArrayElement = f.val[2], !.descriptorCount = cnt,
                       !.descriptorType = f.val[4]]
      img == DecodeArrayField(f.dec, cnt, vn_decode_VkDescriptorImageInfo_temp)
      v2  == [v1 EXCEPT !.pImageInfo = img.val]
      buf == DecodeArrayField(img.dec, cnt, vn_decode_VkDescriptorBufferInfo_temp)
      v3  == [v2 EXCEPT !.pBufferInfo = buf.val]
  IN  CASE ~img.ok -> Result(img.dec, v2)
        [] OTHER   -> Result(buf.dec, v3)

vn_decode_VkWriteDescriptorSet_self_temp(d, v) ==
  LET s   == vn_decode_handle_lookup(d)
      f   == vn_decode_scalar_array(s.dec, 4)
      cnt == f.val[3]
      v1  == [v EXCEPT !.dstSet = s.val, !.dstBinding = f.val[1],
                       !.dstArrayElement = f.val[2], !.descriptorCount = cnt,
                       !.descriptorType = f.val[4]]
      img == DecodeArrayField(f.dec, cnt, vn_decode_VkDescriptorImageInfo_temp)
      v2  == [v1 EXCEPT !.pImageInfo = img.val]
      buf == DecodeArrayField(img.dec, cnt, vn_decode_VkDescriptorBufferInfo_temp)
      v3  == [v2 EXCEPT !.pBufferInfo = buf.val]
      tex == DecodeArrayField(buf.dec, cnt, vn_decode_handle_lookup)
  IN  CASE ~img.ok -> Result(img.dec, v2)
        [] ~buf.ok -> Result(buf.dec, v3)
        [] OTHER   -> Result(tex.dec, [v3 EXCEPT !.pTexelBufferView = tex.val])

(* The destination starts as storage nobody wrote. *)
vn_decode_VkWriteDescriptorSet_temp(d) ==
  LET t == DecodeSType(d, VK_STRUCTURE_TYPE_WRITE_DESCRIPTOR_SET)
      p == vn_decode_VkWriteDescriptorSet_pnext_temp(t.dec)
  IN  vn_decode_VkWriteDescriptorSet_self_temp(p.dec,
        [[f \in WriteDescriptorSetFields |-> UNINIT]
           EXCEPT !.sType = t.val, !.pNext = p.val])

(* Mutant: the replace pass forgets the dstSet handle. *)
wds_replace_self_keep_dst_set(v) ==
  LET i == ReplaceArrayField(v.pImageInfo, v.descriptorCount,
                             vn_replace_VkDescriptorImageInfo_handle)
      b == ReplaceArrayField(v.pBufferInfo, v.descriptorCount,
                             vn_replace_VkDescriptorBufferInfo_handle)
      t == ReplaceArrayField(v.pTexelBufferView, v.descriptorCount,
                             vn_replace_handle)
  IN  [val    |-> [v EXCEPT !.pImageInfo = i.val,
                            !.pBufferInfo = b.val, !.pTexelBufferView = t.val],
       oob    |-> i.oob \/ b.oob \/ t.oob,
       uninit |-> i.uninit \/ b.uninit \/ t.uninit]

vn_replace_VkWriteDescriptorSet_handle_self(v) ==
  LET i == ReplaceArrayField(v.pImageInfo, v.descriptorCount,
                             vn_replace_VkDescriptorImageInfo_handle)
      b == ReplaceArrayField(v.pBufferInfo, v.descriptorCount,
                             vn_replace_VkDescriptorBufferInfo_handle)
      t == ReplaceArrayField(v.pTexelBufferView, v.descriptorCount,
                             vn_replace_handle)
  IN  [val    |-> [v EXCEPT !.dstSet = vn_replace_handle(@), !.pImageInfo = i.val,
                            !.pBufferInfo = b.val, !.pTexelBufferView = t.val],
       oob    |-> i.oob \/ b.oob \/ t.oob,
       uninit |-> i.uninit \/ b.uninit \/ t.uninit]

(* The do/while over the chain starting at the struct itself: a known     *)
(* sType gets its _handle_self, an unknown one is skipped.  The inline     *)
(* uniform block's _handle_self touches nothing.                           *)
RECURSIVE vn_replace_VkWriteDescriptorSet_handle(_)
vn_replace_VkWriteDescriptorSet_handle(s) ==
  LET self == IF s.sType = VK_STRUCTURE_TYPE_WRITE_DESCRIPTOR_SET
              THEN vn_replace_VkWriteDescriptorSet_handle_self(s)
              ELSE [val |-> s, oob |-> FALSE, uninit |-> FALSE]
      rest == vn_replace_VkWriteDescriptorSet_handle(s.pNext)
  IN  IF s.pNext = NULL THEN self
      ELSE [val    |-> [self.val EXCEPT !.pNext = rest.val],
            oob    |-> self.oob \/ rest.oob,
            uninit |-> self.uninit \/ rest.uninit]

----------------------------------------------------------------------------
(* VkMemoryRequirements2 and its one known link, VkMemoryDedicatedRequire- *)
(* ments: output structs.  The guest sends only their sType/pNext skeleton; *)
(* the renderer decodes it partially, the driver fills it, the renderer    *)
(* encodes it back in full.                                                *)

vn_encode_VkMemoryRequirements(v) == <<v.size, v.alignment, v.memoryTypeBits>>

(* Every field is skipped: nothing is read, nothing written. *)
vn_decode_VkMemoryRequirements_partial_temp(d, v) == Result(d, v)

vn_encode_VkMemoryDedicatedRequirements_self(v) ==
  <<v.prefersDedicatedAllocation, v.requiresDedicatedAllocation>>

(* Standalone encode: its pNext decoder knows no link, so it always sends *)
(* an absent marker whatever val->pNext holds.                            *)
vn_encode_VkMemoryDedicatedRequirements(v) ==
  <<VK_STRUCTURE_TYPE_MEMORY_DEDICATED_REQUIREMENTS>>
  \o vn_encode_simple_pointer(FALSE)
  \o vn_encode_VkMemoryDedicatedRequirements_self(v)

vn_decode_VkMemoryDedicatedRequirements_self_partial_temp(d, v) == Result(d, v)

vn_decode_VkMemoryDedicatedRequirements_partial_temp(d) ==
  LET t == DecodeSType(d, VK_STRUCTURE_TYPE_MEMORY_DEDICATED_REQUIREMENTS)
      p == vn_decode_pnext_none_temp(t.dec)
  IN  vn_decode_VkMemoryDedicatedRequirements_self_partial_temp(p.dec,
        [sType |-> t.val, pNext |-> p.val,
         prefersDedicatedAllocation |-> UNINIT, requiresDedicatedAllocation |-> UNINIT])

(* The chain walk: a known link is sent as marker, sType, the rest of the *)
(* chain, its fields; an unknown link is skipped and the walk goes on to  *)
(* the link after it; the end of the chain sends an absent marker.        *)
RECURSIVE vn_encode_VkMemoryRequirements2_pnext(_)
(* Mutant: a known link's fields are sent before the rest of the chain. *)
mr2_pnext_fields_first(p) ==
  CASE p = NULL -> vn_encode_simple_pointer(FALSE)
    [] p.sType = VK_STRUCTURE_TYPE_MEMORY_DEDICATED_REQUIREMENTS ->
         vn_encode_simple_pointer(TRUE) \o <<p.sType>>
         \o vn_encode_VkMemoryDedicatedRequirements_self(p)
         \o vn_encode_VkMemoryRequirements2_pnext(p.pNext)
    [] OTHER -> vn_encode_VkMemoryRequirements2_pnext(p.pNext)

vn_encode_VkMemoryRequirements2_pnext(p) ==
  CASE p = NULL -> vn_encode_simple_pointer(FALSE)
    [] p.sType = VK_STRUCTURE_TYPE_MEMORY_DEDICATED_REQUIREMENTS ->
         vn_encode_simple_pointer(TRUE) \o <<p.sType>>
         \o vn_encode_VkMemoryRequirements2_pnext(p.pNext)
         \o vn_encode_VkMemoryDedicatedRequirements_self(p)
    [] OTHER -> vn_encode_VkMemoryRequirements2_pnext(p.pNext)

vn_encode_VkMemoryRequirements2_self(v) ==
  vn_encode_VkMemoryRequirements(v.memoryRequirements)

vn_encode_VkMemoryRequirements2(v) ==
  <<VK_STRUCTURE_TYPE_MEMORY_REQUIREMENTS_2>>
  \o vn_encode_VkMemoryRequirements2_pnext(v.pNext)
  \o vn_encode_VkMemoryRequirements2_self(v)

RECURSIVE vn_decode_VkMemoryRequirements2_pnext_partial_temp(_)
vn_decode_VkMemoryRequirements2_pnext_partial_temp(d) ==
  LET p == vn_decode_simple_pointer(d)
      t == vn_decode_scalar(p.dec)
      a == vn_cs_decoder_alloc_temp(t.dec, 1)
      n == vn_decode_VkMemoryRequirements2_pnext_partial_temp(a.dec)
  IN  CASE ~p.val -> Result(p.dec, NULL)
        [] t.val # VK_STRUCTURE_TYPE_MEMORY_DEDICATED_REQUIREMENTS ->
              Result(vn_cs_decoder_set_fatal(t.dec), NULL)
        [] ~a.val -> Result(a.dec, NULL)
        [] OTHER ->
              vn_decode_VkMemoryDedicatedRequirements_self_partial_temp(n.dec,
                 [sType |-> t.val, pNext |-> n.val,
                  prefersDedicatedAllocation |-> UNINIT,
                  requiresDedicatedAllocation |-> UNINIT])

vn_decode_VkMemoryRequirements2_self_partial_temp(d, v) ==
  LET r == vn_decode_VkMemoryRequirements_partial_temp(d, v.memoryRequirements)
  IN  Result(r.dec, [v EXCEPT !.memoryRequirements = r.val])

vn_decode_VkMemoryRequirements2_partial_temp(d) ==
  LET t == DecodeSType(d, VK_STRUCTURE_TYPE_MEMORY_REQUIREMENTS_2)
      p == vn_decode_VkMemoryRequirements2_pnext_partial_temp(t.dec)
  IN  vn_decode_VkMemoryRequirements2_self_partial_temp(p.dec,
        [sType |-> t.val, pNext |-> p.val, memoryRequirements |-> UNINIT])
=============================================================================
