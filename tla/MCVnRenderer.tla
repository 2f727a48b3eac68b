---------------------------- MODULE MCVnRenderer ----------------------------
(* Bounded instances of the renderer for TLC. *)
EXTENDS VnRenderer

(* Wire ids: 0 is VK_NULL_HANDLE, 1 is a live object, 2 names nothing. *)
MCIds      == {0, 1, 2}
MCRegistry == {1}

(* Well-formed guest commands: every value of the bounded domain. *)
GuestWds == GuestWriteDescriptorSets(MCIds, {0}, {0, 1}, 1)

(* Queries: chains of up to three links, known or foreign, so that one  *)
(* chain needs more arena than a command gets.                          *)
GuestMr2 == GuestMemoryRequirements2(3)

(* The create-info kinds: counts 0 and 1, codeSize a whole number of    *)
(* words.                                                                 *)
GuestOthers ==
  [kind : {"ShaderModuleCreateInfo"}, g : GuestShaderModules({0, 4, 8}, {0})]
  \cup [kind : {"SamplerYcbcrConversionInfo"}, g : GuestYcbcrInfos(MCIds)]
  \cup [kind : {"MutableDescriptorTypeCreateInfoEXT"}, g : GuestMutableInfos({0, 1}, {0})]
  \cup [kind : {"ImageFormatListCreateInfo"}, g : GuestImageFormatLists({0, 1, 2}, {0})]
  \cup [kind : {"MemoryBarrier2"}, g : GuestMemoryBarriers({0, 1})]
  \cup [kind : {"SemaphoreTypeCreateInfo"}, g : GuestSemaphoreTypes({0, 1})]
  \cup [kind : {"ImageStencilUsageCreateInfo"}, g : GuestStencilUsages({0, 1})]

Command(kind, g) == [kind |-> kind, wire |-> WireOf(kind, g), guest |-> g]

ValidInputs ==
  {Command("WriteDescriptorSet", g) : g \in GuestWds}
  \cup {Command("GetMemoryRequirements2", g) : g \in GuestMr2}
  \cup {Command(o.kind, o.g) : o \in GuestOthers}

(* Shader modules as an application may describe them: codeSize need not *)
(* be a multiple of 4; the guest sends codeSize / 4 words.               *)
ShaderInputs ==
  {Command("ShaderModuleCreateInfo", g) : g \in GuestShaderModules({0, 4, 5}, {0})}

(* Values the driver writes: two, so that swapped fields show. *)
MCDriverVals == {1, 2}

(* Hostile bytes: every one-token corruption and every truncation of the  *)
(* wires of a few seed values, with no guest value behind them.           *)
CorruptVals == {0, 1, 2, 3}

Corruptions(w) ==
  {[w EXCEPT ![i] = c] : i \in DOMAIN w, c \in CorruptVals} \cup
  {SubSeq(w, 1, k) : k \in 0 .. Len(w) - 1}

SeedWds ==
  {g \in GuestWriteDescriptorSets({0, 1}, {0}, {1}, 1) :
     /\ g.pImageInfo # NULL /\ g.pBufferInfo # NULL
     /\ g.pImageInfo[1].sampler = 1 /\ g.pTexelBufferView # NULL}

SeedMr2 == {g \in GuestMemoryRequirements2(2) : ChainLength(KnownMr2Chain(g.pNext)) = 2}

SeedOthers ==
  [kind : {"ShaderModuleCreateInfo"}, g : GuestShaderModules({4}, {0})]
  \cup [kind : {"SamplerYcbcrConversionInfo"}, g : GuestYcbcrInfos({1})]
  \cup [kind : {"MutableDescriptorTypeCreateInfoEXT"},
         g : {m \in GuestMutableInfos({1}, {0}) :
                m.pMutableDescriptorTypeLists # NULL
                /\ m.pMutableDescriptorTypeLists[1].pDescriptorTypes # NULL}]
  \cup [kind : {"ImageFormatListCreateInfo"},
         g : {f \in GuestImageFormatLists({1}, {0}) : f.pViewFormats # NULL}]

HostileInputs ==
  {[kind |-> "WriteDescriptorSet", wire |-> w, guest |-> NONE]
   : w \in UNION {Corruptions(WireOfWriteDescriptorSet(g)) : g \in SeedWds}}
  \cup
  {[kind |-> "GetMemoryRequirements2", wire |-> w, guest |-> NONE]
   : w \in UNION {Corruptions(WireOfMemoryRequirements2Query(g)) : g \in SeedMr2}}
  \cup
  UNION {{[kind |-> o.kind, wire |-> w, guest |-> NONE] : w \in Corruptions(WireOf(o.kind, o.g))}
         : o \in SeedOthers}
(* Both: the round trip is checked on the guest's commands, the driver's  *)
(* inputs on all of them.                                                  *)
AllInputs == ValidInputs \cup HostileInputs
=============================================================================
