-------------------------------- MODULE VnCs --------------------------------
(***************************************************************************)
(* The command-stream primitives the generated venus-protocol functions    *)
(* call: the decoder cursor (vn_cs_decoder), its sticky fatal flag, the    *)
(* temp arena it allocates from, the size and pointer markers, handle      *)
(* lookup and handle replacement.  Their C source (vn_protocol_renderer_   *)
(* cs.h, vn_protocol_renderer_handles.h) is not part of this repository,   *)
(* so every definition here is modelled from spec.md sections 3, 4, 6, 7.  *)
(*                                                                         *)
(* The wire is a sequence of tokens, one per encoded scalar.  Scalar       *)
(* widths are abstracted: no field of the modelled structs is narrowed or  *)
(* widened between the wire and its destination in a way that loses       *)
(* information within the bounds the properties use.                       *)
(*                                                                         *)
(* A decoder is a record                                                   *)
(*   [buf |-> wire, pos |-> tokens consumed, fatal |-> flag,               *)
(*    arena |-> allocation units left in the command's temp arena]         *)
(* and every decode operator returns [dec |-> decoder', val |-> value].    *)
(***************************************************************************)
EXTENDS Naturals, Sequences, SequencesExt

CONSTANTS
  NULL,      \* a null pointer field
  UNINIT,    \* storage never written since it was allocated
  Registry   \* wire ids the session's object table resolves

(* Marker tokens: "absent" is 0, any other value is "present" (spec 6). *)
ABSENT  == 0
PRESENT == 1

Result(d, v) == [dec |-> d, val |-> v]

(* A fresh decoder over one command's bytes with a fresh arena. *)
NewDecoder(buf, cap) == [buf |-> buf, pos |-> 0, fatal |-> FALSE, arena |-> cap]

(* vn_cs_decoder_set_fatal: ok -> fatal, never back. *)
vn_cs_decoder_set_fatal(d) == [d EXCEPT !.fatal = TRUE]

(* vn_decode_<scalar>: a fatal decoder reads nothing and yields zero; an   *)
(* exhausted stream sets fatal and yields zero (spec 4.2, 7).             *)
vn_decode_scalar(d) ==
  IF d.fatal THEN Result(d, 0)
  ELSE IF d.pos < Len(d.buf)
       THEN Result([d EXCEPT !.pos = @ + 1], d.buf[d.pos + 1])
       ELSE Result(vn_cs_decoder_set_fatal(d), 0)

(* n consecutive elements, each decoded by Elem in place: the element     *)
(* loops of the generated code and vn_decode_<scalar>_array.              *)
vn_decode_array(d, n, Elem(_)) ==
  LET Step(acc, i) == LET r == Elem(acc.dec)
                      IN  Result(r.dec, Append(acc.val, r.val))
  IN  FoldLeft(Step, Result(d, <<>>), [i \in 1 .. n |-> i])

vn_decode_scalar_array(d, n) == vn_decode_array(d, n, vn_decode_scalar)

(* vn_peek_array_size: whether the next size marker says "present"; it    *)
(* consumes nothing and has no side effect.                                *)
vn_peek_array_size(d) ==
  /\ ~d.fatal
  /\ d.pos < Len(d.buf)
  /\ d.buf[d.pos + 1] # ABSENT

(* vn_decode_array_size_unchecked: consume the marker and, when present,  *)
(* the count that follows it.                                              *)
vn_decode_array_size_unchecked(d) ==
  LET m == vn_decode_scalar(d)
  IN  IF m.val = ABSENT THEN Result(m.dec, 0) ELSE vn_decode_scalar(m.dec)

(* vn_decode_array_size(dec, max): as above, and a count above the        *)
(* caller's bound sets fatal and is replaced by zero.                      *)
vn_decode_array_size(d, max) ==
  LET k == vn_decode_array_size_unchecked(d)
  IN  IF k.val > max THEN Result(vn_cs_decoder_set_fatal(k.dec), 0) ELSE k

(* vn_decode_simple_pointer: one marker token; TRUE when present. *)
vn_decode_simple_pointer(d) ==
  LET m == vn_decode_scalar(d) IN Result(m.dec, m.val # ABSENT)

(* Mutant: an allocator that hands out storage without checking the     *)
(* arena has room for it.                                                  *)
alloc_temp_unchecked(d, n) == Result([d EXCEPT !.arena = @ - n], TRUE)

(* vn_cs_decoder_alloc_temp / _alloc_temp_array: n units from the arena;   *)
(* exhaustion sets fatal and yields a null pointer (val = FALSE).          *)
vn_cs_decoder_alloc_temp(d, n) ==
  IF n <= d.arena
  THEN Result([d EXCEPT !.arena = @ - n], TRUE)
  ELSE Result(vn_cs_decoder_set_fatal(d), FALSE)

(***************************************************************************)
(* Handles.  Decode-time lookup turns a wire id into the session's object  *)
(* (Obj); the replace pass turns the object into the driver's handle       *)
(* (Native).  Id 0 is VK_NULL_HANDLE and stays null.                       *)
(***************************************************************************)
NullHandle == [kind |-> "null", id |-> 0]
Obj(i)     == [kind |-> "obj", id |-> i]
Native(i)  == [kind |-> "native", id |-> i]
BadHandle  == [kind |-> "bad", id |-> 0]

(* vn_decode_<Handle>_lookup: an id the registry does not know sets fatal *)
(* and yields no reference at all (spec 4.4).                              *)
vn_decode_handle_lookup(d) ==
  LET r == vn_decode_scalar(d)
  IN  IF r.val = 0 THEN Result(r.dec, NullHandle)
      ELSE IF r.val \in Registry THEN Result(r.dec, Obj(r.val))
      ELSE Result(vn_cs_decoder_set_fatal(r.dec), NullHandle)

(* vn_replace_<Handle>_handle: object -> driver handle.  Applied to        *)
(* anything but an object or null it yields a garbage handle.              *)
vn_replace_handle(h) ==
  IF h = NullHandle THEN h
  ELSE IF h \in {Obj(i) : i \in Registry} THEN Native(h.id)
  ELSE BadHandle

(***************************************************************************)
(* Encoder side (vn_cs_encoder): every encode operator yields the tokens   *)
(* it appends.                                                             *)
(***************************************************************************)
vn_encode_array_size(n)     == <<PRESENT, n>>
vn_encode_simple_pointer(p) == <<IF p THEN PRESENT ELSE ABSENT>>
=============================================================================
