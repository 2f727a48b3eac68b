----------------------------- MODULE CTraceNames -----------------------------
(***************************************************************************)
(* The string-category macros of ctrace.h for C++ clients:                *)
(* CTRACE_EVENT_BEGIN_STR(cat, name) looks the category up by name with   *)
(* idx_for_category_name(cat, _CTRACE_NUM_CATS, *catlist) and then emits  *)
(* through CTRACE_EVENT_BEGIN_IDX with the index it returns.               *)
(*                                                                         *)
(* A C string is a sequence of character codes ending in its NUL (0).     *)
(* size_t arithmetic is modulo 2^SizeBits.                                 *)
(*                                                                         *)
(* The lookup is handed *catlist, a pointer to the first category object, *)
(* and indexes it as an array of ctrace_category.  The categories are     *)
(* separate objects (_CTRACE_GEN_CAT_DEFINITIONS), so what lies in the   *)
(* k-th slot after *catlist depends on how the build placed them: the    *)
(* model lets it be the category declared k-th after the first, or some  *)
(* other object whose name is any string of Strings.                     *)
(***************************************************************************)
EXTENDS Naturals, Sequences

CONSTANTS
  Strings,     \* C strings the names and queries are drawn from
  MaxCats,     \* most categories a client defines
  SizeBits,    \* width of size_t
  NDEBUG,      \* assert() is compiled out
  Contiguous,  \* the build placed the category objects as one array
  ABORT,       \* the assert failed and the process aborted
  NOQUERY      \* no _STR macro has run yet

SizeMax == 2 ^ SizeBits

(* Bug variant: the recursion stops at the first NUL of either string and *)
(* calls that a match, so a prefix matches.                               *)
RECURSIVE string_eq_prefix(_, _, _)
string_eq_prefix(a, b, k) ==
  IF a[k] = 0 \/ b[k] = 0 THEN TRUE
  ELSE IF a[k] # b[k] THEN FALSE
  ELSE string_eq_prefix(a, b, k + 1)

(* string_eq: compares character by character, stopping at the first     *)
(* difference or at a NUL.  k is the offset of the two pointers.          *)
RECURSIVE string_eq(_, _, _)
string_eq(a, b, k) ==
  IF a[k] # b[k] THEN FALSE
  ELSE IF a[k] = 0 \/ b[k] = 0 THEN a[k] = b[k]
  ELSE string_eq(a, b, k + 1)

(* Bug variant: the impl without its assert, as a build where the assert *)
(* does nothing ("This doesn't work before C++ 14").                       *)
RECURSIVE idx_impl_no_assert(_, _, _, _)
idx_impl_no_assert(name, index, max, catlist) ==
  IF index >= max THEN (max - 1 + SizeMax) % SizeMax
  ELSE IF string_eq(catlist[index + 1], name, 1) THEN index
  ELSE idx_impl_no_assert(name, index + 1, max, catlist)

(* idx_for_category_name_impl: catlist holds the names of the objects at  *)
(* *catlist and the slots after it; a failed assert aborts.  Past the   *)
(* last category, a build without the assert returns max - 1.             *)
RECURSIVE idx_for_category_name_impl(_, _, _, _)
idx_for_category_name_impl(name, index, max, catlist) ==
  IF ~NDEBUG /\ ~(index < max) THEN ABORT
  ELSE IF index >= max THEN (max - 1 + SizeMax) % SizeMax
  ELSE IF string_eq(catlist[index + 1], name, 1) THEN index
  ELSE idx_for_category_name_impl(name, index + 1, max, catlist)

idx_for_category_name(name, max, catlist) ==
  idx_for_category_name_impl(name, 0, max, catlist)

(* The objects the lookup reads, as the build may have placed them: the   *)
(* first is always the first category.                                    *)
Memory(cats) ==
  IF Contiguous \/ cats = <<>> THEN {cats}
  ELSE {<<cats[1]>> \o o : o \in [1 .. Len(cats) - 1 -> Strings]}

(* Category name lists a client may define: up to MaxCats names.          *)
NameLists == UNION {[1 .. n -> Strings] : n \in 0 .. MaxCats}

VARIABLES
  cats,     \* names of the client's categories, in declaration order
  memory,   \* names read from *catlist onwards in this build
  query,    \* the name passed to the last _STR macro
  result    \* what idx_for_category_name returned for it

vars == <<cats, memory, query, result>>

Init ==
  /\ cats \in NameLists
  /\ memory \in Memory(cats)
  /\ query = NOQUERY
  /\ result = 0

(* A CTRACE_*_STR macro with the category name q: the lookup, then the    *)
(* _IDX macro with the index it returned.                                 *)
Lookup(q) ==
  /\ query' = q
  /\ result' = idx_for_category_name(q, Len(cats), memory)
  /\ UNCHANGED <<cats, memory>>

Next == \E q \in Strings : Lookup(q)

Spec == Init /\ [][Next]_vars

----------------------------------------------------------------------------
(* The index of the first declared category called q, if any. *)
FirstIndex(q) == CHOOSE k \in 0 .. Len(cats) - 1 :
                   /\ cats[k + 1] = q
                   /\ \A j \in 0 .. k - 1 : cats[j + 1] # q

(* A name the client declared is found at its first declaration: the     *)
(* _STR macro emits for the same category as the _IDX macro with that     *)
(* category's CAT_IDX_ would.                                             *)
LookupFindsFirstMatch ==
  (query # NOQUERY /\ \E k \in DOMAIN cats : cats[k] = query) =>
    result = FirstIndex(query)

(* Whatever the name, the lookup either aborts or yields the index of a   *)
(* category with that name: the _IDX macro then reads catlist[result],    *)
(* which must be one of the client's categories, and emits under it.      *)
ResultNamesQuery ==
  (query # NOQUERY /\ result # ABORT) =>
    /\ result < Len(cats)
    /\ cats[result + 1] = query
=============================================================================
