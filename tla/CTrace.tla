-------------------------------- MODULE CTrace --------------------------------
(***************************************************************************)
(* The ctrace C API over Perfetto track events (ctrace.cc, ctrace.h).      *)
(*                                                                         *)
(* Several clients (libraries using CTRACE_DEFINE_CATEGORIES) each own a  *)
(* list of NumCats categories.  ctrace_register appends a client's list   *)
(* to the process-wide table g_categories under a mutex and then stores   *)
(* the returned offset in the client's category_index_base.  A tracing   *)
(* session enables the registered categories; Perfetto reports each one  *)
(* to the owning client through cperfetto_callback, which stores the     *)
(* instance mask in category_state_storage.  A client's emitting thread  *)
(* (the CTRACE_EVENT_*_IDX macros) loads the mask, and when it is not   *)
(* zero loads category_index_base and records an event for the global   *)
(* index base + local index.  Every load and store of the two client     *)
(* atomics is memory_order_relaxed.                                        *)
(*                                                                         *)
(* Several tracing sessions may run at once.  Each one that enables the *)
(* track_event data source holds one of Perfetto's data-source instance  *)
(* indices, and an instance mask has bit i set for instance i.  Event     *)
(* kinds (begin, end, instant, counter, async) share the macro shape and *)
(* are one kind here.                                                      *)
(***************************************************************************)
EXTENDS Naturals, Sequences, FiniteSetsExt, Bitwise

CONSTANTS
  Clients,         \* libraries that define categories
  NumCats,         \* categories each client defines (_CTRACE_NUM_CATS)
  kMaxCategories,  \* capacity of g_categories
  MaxEvents,       \* events recorded before the emitters stop
  Instances        \* data-source instance indices sessions may take

ASSUME Instances \subseteq 0 .. 31

Cats == 0 .. NumCats - 1

(* The instances that have global category g enabled in en, and the     *)
(* uint32_t mask with bit i set for each instance i.                       *)
InstancesOf(g, en) == {i \in Instances : <<g, i>> \in en}
InstancesMask(S) == MapThenSumSet(LAMBDA i : 2^i, S)


VARIABLES
  g_num_categories,        \* entries of g_categories in use
  g_categories,            \* the table: [client, index] per global index + 1
  registry_count,          \* kCategoryRegistry.SetCount
  client_pc,               \* "unregistered", "returned", "registered"
  ret,                     \* value ctrace_register_categories returned
  category_index_base,     \* per client, the atomic
  seen_base,               \* the client's emitter has loaded the stored base
  category_state_storage,  \* per client, per local index: instance mask
  enabled,                 \* pairs <<global index, instance>> Perfetto has enabled
  session,                 \* per instance: "off", "starting", "on", "stopping"
  start_registered,        \* per instance: registry_count when its start began
  initialized,             \* ctrace_init has run
  trace_buffer,            \* the caller's ctrace_trace_buffer: "none", "held", "zeroed"
  emit_pc,                 \* per client emitter: [pc, cat]
  trace                    \* events recorded: [client, cat, index]

vars == <<g_num_categories, g_categories, registry_count, client_pc, ret,
          category_index_base, seen_base, category_state_storage, enabled,
          session, start_registered, initialized, trace_buffer, emit_pc, trace>>

tracing == <<session, start_registered, initialized, trace_buffer>>

registration == <<g_num_categories, g_categories, registry_count, client_pc, ret,
                  category_index_base>>

TypeOK ==
  /\ g_num_categories \in Nat
  /\ g_categories \in Seq([client : Clients, index : Cats])
  /\ client_pc \in [Clients -> {"unregistered", "returned", "registered"}]
  /\ category_index_base \in [Clients -> Nat]
  /\ category_state_storage \in [Clients -> [Cats -> 0 .. InstancesMask(Instances)]]
  /\ enabled \subseteq Nat \X Instances
  /\ session \in [Instances -> {"off", "starting", "on", "stopping"}]
  /\ start_registered \in [Instances -> Nat]
  /\ trace_buffer \in {"none", "held", "zeroed"}
  /\ emit_pc \in [Clients -> [pc : {"idle", "loaded"}, cat : Cats]]
  /\ trace \in Seq([client : Clients, cat : Cats, index : Nat])

Init ==
  /\ g_num_categories = 0
  /\ g_categories = <<>>
  /\ registry_count = 0
  /\ client_pc = [c \in Clients |-> "unregistered"]
  /\ ret = [c \in Clients |-> 0]
  /\ category_index_base = [c \in Clients |-> 0]
  /\ seen_base = [c \in Clients |-> FALSE]
  /\ category_state_storage = [c \in Clients |-> [i \in Cats |-> 0]]
  /\ enabled = {}
  /\ session = [i \in Instances |-> "off"]
  /\ start_registered = [i \in Instances |-> 0]
  /\ initialized = FALSE
  /\ trace_buffer = "none"
  /\ emit_pc = [c \in Clients |-> [pc |-> "idle", cat |-> 0]]
  /\ trace = <<>>

----------------------------------------------------------------------------
(* Registration. *)

(* Bug variants: the loop runs count <= max, and the offset is read after *)
(* the loop instead of before it.                                          *)
RegisterCategories_OffByOne(c) ==
  /\ client_pc[c] = "unregistered"
  /\ g_categories' = g_categories \o [k \in 1 .. NumCats + 1 |-> [client |-> c, index |-> k - 1]]
  /\ g_num_categories' = g_num_categories + NumCats + 1
  /\ registry_count' = g_num_categories + NumCats + 1
  /\ ret' = [ret EXCEPT ![c] = g_num_categories]
  /\ client_pc' = [client_pc EXCEPT ![c] = "returned"]
  /\ UNCHANGED <<category_index_base, seen_base, category_state_storage, enabled,
                 tracing, emit_pc, trace>>

RegisterCategories_ReturnsEnd(c) ==
  /\ client_pc[c] = "unregistered"
  /\ g_categories' = g_categories \o [k \in 1 .. NumCats |-> [client |-> c, index |-> k - 1]]
  /\ g_num_categories' = g_num_categories + NumCats
  /\ registry_count' = g_num_categories + NumCats
  /\ ret' = [ret EXCEPT ![c] = g_num_categories + NumCats]
  /\ client_pc' = [client_pc EXCEPT ![c] = "returned"]
  /\ UNCHANGED <<category_index_base, seen_base, category_state_storage, enabled,
                 tracing, emit_pc, trace>>

(* ctrace_register_categories: the whole body runs under the static      *)
(* mutex, so it is one step.  Each category is written to                 *)
(* g_categories[g_num_categories++] with no check against the capacity.  *)
RegisterCategories(c) ==
  /\ client_pc[c] = "unregistered"
  /\ g_categories' = g_categories \o [k \in 1 .. NumCats |-> [client |-> c, index |-> k - 1]]
  /\ g_num_categories' = g_num_categories + NumCats
  /\ registry_count' = g_num_categories + NumCats
  /\ ret' = [ret EXCEPT ![c] = g_num_categories]
  /\ client_pc' = [client_pc EXCEPT ![c] = "returned"]
  /\ UNCHANGED <<category_index_base, seen_base, category_state_storage, enabled,
                 tracing, emit_pc, trace>>

(* The rest of ctrace_register: the relaxed store of the returned offset. *)
StoreIndexBase(c) ==
  /\ client_pc[c] = "returned"
  /\ category_index_base' = [category_index_base EXCEPT ![c] = ret[c]]
  /\ client_pc' = [client_pc EXCEPT ![c] = "registered"]
  /\ UNCHANGED <<g_num_categories, g_categories, registry_count, ret, seen_base,
                 category_state_storage, enabled, tracing, emit_pc, trace>>

----------------------------------------------------------------------------
(* Sessions and the enable callback. *)

(* The owner of a global index and the client's local index. *)
Owner(g) == g_categories[g + 1]

(* Bug variant: the callback ORs the mask in instead of storing it. *)
SetState_FetchOr(g, instances) ==
  category_state_storage' =
    [category_state_storage EXCEPT ![Owner(g).client][Owner(g).index] = @ | instances]

(* cperfetto_callback(instances, client_index) of the owning client: a   *)
(* relaxed store of the whole mask.                                        *)
SetState(g, instances) ==
  category_state_storage' =
    [category_state_storage EXCEPT ![Owner(g).client][Owner(g).index] = instances]

(* Bug variant: the registry calls back with the bit of the instance it  *)
(* is changing instead of the category's mask.                             *)
UpdateInstance_BitOnly(g, i, on) ==
  /\ enabled' = IF on THEN enabled \cup {<<g, i>>} ELSE enabled \ {<<g, i>>}
  /\ SetState(g, IF on THEN 2^i ELSE 0)

(* kCategoryRegistry.EnableCategoryForInstance / DisableCategoryFor-      *)
(* Instance: flip instance i's bit of category g, then call the          *)
(* category's instances_callback with the category's new mask.            *)
UpdateInstance(g, i, on) ==
  LET en == IF on THEN enabled \cup {<<g, i>>} ELSE enabled \ {<<g, i>>} IN
  /\ enabled' = en
  /\ SetState(g, InstancesMask(InstancesOf(g, en)))

(* ctrace_init: Tracing::Initialize with the caller's backends, then     *)
(* TrackEvent::Register.  Sessions need it; registering categories does *)
(* not (ctrace.h says either order is allowed).                           *)
ctrace_init ==
  /\ ~initialized
  /\ initialized' = TRUE
  /\ UNCHANGED <<registration, seen_base, category_state_storage, enabled,
                 session, start_registered, trace_buffer, emit_pc, trace>>

(* ctrace_trace_start / _from_config_proto: NewTrace, Setup, then        *)
(* StartBlocking, which returns once the data source instance the        *)
(* session took, the lowest free one, has started: the categories       *)
(* registered before the start are then enabled for it; a category      *)
(* registered while it starts may be enabled before or after.  A        *)
(* config proto that does not parse returns nullptr before NewTrace and *)
(* changes nothing; the caller checks for it and stops no session.       *)
StartSession(i) ==
  /\ initialized
  /\ session[i] = "off"
  /\ i = Min({k \in Instances : session[k] = "off"})
  /\ session' = [session EXCEPT ![i] = "starting"]
  /\ start_registered' = [start_registered EXCEPT ![i] = registry_count]
  /\ UNCHANGED <<registration, seen_base, category_state_storage, enabled,
                 initialized, trace_buffer, emit_pc, trace>>

EnableCategory(g, i) ==
  /\ session[i] \in {"starting", "on"}
  /\ g < registry_count
  /\ <<g, i>> \notin enabled
  /\ UpdateInstance(g, i, TRUE)
  /\ UNCHANGED <<registration, seen_base, tracing, emit_pc, trace>>

StartReturns(i) ==
  /\ session[i] = "starting"
  /\ \A g \in 0 .. start_registered[i] - 1 : <<g, i>> \in enabled
  /\ session' = [session EXCEPT ![i] = "on"]
  /\ UNCHANGED <<registration, seen_base, category_state_storage, enabled,
                 start_registered, initialized, trace_buffer, emit_pc, trace>>

(* ctrace_trace_stop / _stop_to_buffer on the handle of session i:        *)
(* Flush, then StopBlocking, which returns once the instance has         *)
(* disabled every category.                                                *)
StopSession(i) ==
  /\ session[i] = "on"
  /\ session' = [session EXCEPT ![i] = "stopping"]
  /\ UNCHANGED <<registration, seen_base, category_state_storage, enabled,
                 start_registered, initialized, trace_buffer, emit_pc, trace>>

DisableCategory(g, i) ==
  /\ session[i] = "stopping"
  /\ <<g, i>> \in enabled
  /\ UpdateInstance(g, i, FALSE)
  /\ UNCHANGED <<registration, seen_base, tracing, emit_pc, trace>>

(* StopBlocking returns, ReadTraceBlocking reads the trace back and the   *)
(* session is deleted with its unique_ptr.  ctrace_trace_stop writes the *)
(* trace to the path, if any; ctrace_trace_stop_to_buffer hands a new    *)
(* std::vector to the caller in a ctrace_trace_buffer, which the caller  *)
(* frees before it asks for another.                                      *)
StopReturns(i) ==
  /\ session[i] = "stopping"
  /\ \A g \in 0 .. registry_count - 1 : <<g, i>> \notin enabled
  /\ session' = [session EXCEPT ![i] = "off"]
  /\ \/ UNCHANGED trace_buffer
     \/ trace_buffer # "held" /\ trace_buffer' = "held"
  /\ UNCHANGED <<registration, seen_base, category_state_storage, enabled,
                 start_registered, initialized, emit_pc, trace>>

(* ctrace_free_trace_buffer: deletes the vector and zeroes the struct;   *)
(* freeing a zeroed struct again deletes nullptr and changes nothing.     *)
ctrace_free_trace_buffer ==
  /\ trace_buffer = "held"
  /\ trace_buffer' = "zeroed"
  /\ UNCHANGED <<registration, seen_base, category_state_storage, enabled,
                 session, start_registered, initialized, emit_pc, trace>>

----------------------------------------------------------------------------
(* Emitting: CTRACE_EVENT_BEGIN_IDX and its siblings. *)

(* Bug variant: the macro without its instances != 0 test. *)
LoadInstances_Unguarded(c, i) ==
  /\ emit_pc[c].pc = "idle"
  /\ Len(trace) < MaxEvents
  /\ emit_pc' = [emit_pc EXCEPT ![c] = [pc |-> "loaded", cat |-> i]]
  /\ UNCHANGED <<registration, seen_base, category_state_storage, enabled, tracing, trace>>

(* The relaxed load of category_state_storage[cat->client_index]; the     *)
(* macro does nothing more when it reads 0.                               *)
LoadInstances(c, i) ==
  /\ emit_pc[c].pc = "idle"
  /\ Len(trace) < MaxEvents
  /\ category_state_storage[c][i] # 0
  /\ emit_pc' = [emit_pc EXCEPT ![c] = [pc |-> "loaded", cat |-> i]]
  /\ UNCHANGED <<registration, seen_base, category_state_storage, enabled, tracing, trace>>

(* Values a relaxed load of category_index_base may return: the initial  *)
(* 0 or the stored offset; once the thread has seen the store, only it.  *)
BaseReads(c) ==
  IF client_pc[c] # "registered" THEN {0}
  ELSE IF seen_base[c] THEN {category_index_base[c]}
  ELSE {0, category_index_base[c]}

(* The relaxed load of category_index_base and the trace_event_* call     *)
(* with base + client_index.                                               *)
EmitEvent(c) ==
  /\ emit_pc[c].pc = "loaded"
  /\ \E b \in BaseReads(c) :
       /\ trace' = Append(trace, [client |-> c, cat |-> emit_pc[c].cat,
                                  index |-> b + emit_pc[c].cat])
       /\ seen_base' = [seen_base EXCEPT ![c] = @ \/ (client_pc[c] = "registered"
                                                      /\ b = category_index_base[c])]
  /\ emit_pc' = [emit_pc EXCEPT ![c] = [pc |-> "idle", cat |-> emit_pc[c].cat]]
  /\ UNCHANGED <<registration, category_state_storage, enabled, tracing>>

Next ==
  \/ \E c \in Clients : RegisterCategories(c) \/ StoreIndexBase(c) \/ EmitEvent(c)
  \/ \E c \in Clients, i \in Cats : LoadInstances(c, i)
  \/ ctrace_init \/ ctrace_free_trace_buffer
  \/ \E i \in Instances :
       \/ StartSession(i) \/ StartReturns(i) \/ StopSession(i) \/ StopReturns(i)
       \/ \E g \in 0 .. registry_count - 1 : EnableCategory(g, i) \/ DisableCategory(g, i)

Spec == Init /\ [][Next]_vars

----------------------------------------------------------------------------
(* Properties. *)

(* Each registered client's categories sit in g_categories at the offset *)
(* ctrace_register_categories returned to it, in catlist order, and       *)
(* inside the count the registry publishes: a second registration never *)
(* overwrites or shifts the first one's range, and the value stored in    *)
(* category_index_base is that offset.                                     *)
RegisteredRangesOwned ==
  \A c \in Clients : client_pc[c] # "unregistered" =>
    /\ ret[c] + NumCats <= registry_count
    /\ \A i \in Cats : g_categories[ret[c] + i + 1] = [client |-> c, index |-> i]
    /\ client_pc[c] = "registered" => category_index_base[c] = ret[c]

(* Every event the macros hand to trace_event_* names a category the     *)
(* registry holds: an index below kCategoryRegistry's count.               *)
EventIndexRegistered ==
  \A k \in 1 .. Len(trace) : trace[k].index < registry_count

(* Attribution: the global index of every event is the slot of the       *)
(* category the client emitted for, so the event lands in that category. *)
EventsAttributedToOwnCategory ==
  \A k \in 1 .. Len(trace) :
    /\ trace[k].index < Len(g_categories)
    /\ g_categories[trace[k].index + 1] = [client |-> trace[k].client, index |-> trace[k].cat]

(* ctrace_register_categories writes g_categories[g_num_categories++]   *)
(* with no bound: the count must stay within the kMaxCategories slots.   *)
RegistryInBounds == g_num_categories <= kMaxCategories

(* The mask each client's cperfetto_callback stored for a category is   *)
(* the set of instances that have the category enabled, whatever order   *)
(* two sessions' enable and disable rounds interleave in: a session      *)
(* starting or stopping never clears or hides another session's bit.     *)
StateMatchesEnabled ==
  \A g \in 0 .. registry_count - 1 :
    category_state_storage[Owner(g).client][Owner(g).index] =
      InstancesMask(InstancesOf(g, enabled))
=============================================================================
