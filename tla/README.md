# TLA+ models of roar: the venus-protocol codec, command execution, ctrace and the minijail life cycle

This directory holds TLA+ modules for the parts of this repository that have
state and operations. It also holds the TLC configurations that check them.
`PROJECT.json` lists the components, the runs, the mutants that show each
property can fail, the map from every definition to the source lines it
translates, the findings, and the hazards.

## The system's parts

| Part | Source | Modules | Status |
|---|---|---|---|
| Venus command-stream primitives: decoder cursor, sticky fatal flag, temp arena, size and pointer markers, handle lookup and replace | not in this repository (`vn_protocol_renderer_cs.h`, `_handles.h`); modelled from spec.md 3-7 | `VnCs` | modelled (spec_modelled) |
| Generated per-struct codec: `_temp` decode, `_partial_temp` decode, encode, `_handle` replace | `src/libcrosvm/third_party/virglrenderer/src/venus/venus-protocol/vn_protocol_renderer_structs.h` | `VnStructs`, `VnWire`, `VnCodecLaws` | partly |
| Renderer command life cycle: receive, decode, reject on fatal, replace handles, run the driver, encode the reply, reset the temp pool | dispatch loop not in this repository; modelled from spec.md 5 and 7 | `VnRenderer`, `MCVnRenderer` | modelled (spec_modelled) |
| ctrace, a C tracing API over Perfetto: initialisation, category registration, concurrent sessions, the trace buffer, the emit macros; the instances callback of Perfetto's category registry as its unit test pins it | `src/include/perfetto/tracing/ctrace.h`, `src/libcrosvm/third_party/perfetto/src/tracing/ctrace.cc`, `src/src/tracing/track_event_category_registry_unittest.cc` | `CTrace`, `MCCTrace`, `CTraceNames`, `MCCTraceNames` | partly |
| minijail process life cycle: new, restrict, enter or run/fork, wait, kill, destroy, copy | `src/libminijail.h` (the implementation is not in this repository) | `Minijail`, `MCMinijail` | partly: the life-cycle calls, and the restrictions that decide an outcome; the setters whose effect is only the kernel's are not modelled |
| `virtgpu.h`, the minigbm tests and backend mock | `src/` | none | not modelled: an enum, and a test harness with no implementation here |

How the parts interact:
- A guest encodes a Vulkan struct into a token stream (`VnWire`).
- The renderer decodes it with the generated `_temp` functions, which sit on the `VnCs` primitives.
- If the decode was fatal, the command is rejected. Otherwise the replace pass turns object references into driver handles and the driver runs.
- For a query, the renderer encodes the filled struct back to the guest.
- minijail is independent of both. A caller allocates a jail, restricts it, and then either enters it or spawns children in it. The children run concurrently with the caller, and the caller collects the first child's status.
- ctrace is independent of the codec. Client libraries register category lists. Each running session holds one Perfetto data-source instance. Perfetto's category registry enables a category for an instance and passes the category's whole instance mask to the client's callback. The client's macros read that mask and the client's index base, then call `trace_event_*`.

## Modules and how they correspond to the code

### VnCs

The decoder is a record `[buf, pos, fatal, arena]`, and every decode operator returns `[dec, val]`.
- **Wire.** One token stands for each scalar. A marker is ABSENT (0) or PRESENT (1).
- **Fatal flag.** It is sticky: once set, every read yields 0 (spec 3).
- **Arena.** It is a count of allocation units. `vn_cs_decoder_alloc_temp` sets fatal and returns NULL when the arena is exhausted.
- **Handles.** A handle is `NullHandle`, `Obj(i)` (a looked-up object), `Native(i)` (a driver handle) or `BadHandle`.
- **UNINIT** marks storage that was allocated but never written.

### VnStructs

There is one operator per generated function, with the C name (`vn_decode_VkWriteDescriptorSet_self_temp`, `vn_replace_VkWriteDescriptorSet_handle_self`, `vn_encode_VkMemoryRequirements2_pnext`, ...).
- Every early return, pNext switch and loop bound of the C code is kept.
- A replace operator also reports whether its loop indexed past the allocated array (`oob`) or followed an unwritten pointer (`uninit`).

### VnWire

What a guest encoder emits for a struct value, in the generated field order. It is a reference for the decoders, not a translation. It also defines `Decoded`, which gives the struct the renderer must obtain, and `Replaced`.

### VnRenderer

One command at a time. Its actions:
- `ReceiveAndDecode`
- `Reject`: fatal is checked once, after the whole decode.
- `ReplaceHandles`
- `ExecuteSet` or `ExecuteQuery`: the driver fills the outputs and the reply is encoded.
- `ResetTempPool`

There are nine argument kinds, each with its own decoder and replace operator. For the create-info structs with no handle field (shader module, mutable descriptor types, image format list, memory barrier, semaphore type, stencil usage), the replace pass is the generated chain walk with its no-op `_handle_self`.

### VnCodecLaws

Applies the laws of spec.md 8 to the generated operators. A stream grows one token at a time, and a `VkMemoryRequirements2` chain grows one link at a time.

### CTrace

| Variable | Code |
|---|---|
| `g_num_categories`, `g_categories`, `registry_count` | `g_num_categories`, `g_categories[]`, `kCategoryRegistry.SetCount` (ctrace.cc 46-57, 109) |
| `ret[c]`, `category_index_base[c]`, `client_pc[c]` | the value `ctrace_register_categories` returns; the client's `category_index_base` atomic; where `ctrace_register` is |
| `category_state_storage[c][i]` | the client's `category_state_storage` atomic array: a mask with bit i set for each instance i |
| `enabled` | the pairs (global category, instance) Perfetto's registry has enabled |
| `session[i]` | the session holding data-source instance i: "off", "starting", "on" or "stopping" |
| `initialized` | whether `ctrace_init` has run |
| `trace_buffer` | the caller's `ctrace_trace_buffer`: none yet, holding a vector, or zeroed by `ctrace_free_trace_buffer` |
| `emit_pc[c]`, `seen_base[c]` | the client's emitting thread between its two relaxed loads; whether that thread has observed the base store |
| `trace` | the `(client, local category, global index)` of every `trace_event_*` call |

| Action | Code |
|---|---|
| `RegisterCategories(c)` | the whole of `ctrace_register_categories` under its mutex (ctrace.cc 89-111), including `SetCount` |
| `StoreIndexBase(c)` | the relaxed store in `ctrace_register` (ctrace.h 463-468) |
| `ctrace_init` | `ctrace_init` (ctrace.cc 78-87): sessions need it, registration does not |
| `StartSession(i)`, `StartReturns(i)` | `ctrace_trace_start` and `_from_config_proto` (ctrace.cc 206-240) up to `StartBlocking` returning. The session takes the lowest free instance and records the registry count at its start (`start_registered`). `StartBlocking` returns once the categories registered before the start are enabled; one registered while the session starts may be enabled before or after it returns. A config proto that does not parse returns nullptr and changes nothing; the caller checks for it, as ctrace.h 154 asks |
| `EnableCategory(g, i)`, `DisableCategory(g, i)` | the registry's `EnableCategoryForInstance` and its disable counterpart during `StartBlocking` and `StopBlocking`. Both are `UpdateInstance`: flip the bit, then call `cperfetto_callback` (ctrace.h 469-472) with the category's new mask (unit test 39-45) |
| `StopSession(i)`, `StopReturns(i)` | `ctrace_trace_stop` and `_stop_to_buffer`: `Flush` and `StopBlocking`, then `ReadTraceBlocking`. The trace is either written to the path or handed over as a new vector, and the session is deleted |
| `ctrace_free_trace_buffer` | deletes the vector and zeroes the struct (ctrace.cc 279-285) |
| `LoadInstances(c, i)` | the macro's relaxed load of the mask, and its `instances != 0` test |
| `EmitEvent(c)` | the relaxed load of `category_index_base` and the call with `base + client_index` |

`BaseReads` gives the values a relaxed load may return: 0 until the store, then 0 or the stored value, and only the stored value once this thread has read it (coherence). The several macros (`BEGIN`, `END`, `INSTANT`, `COUNTER`, `ASYNC_*`) share one shape and are one action.

### CTraceNames

Models the C++ `CTRACE_*_STR` macros.
- **Strings.** A C string is a sequence of character codes ending in 0.
- **Translated operators.** `string_eq` (ctrace.h 329-331) and `idx_for_category_name_impl` (333-343) are RECURSIVE operators that follow the C ternaries. This includes `assert(index < max)`, which aborts unless the build sets NDEBUG, and `max - 1` in size_t, which is taken modulo 2^SizeBits.
- **The array the lookup reads.** The macros pass `*catlist`: a pointer to the first category object, not an array. `Memory` therefore gives what the lookup reads in one of two builds:
  - `Contiguous`: the objects were placed in declaration order;
  - otherwise: any names follow the first object.
- **Actions.** A client first declares a list of names (Init), then runs `Lookup(q)`, one `_STR` macro, for any name q.

### Minijail

`libminijail.h` declares the API and documents each call's contract. The library itself is not in this repository. Every action is the header's contract for one call, and the child process is a second actor.

| State | Meaning |
|---|---|
| `jail[j]` | "free", "new" (being restricted), "used" (entered or spawned in) or "destroyed": the pattern of use of lines 6-13 |
| `config[j]` | the restrictions added to j: pid, user and mount namespaces, a seccomp filter, requested mounts or chroot, the capability calls, the hook events |
| `spawned[j]`, `forked[j]` | the children started in j, in order; whether j was passed to `minijail_fork` |
| `proc[p]` | child p: setup, running or exited; how it ended; whether it runs under LD_PRELOAD and execs a command; `cfg`, its copy of the jail's restrictions at fork; whether it handles SIGTERM and has one pending |
| `reaped[p]` | p's status was collected |
| `caller`, `self`, `calls` | the calling thread, idle or blocked in wait/kill; the calling process, free, jailed by `minijail_enter` or aborted; the calls made |
| `returned[j]` | the values `minijail_wait` and `minijail_kill` on j returned |

| Action | Code |
|---|---|
| `minijail_new` | allocation (lines 97-98) |
| `Restrict(j)` and the setters `minijail_namespace_pids(j, v)`, `minijail_namespace_user`, `minijail_namespace_vfs`, `minijail_seccomp_filter`, `minijail_mount`, `minijail_caps`, `minijail_add_hook` | lines 100-104: a setter records a restriction that applies later. It may be called on a fresh jail or between two runs. `namespace_pids` and `namespace_pids_rw_proc` imply a mount namespace (231-246). The seccomp filter setters (123, 161-168) make a SIGSYS kill possible. The chroot, pivot_root, mount, bind and remount setters (339-450) make a mount failure possible. The caller keeps the capability rules of 171-177 |
| `minijail_enter` | locks the caller in, or aborts it: always possible (a failed privilege drop), and the only outcome with a pid namespace |
| `minijail_run(j, v)` | each of the ten `minijail_run*` variants; they differ in LD_PRELOAD (`Preload(v)`) and otherwise only in outputs the model does not need |
| `minijail_fork` | a child without exec or preload |
| `HookFails`, `SetupFails`, `SetupDone`, `ChildExits`, `ChildSignalled`, `SeccompKill`, `TermDelivered` | the child sets up from its own copy `cfg`. A failing hook aborts it. Setup may fail with INIT, with MOUNT (only with a mount namespace or mounts, enum lines 55-56) or, under preload, with PRELOAD (`SetupErrors`). Exec may fail with NO_COMMAND or NO_ACCESS. A running child exits, takes an outside signal, is killed with SIGSYS by its seccomp filter, or ends on a pending SIGTERM unless it handles it |
| `minijail_wait`, `minijail_kill`, `WaitReturns` | -ECHILD / -ESRCH when there is no child or the first was collected; otherwise kill sends SIGTERM, and the call blocks until the first child has ended and returns `Encode` of how it ended |
| `minijail_destroy`, `minijail_copy_jail` | free the jail, leaving its children running; copy the restrictions into a fresh jail, which is invalid once the source has been passed to `minijail_fork` |

`Encode` is the table of `minijail_wait`'s return values. `n & 0xFF` is `n % 256`.

## Runs and what they show

| Run | Expect | What it shows |
|---|---|---|
| `renderer_roundtrip` | pass | Two kinds of input, checked together.<br>**Guest values:** every value of the bounded domains, over all nine kinds. Decode faults exactly when an id is unknown or the arena is too small: with a two-unit arena, that is a WriteDescriptorSet's third array allocation or the third known link of a query chain, which is the pNext recursion running out of arena. Otherwise it consumes every token and yields the guest's struct. Query replies carry the driver's values for the guest's known links.<br>**Hostile bytes:** every one-token corruption and every truncation of seed commands.<br>**For both:** nothing unwritten or unresolved reaches the driver, because each early return of a decoder comes with the fatal flag. |
| `replace_oob` | violation | The spec's `decode_array_size` faults only when K > count. An array shorter than `descriptorCount` is therefore accepted, and the replace loop runs past it. |
| `shader_codesize` | violation | `codeSize / 4` rounds down, so a codeSize of 5 gives a 4-byte `pCode` and no fault. |
| `encode_truncate` | violation | The pNext encoder skips a foreign link and continues, where spec 4.1 says to truncate. |
| `clear_color` | violation | `VkClearColorValue` with a short array marker leaves union components unwritten, with no fault. |
| `ctrace_sessions` | pass | Two clients register in either order, before or after `ctrace_init`. Two sessions start and stop concurrently while the clients emit.<br>**RegisteredRangesOwned:** each client's range in `g_categories` is its own, at the returned offset.<br>**EventIndexRegistered:** every emitted index is below the registry count.<br>**StateMatchesEnabled:** each client's stored mask for a category is exactly the set of instances that have it enabled, however the two sessions' enable and disable rounds interleave. |
| `ctrace_attribution` | violation | A session enables the second client's categories before its `category_index_base` store, or its relaxed load reads the stale 0. The event is then filed under the first client's category. |
| `names_lookup` | pass | Asserts on, contiguous layout. Every list of up to three names over {"", "a", "b", "ab"} is checked, including duplicates and prefixes.<br>**LookupFindsFirstMatch:** a declared name resolves to its first declaration.<br>**ResultNamesQuery:** any other name aborts rather than yielding an index. |
| `names_release` | violation | With the assert compiled out, an undeclared name yields `max - 1`, which is another category. With no categories it yields SIZE_MAX. |
| `names_layout` | violation | The category objects are not laid out as one array after `*catlist`, so a declared name is not found. |
| `minijail_lifecycle` | pass | Every caller program of five calls on two jails, with two children that interleave with it in every way.<br>**StatusReportedOnce:** wait and kill on a jail report a non-negative status at most once, and it encodes how the jail's first child ended, whichever of its own exit, an outside signal and the kill's SIGTERM came first.<br>**KillReturns (liveness):** a kill whose SIGTERM can end the first child returns. |
| `ctrace_overflow` | violation | Three clients of two categories, with a five-slot table. Registration runs past `kMaxCategories`: `ctrace_register_categories` has no bound check. |

Each property of a passing run has a mutant in `PROJECT.json`: a plausible bug in the mapped code that TLC shows breaks it. The ctrace mutants:
- registration's loop running one too far;
- the offset taken after the loop;
- the macro without its `instances != 0` test;
- a callback that ORs the mask instead of storing it;
- a registry that calls back with the changing instance's bit instead of the category's mask;
- a `string_eq` that calls a prefix a match;
- the lookup without its assert.

The minijail mutants are:
- a wait that does not record the child as collected;
- a kill that waits without sending SIGTERM.


## Bounds and why they are enough

**Renderer.** Ids are {0, 1, 2}: null, a live object, and an unknown id. Arrays have counts 0 and 1, and chains have up to three links.
- ArenaCap is 2 in the round-trip run, so both a full WriteDescriptorSet (three arrays) and a query chain of three known links run out of arena mid-decode. The out-of-bounds run uses 3, so that its short array is allocated.
- Corruptions use values {0, 1, 2, 3}, which cover the absent and present markers, a wrong sType and an unknown id, at every position.

**ctrace.** The passing run has two clients of one category each, with kMaxCategories = 4, and two data-source instances.
- Both registration orders occur.
- A second range sits at a non-zero offset, which is what a stale base of 0 gets wrong.
- Each session can cycle while registrations happen and while the other session starts or stops.
- One category is enabled for both instances at once, the case a one-instance unit test cannot reach.
- MaxEvents = 2 allows one event per client, or two events from one client, in any phase.

Two categories per client with two instances is past TLC's reach here: the run did not finish in 30 minutes. The attribution and overflow runs keep two categories per client and one instance. The overflow run needs three registrations to pass a table that two fill.

**Name lookup.** Lists have up to three names over a two-letter alphabet with the empty name, which gives first versus later duplicates, prefixes and not-found. `SizeBits = 8` stands for the 64-bit size_t. Only the wrap of `0 - 1` matters, and it behaves alike at any width.

**Minijail.** Two jails, so that `minijail_copy_jail` has a source and a target. Two children, so that a jail can have a second child that is not its first. The caller makes five calls. That is enough for new, run, wait and a second wait, for new, hook, run and kill, and for new, new, copy, run and wait. One exit code (0) and one outside signal (SIGKILL) stand for the rest; SIGSYS comes from the seccomp filter. Every error outcome of setup and exec is enumerated. One hook event stands for the three: they differ only in when the hook runs in setup. One seccomp filter setter and one mount setter stand for their groups: within a group the calls have the same effect here. Five calls also reach new, run, a restriction added while the child sets up, and wait. This run takes about two minutes.

## Fairness

The ctrace model assumes no fairness and checks only safety. Its blocking calls wait for Perfetto's service thread. That they return is Perfetto's promise, not ctrace's, so a liveness property would only restate the assumption.

The minijail model assumes weak fairness for the kernel delivering a pending SIGTERM and for `waitpid` returning once the child has ended. A child's own exit, an outside signal and every caller call have none: a program may run forever, and a caller may stop. The caller stops for good after an abort or its last call, so deadlock is not checked.

## What is not modelled, and why

- The C source of the cs primitives and the dispatch loop is not in this repository. Both are modelled from the spec, as spec_modelled.
- Scalar widths in the codec are not modelled; each scalar is one token.
- Generated functions that no modelled command reaches are not modelled. These are the `VkLayerProperties` encoder and partial decoder (an output of layer enumeration, whose reply no property reads), the no-op `_handle` functions of fixed-layout structs, and the standalone `VkWriteDescriptorSetInlineUniformBlock` `_pnext_temp`, `_temp` and `_handle`. `VkWriteDescriptorSet` decodes that link with its `_self_temp`, which is modelled.
- ctrace parts not modelled:
  - `ctrace_add_clock_snapshot` writes a packet, and the trace contents and file output are data that no property looks at;
  - the flow ids of the async events;
  - the registry's `Init` (unit test 30-37), which copies compile-time categories, of which ctrace has none.
- Perfetto's own data-source state is outside this repository. Only its calls into ctrace are modelled, as the unit test pins them. Its limit on data-source instances is not modelled: a start is taken only when an instance is free.
- The model's caller checks a nullptr handle, as the header asks. So a null handle passed to `ctrace_trace_stop` remains a hazard with no property.
- Whether Perfetto drops an event whose loaded mask names a session that has since stopped is decided inside Perfetto.
- minijail: the restriction setters not listed above record data whose effect is only the kernel's: uid/gid, no_new_privs, securebits, signal masks, ipc, uts, net and cgroup namespaces, rlimits, cgroups, Landlock rules, fd preservation, preload path and logging. None of them changes a status `minijail_wait` can return, so no property tells them apart. The capability calls are modelled only for their ordering rules; what the capabilities are is the kernel's. Calls from several threads are not modelled: the header does not say the calls are thread-safe. Hooks with an LD_PRELOAD variant, and `minijail_copy_jail` after a fork, are modelled as the calls' preconditions, because the header only forbids them.
- `virtgpu.h` is declarations. The minigbm files are tests and a mock of a library that is not here.

## Plan for later work

1. A refinement: VnRenderer against an abstract "command accepted iff well-formed" specification.
2. Layer and extension enumeration as query commands, replying with `VkLayerProperties` and `VkExtensionProperties` arrays.
