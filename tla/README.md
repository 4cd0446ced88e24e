# TLA+ verification of PS4Recomp

PS4Recomp translates a PS4 program (x86-64) ahead of time to ARM64 and links it
with a C/Objective-C runtime that stands in for the PS4's kernel and system
libraries.  This directory holds TLA+ models of that runtime, the TLC
configurations that check them on small instances, and TLAPS proofs of the most
important properties for instances of every size.

All paths below are relative to `pkg/runtime` in the repository unless they say
otherwise.

## 1. The system

### 1.1 Parts

| part | source | state it keeps | operations | model |
|---|---|---|---|---|
| guest mutex, condition variable | `kernel/sync/ps4_sync.c` | per mutex a node: owner, count, type, waiters, host lock `lk`, host condition `cv`; per condition the mutex last waited with | lock, timed lock, trylock, unlock, destroy; wait, signal, broadcast | `GuestMutex` |
| sync arena, handles, once, guards | `kernel/sync/ps4_sync_objects.c`, `ps4_sync.c` | slots, free list, tables from handle to host object; once controls, guards | first use, lookup, destroy; once, guard acquire, release, abort | `SyncObjects` |
| guest threads | `kernel/threading/ps4_threading.c` | `g_threads`, `g_gc_list`, per thread a reference count, a state, a tid | create, exit, join, detach, collect | `Threading` |
| semaphores | `kernel/sync/ps4_semaphore.c` | two tables of slots with a mutex and a condition each | init, wait, timed wait, post, destroy; create, signal, cancel, delete | `Semaphores` |
| event flags | `kernel/sync/ps4_event_flag.c` | a table of patterns | create, set, clear, cancel, poll, wait, delete | `EventFlag` |
| event queues | `kernel/equeue/ps4_equeue.c` | 128 queues, rings of 64 events | create, post, trigger, remove, wait, delete | `EventQueue` |
| asynchronous I/O | `kernel/aio/ps4_aio.c` | `g_id_state[512]`, next index | submit, poll, wait, cancel, delete | `Aio` |
| guest memory | `core/recomp_runtime.c` | list of extents, change counter | allocate, map, commit, free, protect | `GuestMemory` |
| direct memory | `kernel/memory/ps4_direct_mem.c` | list of blocks, aliases | allocate, map, release, query | `GuestMemory` |
| file system | `kernel/vfs/ps4_vfs.c`, `ps4_pak.c` | mounts, hash table of archived files, descriptors | mount, unmount, resolve; load, find, open, read, seek | `VfsMounts`, `VfsPaths`, `PakFiles` |
| directory enumeration | `kernel/syscalls/ps4_syscalls.c` | cache of listings per descriptor | open, getdirentries, close | `GuestDirs` |
| guest exceptions | `modules/libkernel/ps4_kernel_sys.c` | table of handlers, context saved by the signal handler | install, remove, raise, handle, return | `GuestExceptions` |
| modules | `modules/libkernel/ps4_sysmodule.c` | registered, started and loaded modules | register, load, start, list, unload | `Modules` |
| present queue | `modules/libSceVideoOut/ps4_present_queue.c` | state, order, keep flag of up to 4 slots, one credit | acquire, submit, cancel, grant, take, release, claim_drawable, drain, stop | `PresentSlots`, `PresentQueue` |
| held frames, presenter | `modules/libSceVideoOut/ps4_metal_screen.m` | held textures, event values, timer, drawable | held_begin, held_take, drop, timeout, release_held, CPU present | `FlipPipeline` |
| flip order, GPU watchdog | `modules/libSceGnmDriver/ps4_gnm_draw.mm` | flip sequence numbers, `S.hung`, fences | Present, CompleteFlip, AfterGpu, GiveUpGpu | `FlipPipeline` |
| video out | `modules/libSceVideoOut/ps4_videoout.c` | ports, buffer sets, pending flips, labels | open, register, flip, vblank, completion, close | `VideoOut` |
| GNM driver | `modules/libSceGnmDriver/ps4_gnmdriver.c`, `ps4_gnm_wait_queue.h` | compute rings, registrations of interrupts | map, doorbell, run, suspend, resume; build, patch, submit packets | `GnmDriver` |
| pending writes, budget | `ps4_gnm_pending_writes.h`, `ps4_gnm_membudget.c` | index of ranges; window and texture counts | add, query, complete; purge, evict | `GnmLedgers` |
| frame capture | `ps4_gnm_capture.cpp` | learned passes, blobs, manifest | learn, select, store, write, parse | `Capture` |
| sound | `modules/libSceAudioOut`, `libSceAjm`, `libSceAudio3d`, `libSceNgs2`, `libSceAudiodec` | ports and rings; contexts, batches, decoders; registries | see 2.4 | `AudioOut`, `Ajm`, `Audio3d`, `Ngs2`, `Decoders` |
| video | `modules/libSceAvPlayer`, `libSceVideodec`, `libSceVdecsw` | packet, buffer and frame queues; held pictures | see 2.4 | `AvPlayer`, `Decoders` |
| save data | `modules/libSceSaveData/ps4_savedata.c` | mounts, caches, files on disk | mount, unmount, set parameters, memory set, sync | `SaveData` |
| services | `libSceNpTrophy`, `libSceAppContent`, `libScePlayGo`, `libSceRtc` | contexts; add-ons; chunks; none | see 2.5 | `Trophy`, `TitleContent`, `RtcClock` |
| fibers | `modules/libSceFiber/ps4_fiber.c` | per fiber object a state and a host; workers; running lookups | Initialize, Run, Switch, ReturnToThread, Finalize, lookups | `Fiber` |
| rest of the runtime core | `core/` | process and thread contexts | start-up, dispatch, faults | no: host-specific control flow |
| rest of the renderer | `modules/libSceGnmDriver` | Metal objects, caches | draws, dispatches | no: Metal calls |
| other `libSce*` modules | `modules/*` | little | shims and stubs | no |
| toolchain (Go) | `pkg/elfloader`, `disasm`, `analyzer`, `lifter`, `emitter`, `cli`, `cmd` | none that is shared | parse, recover control flow, translate, emit, build | no: sequential; instruction semantics are tested differentially |
| shader recompiler | `3rdparty/gcn-recompiler` | | | no: third party |

`PROJECT.json` has the same list under `components`, with what is left out of
each part.

### 1.2 How they interact

* The recompiled guest code calls shims.  Each guest thread is a host thread, so
  every kernel object is shared memory under host mutexes, condition variables
  and C11 atomics.
* Fibers move guest code between host threads (coroutine mode) or hand a baton
  between host threads (thread mode).  Signal handlers look a running context up
  through the worker table, where they may neither lock nor wait.
* A guest flip calls `Present` in the renderer.  It gets a present slot, or its
  frame is held in a texture, or it is presented by the CPU.  The presenter
  thread takes slots and held frames in order, obtains a drawable and commits a
  copy that waits on a shared event for the renderer's conversion.  When the copy
  is done, or the frame is dropped, late or given up, the flip's completion is
  run; `CompleteFlip` puts completions back in flip order, and the video-out port
  clears the label of the buffer shown before and posts its events to the guest's
  event queues.
* Direct memory aliases physical blocks into the extents of guest memory; an
  unmap of an extent takes the aliases with it.  The renderer keeps the list of
  unmapped ranges until the change counter moves.
* Save data, add-ons and paks put entries into one mount table, through which
  every guest path is resolved.
* 3D audio submits its mixed grains to audio-out ports, releasing its own lock
  around every output.

### 1.3 What is hard

* Kernel objects: a call looks its slot up without a lock, so the slot may be
  deleted and reused before the call enters the object's mutex; a waiter is woken
  and finds that another took what it waited for.  Correct means: nobody sleeps
  while what it waits for is there, and records say what happened.
* `GuestMutex`: owner and waiters are accessed without the host lock; timeouts
  race with signals; the mutex is given up before the condition wait sleeps.
* `Threading`: join, detach, exit and collection drop references in any order,
  and the last one frees.
* Guest memory: a free releases pages between two locked phases.
* `PresentQueue`, `FlipPipeline`: nine actors under two locks, with events that
  are signalled by the GPU and by the CPU.  Correct means: each flip completes
  exactly once and in order, even if the GPU fails.
* `Fiber`: an object becomes claimable while its stack is still in use; objects
  are freed under lock-free readers.
* Libraries: a lock is released around a guest callback, an output or a decode;
  handles are reused; workers, decoders and the guest pass buffers around.
* `SaveData`: the process may end between any two writes.

`PROJECT.json` lists each such place with its line under `hazards`, with the
properties that cover it, or why none does; section 8 has the further ones.

## 2. The modules

An operator has the name of the function it models; a function of several steps
is split into actions named after the part they model, with a label in `pc` (or
in a per-thread call record) saying where the caller is.  A section of code under
one lock is one step.  A component's next-state relation stands for the shims
through which the guest may make any of its calls at any time; a shim takes the
arguments out of the guest's registers and refuses a null pointer.  An operator whose comment begins with "Mutant:" is a
plausible defect, used to confirm that a property notices it; no specification
uses one.  Every conjunct of a property has such a mutant beside the code it is
about.

A constant such as `CloseBusy` or `ReuseClosing` says whether the guest does
something that the library does not protect itself against; where it is FALSE
the run shows what holds for a guest that keeps to the rule, and section 5 says
what happens to one that does not.

### 2.1 Presentation, mutexes, fibers

| module | what it is |
|---|---|
| `AbstractMutex` | what a guest mutex promises: an owner, a depth, a condition wait that saves and restores the depth |
| `GuestMutex`, `GuestMutexProofs` | the node's code, one step per racing access, and its theorems |
| `PresentSlots` | the `_locked` operations of the present queue, without threads |
| `PresentQueue`, `PresentQueueProofs` | the queue with its producer, presenter, completion handler and drainer, and its theorems |
| `FlipPipeline`, `FlipPipelineProofs` | `PresentSlots` composed with held frames, GPU, timers, watchdog and flip order, and its theorems |
| `Fiber`, `FiberProofs` | fibers, workers and lookups in both modes, and its theorems |

#### GuestMutex

`owner`, `count`, `type`, `waiters`, `lk` are the node's fields; `live` says
whether the handle table still reaches the node; `mode`, `late`, `depth` are
locals of the slow path and of the condition wait.  `held` and `owed` are history
variables: the depth the guest believes it has, and the condition waiters a
thread's signal must reach.

* The accesses of `owner` and `waiters` that race are separate steps; accesses to
  data that only the owner or the holder of `lk` touches are merged with them.
* `owner` and `waiters` are sequentially consistent.  The code asks for that in
  the accesses that matter; the failure order of the compare-and-swap is relaxed,
  and arm64 compiles both outcomes to one CASAL.
* Calls that return an error without changing anything stutter.
* A host condition variable may wake spuriously and a timed wait may time out at
  any moment (`host_wake`).
* `Quiet` is what the guest must respect when it destroys a mutex: no thread
  holds it or is about to.  A late `release_check`/`release_signal` of an earlier
  unlock is allowed, and meets the recycled node.
* Left out: the `PS4_MUTEX_LEGACY` scheme and what a host read-write lock does.
  The handle lookup, condition variable destruction, once controls and guards
  are in `SyncObjects`.

#### PresentSlots and PresentQueue

Each operation holds `q->mu` throughout, so each is one step; a wait is a step to
`asleep`.  `mailbox` is chosen at the start from `Policies`.  `shown` is a history
variable.  Left out: the statistic `superseded`, the parsing of the mode name and
`min_duration`, which are pure.

#### FlipPipeline

* A flip is its sequence number.  `next_order` and `ev_value` of the held frames
  advance together, so one number stands for both; the submission number of a
  slot stands for its ready value.
* The hold depth is chosen at each read from `HoldDepths`.
* Drop listeners and completion handlers are `jobs` that advance step by step;
  the locks are released between their steps as in the code.  A loop that runs
  after an unlock may interleave freely with others, a superset of the code's
  orders.
* A GPU signal never lowers an event (`max`); the CPU's write sets it exactly.
* `release_held` completes the frames and raises both events in one step.
* `faults` selects what may go wrong: a texture allocation fails, a command
  buffer fails, the GPU is given up, a frame must be presented by the CPU.
* Metal (queues, events, drawables) is external: queues execute in order, a
  command buffer may fail before its signal, handlers run later in any order.
* Stopping the presenter is left to `PresentQueue`: here it would happen only when
  the guest's entry has returned and the process is about to end.

#### Fiber

* Each load and store of a fiber's `state`, of `current`, of the worker table and
  of the lookup count is a step.  Spinning on a SUSPENDING fiber is a step that
  is not enabled.
* `cpu[p]` is the endpoint (a guest thread's own code or a fiber) that host
  thread `p` executes; `pc` belongs to the endpoint, because a fiber carries its
  call with it.
* Checks of the guest's context arguments may fail at any time (`claim_undone`).
* Hosts are allocated once each, so a use after free is visible.
* The guest must initialise only memory that is not a live fiber.
* Which context a lookup searches for is nondeterministic.
* Left out: argument values, TLS adoption, names, statistics, GetInfo, Rename.

### 2.2 The kernel

`KernelProofs` has the theorems about `Threading`, `Semaphores`, `EventFlag`,
`EventQueue`, `Aio`, `SyncObjects`, `SaveData` with `VfsMounts`, and `GuestMemory`; the
lemmas about the last are in `MemoryProofs`.  `ServiceProofs` (2.5) has those about
`GuestDirs`, `GuestExceptions` and `Modules`.

* `Threading`: the blocks are allocated once each, so a use after free is
  visible.  `refcount`, `state` and the flags change under `t->lock`, so each such
  section is one step.  The guest names a thread in one join or detach, after its
  creation returned (POSIX).  A failing `pthread_create` is an action.
* `Semaphores`, `EventFlag`: `life` counts the objects made in a slot, so that a
  late call of an earlier one is told apart; such calls are in the model and do
  what the code does.  A timed wait may time out at any moment, and a wake-up may
  be spurious.  A pattern is a set of bits.
* `EventQueue`: the ring with `head`, `tail` and `count` beside `accepted`, the
  queue it should be.  An event is its ident and filter.
* `Aio`: a submit runs its requests on the caller; only the id's state is shared.
* `SyncObjects`: the arena's slots, guest variables that are copied by the guest,
  and the tables; a guest has no copy left when it destroys an object.  The second
  part is `pthread_once` and the guards, whose waiters and aborts interleave.
* `GuestMemory`: one page stands for 16 KiB; the extents are their first pages and
  the kind of every page.  `recomp_vm_free` has its three phases, the middle one
  without `vm_mutex`.  On top of them the blocks of direct memory, and `host`, the
  host's page table with what each guest page aliases.
* `VfsMounts` is the table alone, extended by `SaveData` and `TitleContent`.
  `VfsPaths` is the resolution of a path over a host tree that the game changes;
  a path is a sequence of names, `Folded` its case folding.
* `PakFiles`: names are numbers with a hash and a parent (one locale less), so that
  collisions, growth and the fall-back happen; contents are told apart by the
  archive.
* `GuestDirs`: listings are snapshots per descriptor; descriptors are given out
  lowest first, as the host does.
* `GuestExceptions`: one thread with its own code and a fiber, registers as one
  value, a stack with a red zone; the signal may come at every step.
* `Modules`: init functions are guest code and run without the mutex.
* `SaveData`: a call is a sequence of writes to a disk that the process may end
  between; a file opened for writing is empty until closed.

### 2.3 Graphics

`LibraryProofs` has the theorems about the rings and interrupts of `GnmDriver` and
about `VideoOut`.

* `GnmDriver`, rings: each dword of a ring stands for a packet; a doorbell hands
  over one or two spans; a queue stops at a wait and is resumed by the watchdog or
  by its time-out.  Packets: buffers of packet headers and bodies; the builders
  write the packets that the driver's functions write, and a submission patches
  the flip request in.
* `VideoOut`: a flip is counted under the port's locks and presented without
  them; the two callbacks of the renderer are steps.  Flips the renderer has queued
  are reached and finished in order; one without a buffer, or that the renderer
  refuses, is finished by the thread that submitted it and may overtake them (503,
  534).  An event's data is signed and packs a count, a time and the argument.
  `sole` and `held` are history: which flip locked its label alone, and whether the
  buffer shown was flipped so.
* `GnmLedgers` has the two records of memory the GPU uses.  Pending writes: `pw_scan`
  is the plain list the index replaced; every answer is compared with it.  The
  budget: sizes are in windows, time in command buffers; the sampler's reads are
  separate steps.
* `Capture`: selection (ranges with a largest address, unsorted and touching lists),
  writer (memory of four pages with a guard page, files that fail) and manifest
  (strings of escapes, numbers beyond a double's exact integers).

### 2.4 Sound and video

`LibraryProofs` has the theorems about the batches of `Ajm` and about the calls of
`Decoders` (audio and video).

* `AudioOut`: a frame is its number in its port's life; the device's period, the
  250 ms watch and the 20 ms sleep are actions.  The dump has its ring, its writer
  thread and the end of the process.
* `Ajm`: `g_ajm_lock` is held over steps only by `sceAjmFinalize`.  The decoder is
  its accounting: samples decoded, skipped, written and left; a codec is external
  and gives a frame or an error.  Chunks are words of a buffer.
* `Audio3d`: every section of `g_lock` between two releases is a step.
* `Ngs2`: the allocation handler is guest code: for a rack it runs with the mutex
  held, and whoever enters the library then waits.
* `Decoders`: tables of reference-counted decoders; a generation
  tells handles apart; a call is a label between its locked sections.
* `AvPlayer`: demuxer, decoders and controller as processes over the queues; a
  packet makes one frame or none.
* `Decoders`, reordering: the stream is what a conforming encoder writes; pictures may come
  late or never; the state has the POC the encoder meant beside the computed one.

### 2.5 Services

`ServiceProofs` has the theorems about `Trophy` and the services of 2.2 named there.

* `Trophy`, and `TitleContent` (the add-ons of `libSceAppContent` and the chunks of
  `libScePlayGo`): one call is one step; the files on disk are chosen at the start,
  damaged ones included.
* `RtcClock`: hours since 1970; a calendar turned day by day is the reference for
  the conversions.  The host's time zone is UTC (`HostZone`).

### 2.6 Instances

`MCRuntime`, `MCLibraries` and `MCServices` put components that share no state
into one state space: `focus` is chosen at the start and only that component
moves.  The invariants of a run are conjunctions, named for what they say, with
one conjunct per component.  `MCThreadsLive` does the same for the liveness of
fibers and threads.

## 3. What is checked

| run | instance | states | shows |
|---|---|---|---|
| `guest_mutex` | 3 threads, types {1, 2}, depth 2 | 157,538 | type, mutual exclusion and depth, waiter count, no lost wake-up, signals reach waiters, refinement of `AbstractMutex`, a free mutex with a sleeper is eventually taken |
| `present_queue` | 3 slots, both policies, 5 frames | 98,144 | never ahead of the display, no lost wake-up, drained before a CPU present, shown in order, kept frames presented, every FIFO or kept frame that is queued is shown unless the queue is stopped |
| `flip_pipeline` | 1 slot, 2 textures, 3 flips, three fault scenarios | 2,307,876 | completions once, textures reused only when idle, presenter woken, timeout covers every held frame, drawable lent once, screen in flip order |
| `flip_live` | the same without faults | 89,209 | every flip completes |
| `fiber` | 2 guest threads, 2 objects, 3 hosts, 1 lookup, a table of 1 slot | 401,489 | stacks exclusive, IDLE fibers are nobody's, lookups touch no freed memory, the running fiber is the worker's current one and the TCB names it |
| `threads_live` | fibers with 2 hosts and no lookups; threads as in `kernel` | 77,191 | a hand-over ends, a suspending fiber becomes claimable, a join of a thread whose code has ended returns |
| `kernel` | 16 components of the kernel, the caches and the storage | 949,809 | see below |
| `libraries` | 16 parts of the graphics and media libraries | 1,376,128 | see below |
| `services` | 12 parts of the services and the capture | 783,123 | see below |
| `flip_hang_live` | 2 flips, GPU given up | | violated: finding 1 |
| `audio3d_reopen` | 2 threads, 1 port | | violated: finding 2 |
| `dir_enumeration` | 2 threads, 2 directories | | violated: finding 3 |

The conjuncts of the three composed runs:

| property | component | says |
|---|---|---|
| `ThreadMemorySafe` | `Threading` | no block is freed while a list, a call or its own host thread reaches it |
| `WaitersServed` | `Semaphores`, `EventFlag`, `EventQueue`, `Aio`, `SyncObjects` | nobody sleeps on an object while what it waits for is there, over timeouts, cancels, deletes and slot reuse; an id is in progress only while its submit runs; what a once control or a guard protects is initialized once |
| `MemoryExact` | `GuestMemory`, `SyncObjects` | extents and blocks are uniform and merged, host aliases are the recorded ones, what is said to be available can be allocated; one object of the arena per variable |
| `RecordsExact` | `EventQueue`, `GnmLedgers`, `PakFiles` | the ring is the queue of accepted events, answers are those of a scan, accounts are exact, a name is found in the archive loaded last |
| `StorageKept` | `SaveData`, `VfsMounts` | parameters and memory survive a crash in any call, a mounted save resolves to its directory |
| `UnmappedChangeNoted` | `GuestMemory` | a step that changes the unmapped ranges moves the change counter (action property) |
| `EvictsLeastRecent` | `GnmLedgers` | an eviction takes the least recently used idle textures, enough and no more (action property) |
| `HandOversExact` | `GnmDriver`, `VideoOut`, `Ajm`, `Decoders` | ring spans run once and in order, a label is locked only by a flip under way or shown, and stays locked until the flip that follows is done, unless its buffer is registered or flipped again; batches are run or cancelled and waited for once; an audio decoder lives exactly while it is referred to, converts each unit's own format and keeps to the guest's room; a video decoder reports each unit and shows each picture once and in order |
| `StreamsExact` | `GnmDriver`, `Ajm`, `AudioOut`, `Audio3d`, `Ngs2`, `Decoders`, `AvPlayer` | packets tile the buffer, jobs are parsed as built, samples contiguous; frames played once and in order, the dump a prefix of them; grains conserved; no orphan handles; pictures in display order, none lost or repeated; every buffer has one owner |
| `ServicesExact` | `Trophy`, `Modules`, `GuestExceptions`, `GuestDirs` | trophies of their own context; a module started once; an exception leaves the interrupted code's registers, stack and red zone as they were; a listing complete and without repetition |
| `ContentExact` | `VfsPaths`, `TitleContent`, `RtcClock`, `Capture` | one spelling per path; the add-on that was listed is the one mounted; sizes those of the file; conversions agree with the calendar; producers are those a walk back gives, what is stored is what ran, what is written parses back |

### 3.1 Bounds

* `GuestMutex`: a lost wake-up takes a holder, a sleeper, and a third thread that
  barges or signals.  Types 1 and 2 differ in whether a relock counts; the others
  behave as one of them.  Depth 2 is the first at which a saved depth differs
  from the fresh one.
* `PresentQueue`: 3 slots are what the code configures (`PRESENT_SLOTS`).  5 frames
  reuse every slot and leave two frames for replacement.
* `FlipPipeline`: with one slot and two textures the third flip meets a full
  slot and full textures, so it drops; hold depth 1 makes that happen earliest.
  The fault scenarios are separate because all faults together exceed 12 million
  states; failures and CPU presents are combined.  Mailbox is checked in
  `PresentQueue` only.
* `Fiber`: two guest threads and two objects are the least with a switch and a
  claim at the same time; the third host lets an address be initialised again
  after its fiber was finalized.  `MaxSlots` is 1 so that the table is full when
  the second worker comes.  Symmetry is used in the safety run only.
* Tables have one or two slots and every object two lives, so that slots are
  reused under late calls.  Queues and rings have 2 or 3 places, so that they are
  full and wrap around; counters that go round (`AIO_MAX_QUEUES`, `AdecGenerations`,
  `MaxFrameNum`, `MaxPocLsb`) do so within the bound.
* Three threads where two sleep and one wakes (POSIX semaphores, once); two
  elsewhere: one inside a call, the other deleting, closing or calling.
* `GuestMemory` has three guest pages, enough for a free extent between two others
  and a split in three, and four physical ones; without aliases (`DmAliases`
  bounds those there are before another is made) blocks and memory are
  checked as two foci.
* `RtcClock` starts before every rule of the calendar (leap days, centuries, 400
  years, 1970, the first and last year) and goes on for 400 days.
* `SaveData` allows one crash: two crashes in two different calls may leave no
  readable copy of the parameters, see section 5.

Every bound is a constant and stands in a guard.  Where bounds end the system
(frames, lives or calls used up, the queue stopped, all threads gone) deadlock
is not checked.  In `GuestMutex` it is.

### 3.2 Fairness

* `GuestMutex`: weak fairness of each thread inside a call (the host scheduler
  runs it).  The guest owes nothing: it need not call, nor unlock.  Spurious
  wake-ups and timeouts are never assumed.
* `PresentQueue`: weak fairness of the presenter and of the completion of a
  presented frame; `next_drawable_timed` gives up after one second, so the
  presenter does not wait for the display forever.
* `FlipPipeline`: strong fairness of steps that need `q->mu`, because the
  presenter takes and leaves it again and again; weak fairness of the others.
  The GPU is fair until it is given up, never after; it need not fail or hang.
* `Fiber`, `Threading`: weak fairness of the running steps of a call and of a
  thread's exit once it has begun.  The guest owes neither a call nor an exit.

### 3.3 Mutants

For each property of a passing run `PROJECT.json` names one mutant under which
TLC finds it violated.  The modules hold more of them, one beside each conjunct
of the composed properties, to be tried by replacing the body of the definition
they follow.

## 4. What is proved

The proofs hold for every value of the constants that satisfies the assumptions.

**GuestMutexProofs** (assumes: the set of threads is finite and `NoThread` is not
one; types are in 0..4; the depth bound is positive).  No property is inductive
as it stands: mutual exclusion needs to know where an owner may be, a wake-up
needs to know who holds `lk`.  The inductive invariant `IInv` is the conjunction
of

* `TypeOK`;
* `LkInv`: `lk` is held exactly by the thread inside a section;
* `ModeInv`: a thread in a condition wait has a depth to restore, and only a
  timed lock can be late;
* `OwnInv`: the owner is at one of the labels an owner can be at, with the depth
  it believes, and nobody else is;
* `WaitersCounted`;
* `LiveInv`: a destroyed node is quiet;
* `WakeupInv`: `NoLostWakeup`, also for a thread that has failed its last
  compare-and-swap and holds `lk` but does not sleep yet; that case cannot be
  seen at a sleeper and makes the property inductive;
* `SigInv`: the waiters owed a wake-up are still parked.

`Invariance` proves it action by action.  `TypeCorrect`, `MutualExclusion`,
`WaiterCount`, `WakeupSafety` follow; `SignalSafety` is an action property, from
the same invariant; `Refinement` shows that each step is a step of
`AbstractMutex` or stutters, with the abstract depth kept by a waiter mapped to
`depth` while the guest does not hold the mutex and to 0 otherwise.

**PresentQueueProofs** (assumes: 1 to 4 slots, any subset of the two policies,
any bound on frames).  `IInv` is `TypeOK`, `NeverAhead`, `OwnedByProducer` (who may change a slot),
`NoLostWakeup`, `DrainedFirst` and `OrderInv`: queued orders are distinct, at
most `next_order` and later than what was shown, and in the FIFO modes at most
one frame is not shown yet; this is what makes `ShownInOrder` follow.  Theorems: `TypeCorrect`, `NeverRunsAhead`,
`WakeupSafety`, `DrainedBeforeCpu`, `DisplayOrder`, `KeptFrames`.

**FlipPipelineProofs** (assumes: 1 to 4 slots, at least one held texture, hold
depths of 1 to 3, any number of flips, any set of the four faults).  The
invariant `FPInv` is built part by part; each part uses those before it.

* `TInv` gives every variable its shape, queues of the GPU included.
* `LentInv`: in the FIFO modes two frames of slots never wait together, and a
  credit means that none does.  `DrawableLent` follows by counting.
* `TimerInv` is `TimeoutCovers` with the orders of held frames at least 1, so that
  a timer armed for order 0 cannot pass for none.
* `WakeInv`: what the presenter has seen is still so at every label between its
  look and its `cond_wait`, not only when it sleeps.
* `UseInv`: a texture that is shown or dropped has one handler, listener or copy
  that will free it, counted over `jobs` and the presenter's queue.
* `ConvInv`: what the GPU has still to write.  As long as it is not given up the
  conversions in its queue have increasing values above the event's, and their
  textures are in use.  `TexturesReused` needs both of the last two.
* `OrderInv`: flips in slots, held frames and in the renderer's hands are all
  later than the screen, slots before held frames.  `FlipsInOrder` follows.
* `OnceInv`: a flip begun and not completed is in exactly one place (the renderer,
  a held texture that owes it, a completion job, a callback, a fence, or waiting
  for earlier ones).  `CompleteFlip` delivers a run of flips; that its last one
  exists (`MaxExists`) is the least-element principle of a well-founded order.

**FiberProofs** (assumes: guest threads and fibers are different and none is
`None`; lookups are finitely many; the table has a slot).  `FIInv` has a part for
both modes and one for each.

* `Base`: which object names which fiber (`ObjectInv`); a claimed object has one
  claimer, and its state says for what (`ClaimInv`); the table lists live workers
  at their slots (`TableInv`); what a lookup holds is live and was listed
  (`LookInv`).
* Without `ThreadMode` (`CoInv`) the argument is about stacks: `cpu` is injective; a
  host thread is on the stack that its `tl_fiber_self` names, except between the
  store of it and the switch; a fiber whose release is pending is SUSPENDING
  and on no stack, or on the one its thread is about to leave.
* With `ThreadMode` (`ThInv`) it is about a token per guest thread: the endpoint
  that runs for it, or the post that will let one run.  There is at most one;
  `current` and the TCB name who has it, and the guest thread's own code waits
  unless it has it itself.

The theorems have the hypothesis `FailsAlone`: a `pthread_create` of a fiber's host
thread fails only in a program with one guest thread.  It is what the run `fiber`
has for `Scenarios`; without it `RunningIsCurrent` is false (section 5.1).

**KernelProofs** is about the composed specification of `MCRuntime`: of its parts
only the one in `focus` moves, so that an invariant of each part is one of the
whole.  (Assumes: finitely many threads at semaphores and event queues; queues
of at least one event, at least two AIO ids; `NoObj`, `NoHolder` and the main thread
are none of the others; no variable is both a mutex and another object; memory
of at least one page, lengths and alignments of at least one.)

* `ThreadIInv`: the memory of a block follows from the lists that hold it and
  from where its host thread is (`ThreadInv`); a call that names a thread keeps it
  listed and is the only one to name it (`CallInv`); what a collector took from
  the list nobody reaches (`ReclaimInv`).  Gives `GuestThreadsSafe`.
* `SemIInv`: a sleeper of the present life of a slot is enough for every token to
  have a woken thread, whoever that is; `SemNoLostPost` alone says nothing while a
  call of an earlier life is in the slot, and such a call leaves.  `EqIInv` is
  `EqNoLostEvent` with the types: a post adds one event and one woken thread.
* `KsemIInv`, `EvfIInv`: the wake-up property slot by slot, with the counts of waiters
  for semaphores, over the slots that no call of an earlier life is in; an event
  flag's sleepers are those of its own life.
  `AioIInv`: an id is in progress only while its submit runs, over the reuse of
  ids that go round.
* `OnceIInv`: at most one thread is in the routine of a control or holds a guard,
  and who sleeps on one finds it busy.  Gives `InitializedAtMostOnce`, and with
  the invariants above `WaitersAreServed`.
* `ObjIInv`: the free list and the live slots part the arena; a mutex is in one
  slot or on the list of free ones; a slot that a variable or a call names is live, and a
  call that destroys a slot is the last that names it (`ObjCallInv`).  Gives
  `ObjectsAreOnesOwn`.
* `MemIInv` (`MemoryProofs`): an extent (a block) is uniform when every page that starts none is
  what the page before it is.  In this form, `Uniform` and `BlocksUniform`, each step is
  an argument about one page; lemmas on least and greatest elements turn it
  back into whole extents and give `ExtentsAndBlocksSound`.  For the aliases,
  `FreeingInv` says that what `recomp_vm_free` noted stays whole extents, mapped and
  nobody else's until its last phase, and `AliasInv` that pages that are not
  mapped, and ranges already detached, have no alias.  Both need that nothing is mapped into
  a reservation being unmapped: `MemoryIsExact` has the hypothesis `~MapWhileFreed`,
  as the run has, and is false without it (section 5.1).
* `ChangesAreNoted` is the action property: a step that changes a page changes the
  generation.
* `SaveIInv`: `SavedInv` says what the two parameter files of a save hold at every write of
  a call, so that one of them can be read when the process ends there; `SavedMemInv`
  that the memory file is what the last sync that returned wrote; `PointsInv` that the
  active entries of the mount table are the mounted saves, one each.  `SavesAreKept`
  has the hypothesis `SaveSound`: the values that stand for a missing and an empty file
  are no parameters and the one for no save is none; there are no more mounts than the
  table has entries, and the process ends once.  The run has `SaveMounts` =
  `MAX_VFS_MOUNTS` = 3 and `SaveCrashes` = 1; with more of either the property is
  false (section 5.1).

**LibraryProofs** is about the composed specification of `MCLibraries`, in the same
way. (Assumes: decoders are called by finitely many threads, none of them 0; rings
and video-out tables of at least one place, every other table of any size, for any
number of calls, units and batches; the argument of a flip fits the bits its event
has for it; units are short or whole and have a rate above 0.)

* `RingIInv`: the spans that are pending and those the doorbell has follow one
  another from the read pointer to the offset rung last (`Chain`), across the end of
  the ring; the doorbell runs spans only of a queue that has none pending, and a
  hardware queue is in one slot.  Gives `RingRunsInOrder`.
* `VoIInv`: a port's counts are the cardinalities of what they count, over
  registering, submitting and finishing; a locked label has a flip that was reached,
  or is that of the buffer shown (`LabelsKept`).  `VoSole` adds that no label is
  cleared early: of a flip that locked its label alone (`SoleOf`) no other reached
  flip has the buffer, and the buffer is not the one shown, so that no completion
  clears the label; once it is the one shown (`HeldOf`), only the next one does.
  Every order of queued and immediate flips is covered.  `LabelsFollowFlips` has
  the hypothesis `~CloseBusy`.
* `AjmIInv`: the unfinished batches of a context are exactly the worker's and those
  of its queue, in the order of their ids; the slot a waiter watches holds its batch
  until the waiter itself frees it.  With `AjmCtxInv` a finalize joins only a worker
  with nothing to do.  Gives `BatchesServed`.
* `AdecIInv`: a decoder's `refs` is the number of table slots and calls that name
  it, and it lives while that is positive; whoever is between the format check and
  the conversion has its lock, so that the converter is still that of the unit.
* `VswIInv`: the same count, `in_lock` in place of the lock, and the stream of a
  decoder (`StreamInv`): the pictures shown or dropped, those queued and those the
  core holds back are consecutive runs of the units' numbers, and so are the inputs
  reported and those whose completion is listed, one behind while a call is between
  decoding a unit and listing it.  An output taken in that gap is what `VswOverlap`
  is about, which is FALSE in the run and in the hypothesis of
  `VideoCallsKeepDecoders`.

`HandOversHold` joins the five as the run checks them.  `~CloseBusy` and
`~VswOverlap` are rules for the guest; without either the property is false (section
5.1).

**ServiceProofs** is about the composed specification of `MCServices`.  (Assumes:
any number of contexts, handles, modules, init functions, opens and stack cells;
finitely many descriptors, not 0, and names of entries; a cache and an unwind list
of at least one place.)

* `TrophyIInv`: ids are given in order and never twice; an id in use finds one slot,
  which holds what was unlocked through that id.
* `ModIInv`: a module's init functions ran as a prefix of their order, and the
  thread that runs them, alone, knows how many; a handle is that of the file it was
  given for; the unwind list has the ranges of the files it names.
  `ModulesStartOnce` has the hypothesis `RangesMatch`, that two spellings of a
  module have one text range, and that ranges with one start are one: a fact about
  loaded images, not about the code.
* `ExIInv`: what the handler was given, the registers of the interrupted code and
  the slot of the TCB are together those the program expects, wherever the signal
  came (`ThreadOwn`).  Hypothesis `~RemoveBusy`.
* `DirIInv`: what a descriptor was given is the beginning of the snapshot in its
  cache slot, which is one of the sets of entries the directory had since; a
  descriptor that is open, not being closed and without a slot was given nothing.
  Hypothesis `DirSound`: descriptors are closed by `sceKernelClose` and are no more
  than the cache has slots.

`ServicesHold` joins the four as the run checks them.  The run satisfies every
hypothesis (`RawClose` and `RemoveBusy` are FALSE, two descriptors have two slots);
the property is false without `~RemoveBusy` and without either part of `DirSound`
(section 5.1).

**Only model-checked**: the liveness properties `FreeMutexIsTaken`, `QueuedIsShown`,
`FlipsComplete`, `HandedOver`, `SuspendedBecomesIdle` and `JoinReturns` (TLAPS proves
nothing about fairness or ENABLED), and what rests on recursion over data:
`RecordsExact` and `EvictsLeastRecent` (`EqRingIsQueue` filters a sequence with
`SelectSeq`, the answers, the accounts and the selection of textures are folds over
sets and sequences), `StreamsExact` and `ContentExact` (packets, chunks, samples,
listings of pictures and the manifest are compared with recursive reference
definitions or folds, the clock with a calendar turned day by day).  Parts of
these two have no recursion and could be proved: section 6.

## 5. Findings

Three statements the code's own comments make are violated by the code; a run
shows each.

1. **A frame held while the GPU is given up never completes**
   (`ps4_metal_screen.m:1597`, run `flip_hang_live`).  `Present` tests `S.hung` on
   entry only.  If the GPU is given up between that and `held_begin`, the frame
   gets an event value after `release_held` raised the event, and nobody signals
   it.  Once the presenter has taken it the timeout skips it, and all later flips
   wait behind it.
2. **A 3D audio port is opened under its close** (`ps4_audio3d.c:398`, run
   `audio3d_reopen`).  Between the last submission's unlock and the closer's
   wake-up the slot looks free; the closer then frees the new port.
3. **Enumeration with a base never ends** (`ps4_syscalls.c:1340`, run
   `dir_enumeration`).  Every call restarts at the first entry.

### 5.1 Other disagreements

Each is reached with the constants named, by checking the property named; the
runs leave it out so that the rest can be shown.

| place | what happens | how to see it |
|---|---|---|
| `ps4_metal_screen.m:1235` | a CPU present overtakes held frames; `presenter_drain` looks at the slots only | `FlipPipeline`, `FaultSets = {{"cpu"}}`, `DrainedFirst` |
| `ps4_metal_screen.m:1354` | a CPU write lowers the shared event: look and write are two accesses | `FlipPipeline`, `FaultSets = {{"fail"}}`, `EventsGrow` |
| `ps4_fiber.c:784` | in thread mode, when `pthread_create` fails for the target, the caller runs on although another thread may have claimed it | `MCFiber`, `Scenarios <- CreateFails`, `RunningIsCurrent` |
| `ps4_avplayer.cpp:1004` | the event for the end of the file is sent only when the player is destroyed (`wait_pop` at 231 returns false for nothing else) | `AvPlayer`, `AvStreams = {"video"}`, `AvPending = 1`, `StopsAtEof` |
| `recomp_runtime.c:1546` | a fixed mapping takes an extent that is being freed and is freed with it; the comment at 1491 excludes it | `MCRuntime`, `MapWhileFreed = TRUE`, two `VmThreads`, `MemoryExact` |
| `ps4_vfs.c:235` | an unmounted entry stays counted, so the table of 32 fills up and later mounts fail silently | `MCRuntime`, `SaveMounts = 4` with `MAX_VFS_MOUNTS = 3`, `StorageKept` |
| `ps4_gnm_capture.cpp:481` | a viewport that is not finite is written as `inf` or `nan`, which the reader refuses; `ps4_gnm_capture.h:333` says it accepts what is written | `MCServices`, `MfNonFinite = TRUE`, `ContentExact` |
| `ps4_videoout.c:345` | a port is closed with flips under way and opened again: a label stays locked | `MCLibraries`, `CloseBusy = TRUE`, `HandOversExact` |
| `ps4_videoout.c:345` | a buffer flipped twice in a row: the second completion clears its label although it is the buffer shown; the comment at 345 says it is locked until the next flip completes | the exception of `LabelsReleased` (in `sole` of `lock_flip_label`) says which flips it leaves out |
| `ps4_audioout.c:909` | a handle is opened again under a blocked writer, which then writes to the new port | `MCLibraries`, `ReopenBusy = TRUE`, `StreamsExact` |
| `ps4_vdecsw.c:543` | output taken while an input call starts the next sequence is called the last picture | `MCLibraries`, `VswOverlap = TRUE`, `HandOversExact` |
| `ps4_syscalls.c:1629` | `syscall(6)` closes a directory and leaves its listing to the next descriptor of that number | `MCServices`, `RawClose = TRUE`, `ServicesExact` |
| `ps4_kernel_sys.c:675` | a handler is removed while its signal is pending, and the process ends | `MCServices`, `RemoveBusy = TRUE`, `ServicesExact` |
| `ps4_rtc.c:302` | an RFC 3339 text in UTC is taken for local time, wrong where the host's zone is not UTC | `MCServices`, `HostZone = 2`, `ContentExact` |
| `ps4_syscalls.c:1283` | a directory read when the cache is full takes the first slot, and that directory starts again | `MCServices`, `GUEST_DIR_CACHE_SLOTS = 1`, `ServicesExact` |
| `ps4_savedata.c:375` | a crash with `param.bin` empty and another, in the next process, with `param.sfo` empty leave no parameters | `MCRuntime`, `SaveCrashes = 2`, `StorageKept` |
| `ps4_threading.c:288` | an exiting detached thread touches its block after a collector may have freed it | `InUse` of `Threading` says which uses it leaves out |

## 6. Not modelled, and the plan

Not modelled: the renderer's draws, dispatches and texture conversion (Metal
calls without an order of their own), start-up, dispatch and fault handling of the
runtime core (host- and architecture-specific), the libraries that are stubs, host
file and network I/O, the codecs' mathematics, and the Go toolchain, which is
sequential and whose correctness is that of instruction semantics.  Inside the
modelled parts, the values the control does not depend on are left out;
`PROJECT.json` says which.  The `ps4_*_destroy` functions that tear a subsystem down
when the process ends are modelled only where their name is an action, and calls
that only report (`ps4_vfs_stat`, `ps4_vfs_access`, `sceRtcGetCurrentTick` and
their like) are left out.

Done: everything in section 2, with proofs for `GuestMutex`, `PresentQueue`,
`FlipPipeline`, `Fiber` and the parts of the kernel, the libraries and the services named in
section 4.

Next: proofs of the parts of `StreamsExact` and `ContentExact` without recursion.

1. Every frame buffer of a player has one owner (`AvBuffersKept` of `AvPlayer`).
2. The dump holds what was played (`DumpFaithful` of `AudioOut`).
3. The add-on that was listed is the one mounted, and a title's areas are its own
   (`AddcontServed`, `AreasOwn` of `TitleContent`).

## 7. Running it

    tlc -workers 2 -config MCGuestMutex.cfg GuestMutex
    tlc -workers 2 -config MCRuntime.cfg MCRuntime
    tlapm GuestMutexProofs.tla
    tlapm PresentQueueProofs.tla
    tlapm FlipPipelineProofs.tla
    tlapm MemoryProofs.tla
    tlapm KernelProofs.tla
    tlapm FiberProofs.tla
    tlapm LibraryProofs.tla
    tlapm ServiceProofs.tla

From `FlipPipelineProofs` on they take 5, 2, 14, 16, 20 and 7 minutes.  The module and
the configuration of each run are in `PROJECT.json` under `runs`.
To look at one component of a composed run, give `Foci` in a copy of its
configuration that component's name only.

## 8. Further hazards

Places that are hard to test beside those in `PROJECT.json`, with their kind, the
properties that cover them where one does, and otherwise why none does.

* `ps4_sync.c:845` (ordering; `SignalReaches`): gc_signal takes the lk of the mutex last waited with; the first wait stores cn->m only under lk, so a signaller that read NULL goes without the lock.
* `ps4_sync.c:625` (stale_state; `RefinesAbstractMutex`, `WaitersCounted`, `NoLostWakeup`): A destroyed mutex's node is recycled for another handle while an unlock of its last use is still between its owner store and its signal; waiters is reset and the late signal wakes threads of the new mutex.
* `ps4_sync.c:420` (liveness): A woken sleeper competes with spinning threads for the CAS and may lose every time. The code lets lockers barge, so a particular sleeper may starve; what it does guarantee, that a free mutex is taken by somebody, is FreeMutexIsTaken.
* `ps4_metal_screen.m:1601` (interleaving; `NoLostWakeup`): A frame is held between the presenter's look at the held frames and its cond_wait; the wake-up must take q->mu or it is lost.
* `ps4_metal_screen.m:1485` (resource_bound; `DrawableLentOnce`, `ScreenInOrder`): A held frame takes the drawable a slot frame in preparation counts on.
* `ps4_gnm_draw.mm:14118` (ordering; `CompletedOnce`, `FlipsComplete`): Flips complete in any order but the guest must see them in sequence; one that never arrives blocks all later ones.
* `ps4_metal_screen.m:1336` (partial_failure; `FlipsComplete`): A command buffer that fails before its signal leaves the presenter's copy waiting on the event value handed out here.
* `ps4_metal_screen.m:1235` (ordering): A CPU present waits for the queued slots but not for held frames, and overtakes them. It happens (5.1): FlipPipeline has the action and the property DrainedFirst, which fails with FaultSets = {{"cpu"}}.
* `ps4_metal_screen.m:1354` (atomicity): Check and write of signaledValue are two accesses while the GPU signals the same event. It happens (5.1): FlipPipeline's EventsGrow fails with FaultSets = {{"fail"}}.
* `ps4_fiber.c:254` (stale_state; `LookupSafe`): A guest thread exits and its worker is freed while a lookup holds the pointer, and the slot is reused by another thread.
* `ps4_fiber.c:301` (resource_bound; `LookupSafe`, `RunningIsCurrent`): The worker table grows by compare-and-swap up to MAX_WORKERS; two threads race for the last slot and for its reuse.
* `ps4_threading.c:288` (interleaving): recomp_thread_exit of a detached thread stores TID_TERMINATED and then broadcasts and unlocks in t, which a concurrent recomp_thread_collect may already have freed (t was put on the gc list before). ThreadMemorySafe leaves these last two accesses of a detached thread out: the model reaches them with the block freed.
* `ps4_threading.c:486` (partial_failure): A failed pthread_create frees the context that t->ctx still points to while t is in g_threads, where recomp_find_thread reads it. ThreadMemorySafe excepts the thread whose creation failed; without the exception the model violates it.
* `ps4_threading.c:225` (resource_bound): recomp_cleanup_system_thread puts t on the gc list but never sets TID_TERMINATED, so it is never freed. A leak per system thread and no wrong access; the action is in Threading.
* `ps4_threading.c:1068` (interleaving): sceKernelIsStack reads the head of g_threads before it takes the mutex and may walk a freed block. A reader outside the modelled calls; one line of code shows it.
* `ps4_threading.c:584` (resource_bound): The 129th TLS key is handed out although only 128 have a destructor slot. Key values are not modelled.
* `ps4_semaphore.c:130` (stale_state): sem_wait never looks at magic: destroyed under a waiter, the slot is reused and the waiter takes a token of the new semaphore. Semaphores reaches it; POSIX leaves destroying a semaphore with waiters undefined, and WaitersServed is about semaphores without a call of an earlier life of their slot.
* `ps4_semaphore.c:586` (stale_state; `WaitersServed`): A kernel semaphore is deleted and its slot reused while waiters woken by the delete have not looked yet. Deletes under waiters and the reuse of the slot are in the model; the property holds of objects that no call of an earlier life of the slot is still in.
* `ps4_semaphore.c:597` (numeric_edge): current_count + signalCount overflows int32 for a large signalCount and passes the test against max_count. The guest's counts are small in the model.
* `ps4_semaphore.c:691` (protocol_sequence; `WaitersServed`): sceKernelCancelSema may set a count above max_count, after which every signal is refused until enough waits.
* `ps4_event_flag.c:120` (stale_state; `WaitersServed`): A flag is deleted and its slot reused while waiters woken by the delete have not looked at magic yet: they go on waiting on the new flag. Deletes under waiters and the reuse of the slot are in the model; the property holds of objects that no call of an earlier life of the slot is still in.
* `ps4_event_flag.c:237` (interleaving; `WaitersServed`): Several waiters match one pattern; the first one clears bits the others were woken for, and a set in between must wake them again.
* `ps4_equeue.c:291` (interleaving; `WaitersServed`): Two waiters are woken for one event: the one that comes second must go on waiting with the rest of its timeout.
* `ps4_equeue.c:130` (resource_bound; `RecordsExact`): An event posted to a full queue of 64 is dropped, and the poster is told it was posted. The property counts as posted only what found room; that the poster is told otherwise is a choice of the code.
* `ps4_equeue.c:92` (stale_state; `WaitersServed`): An event queue's slot is reused while a waiter woken by the delete has not returned. Deletes under waiters and the reuse of the slot are in the model; the property holds of objects that no call of an earlier life of the slot is still in.
* `ps4_aio.c:415` (interleaving; `WaitersServed`): A request cancelled while it executes is set to ABORTED and then overwritten by COMPLETED.
* `recomp_runtime.c:1546` (interleaving): An extent named "reserved" can be taken by a fixed mapping while it is being freed, and the second phase then frees the new mapping; the comment at 1491 says nobody can take it. The run has MapWhileFreed = FALSE; with TRUE MemoryExact fails (5.1).
* `recomp_runtime.c:1313` (partial_failure; `MemoryExact`): A fixed mapping into a reservation leaves the rest of the reservation free, not reserved: a later allocation may be placed into it. Extents stay a partition; that the rest is no longer reserved differs from the comment at 1376.
* `recomp_runtime.c:1291` (other): A mapping whose guest-chosen name contains "reserved" may be taken by a fixed mapping of another thread. Names are "reserved", "pool_reserved" and plain in the model.
* `ps4_direct_mem.c:772` (numeric_edge; `MemoryExact`): The largest available block under an alignment and a search window must be allocatable with the same arguments.
* `ps4_direct_mem.c:458` (stale_state): sceKernelReleaseDirectMemory forgets the mapping but leaves the host alias in place: the physical block is handed out again while the old address still reaches it. The console requires an unmap first; GuestMemory models the release of mapped blocks as the code does.
* `ps4_direct_mem.c:681` (partial_failure): sceKernelMemoryPoolReserve answers the requested fixed address although the allocation failed because it is taken. The pool's address is then not backed by an extent; no property is about pools.
* `ps4_direct_mem.c:438` (numeric_edge): dm_alias rounds the length to 16 KiB while the extent is rounded to 4 KiB pages, so the alias may cover the next extent. The model's page is the unit of both.
* `ps4_sync.c:237` (interleaving; `MemoryExact`): Two threads use a statically initialized mutex for the first time together: one object must be made, and both must get it.
* `ps4_sync.c:899` (stale_state; `MemoryExact`): An object is destroyed and its slot reused; another variable that was copied from the first one, or a late user, must not reach the new object.
* `ps4_sync.c:1235` (deadlock): A once routine that calls pthread_once on its own control waits for itself. Undefined in POSIX; the model's routines do not recur.
* `ps4_sync.c:1470` (other): Two fibers on one worker have the same thread id, so the second one takes the first one's guard for a recursion and goes on with an uninitialized object. The callers in the model are threads; a fiber that switches inside a static initializer is not modelled.
* `ps4_sync.c:1003` (other): A host rwlock locked by a fiber and unlocked after it moved to another host thread. Host behaviour is undefined there; the model's lockers do not move.
* `ps4_savedata.c:1386` (crash_recovery; `StorageKept`): A save memory is synced through a temporary file and a rename: a crash at any step must leave the old or the new contents.
* `ps4_savedata.c:1387` (partial_failure): The result of the rename is ignored: the slot is marked clean though nothing was stored. SaveData has no failing rename.
* `ps4_savedata.c:1215` (protocol_sequence; `StorageKept`): Setting the save memory up again, or terminating (1155), drops a cache that was written and not synced. StorageKept is about what a sync answered; unsynced data may be lost as the code has it.
* `ps4_savedata.c:1064` (stale_state; `StorageKept`): A save memory slot is found by its slot number only, so two users share one. SaveUsers share slots in the model too; a property that separates them would fail.
* `ps4_vfs.c:437` (stale_state; `StorageKept`): A save is unmounted and another one mounted at the same point: paths must resolve into the new one, and never into the inactive entry.
* `ps4_pak.c:51` (protocol_sequence; `RecordsExact`): Archives loaded one after the other grow and rehash the table; a name that probed over another one must still be found, in the archive loaded last.
* `ps4_vfs.c:534` (stale_state): ps4_vfs_open copies the archive's descriptor, which ps4_vfs_destroy closes while the file is open. Destroy runs at process exit only.
* `ps4_gnm_metal.mm:1308` (deadlock; `HandOversExact`): A compute queue waits on a label another queue writes; the streams must be resumed in order when it changes, and no later span may overtake the suspended one.
* `ps4_gnmdriver.c:908` (interleaving): The interrupt's registrations are copied under the mutex and triggered without it; one deleted meanwhile is still triggered. The model has both steps; whether a late event is wrong depends on the guest.
* `ps4_gnmdriver.c:1124` (numeric_edge; `StreamsExact`): A flip request is patched into a command buffer whose tail is too short, empty or already patched: the packets must still tile it.
* `ps4_gnmdriver.c:1104` (ordering): The label of a flip found by its sentinel is stored when the buffers are submitted, before the GPU has run them. The console's order is not visible in the code; no property states it.
* `ps4_gnm_membudget.c:188` (resource_bound; `RecordsExact`): Guest windows overlap in the buffers that span them: a window must be charged once and released with its last buffer.
* `ps4_gnm_membudget.c:198` (stale_state): The sampler reads device size, sum and distinct size one after the other while the renderer changes them; a sum larger than the device would make the charge wrap. The subtraction has a floor of 0; a torn sample is corrected by the next one.
* `ps4_videoout.c:345` (stale_state): A flip's label is locked by the command processor after the port was closed and opened again, and no completion of the new port releases it. It happens: HandOversExact fails with CloseBusy = TRUE (5.1); the run closes a port only when no flip is pending.
* `ps4_videoout.c:198` (interleaving): sceVideoOutClose destroys the mutex and the condition variable that a thread in sceVideoOutWaitVblank has not left yet. The host's behaviour is undefined there.
* `ps4_audioout.c:909` (stale_state; `StreamsExact`): A port is closed and opened again under a blocked writer, which the comment at 906 says returns false; but the handle of the new port is the same number. A handle is a slot number, so the comparison does not tell: the run has ReopenBusy = FALSE, and with TRUE StreamsExact fails.
* `ps4_audioout.c:917` (timeout_retry; `StreamsExact`): A device that stopped calling is noticed after 250 ms by the writer, which drops audio while the device may call again.
* `ps4_audioout.c:1204` (ordering; `StreamsExact`): sceAudioOutOutputs waits for room port by port and releases the lock while it waits: room found in the first port may be gone when the last has some.
* `ps4_audioout.c:283` (numeric_edge): The size in the header of an audio dump wraps after 2^32 bytes, about 3 hours. The header's size is a number of frames in the model.
* `ps4_audioout.c:388` (crash_recovery; `StreamsExact`): The process ends while the dump's writer holds the file lock: the header must describe a prefix of what is in the file.
* `ps4_ajm.c:916` (deadlock; `HandOversExact`): sceAjmFinalize joins the worker with g_ajm_lock held while a job of the worker takes it. The model finalizes a context when its batches have been waited for, where it cannot happen; otherwise it deadlocks as the code does.
* `ps4_ajm.c:1583` (interleaving): Two waiters of one batch both see it finished and destroy its mutex twice. A batch has one waiter in the model, as the library requires.
* `ps4_ajm.c:283` (stale_state): An instance is destroyed with a job queued, and the job runs on the instance that reuses its slot. The guest destroys an instance when its batches are done in the model.
* `ps4_ajm.c:524` (numeric_edge; `StreamsExact`): Gapless decoding: skips, totals and frames that straddle the output's room; samples must be contiguous, and none lost but those to be skipped. A total shorter than one frame together with a skip drops samples (490 against 524) and is left out of the instance.
* `ps4_ajm.c:602` (partial_failure): A multi-frame MP3 job whose room ends inside a frame writes what fits, drops the rest and reports nothing. The model's jobs have room for whole frames; see enough_room in Ajm.
* `ps4_ajm.c:1465` (protocol_sequence; `StreamsExact`): A batch is built chunk by chunk by several calls and parsed when it is started: a job with more outputs than the engine keeps, or inline data that looks like a job header, must not shift the jobs behind it.
* `ps4_audio3d.c:700` (ordering; `StreamsExact`): Two threads push one port; each takes a grain under the lock and outputs it without it. Each grain is output once; that the outputs of two pushers keep the grains' order is not guaranteed by the code.
* `ps4_audio3d.c:465` (interleaving; `StreamsExact`): sceAudio3dTerminate waits inside its loop over the ports; a port opened meanwhile at a lower index survives it. Left out with ReuseClosing = FALSE.
* `ps4_ngs2.cpp:308` (deadlock; `StreamsExact`): The allocation handler of sceNgs2RackCreate is guest code called with g_ngs2.mtx held. The handler's calls that take the mutex block for ever, as in the code; NgsTree is checked over the others.
* `ps4_ngs2.cpp:213` (stale_state; `StreamsExact`): A system is destroyed with racks and voices; their handles must be gone with it.
* `ps4_audiodec.c:506` (interleaving; `HandOversExact`): A decoder is deleted, or the library terminated, while another thread decodes with it, and its slot is reused.
* `ps4_audiodec.c:489` (stale_state; `HandOversExact`): Two threads decode units of different formats with one decoder: the converter opened for one must be the one it is decoded with.
* `ps4_avplayer.cpp:1004` (liveness): The stop event at the end of a file is in a branch that wait_pop reaches only when the player is being destroyed: the guest never hears of the end. It happens (5.1): AvPlayer's StopsAtEof fails.
* `ps4_avplayer.cpp:676` (interleaving; `StreamsExact`): stop_playback takes packets and frames from queues that the workers still push to until they have been joined.
* `ps4_avplayer.cpp:775` (interleaving): A looping demuxer flushes codec contexts that the decoder threads are using. A data race inside FFmpeg; contexts are not modelled.
* `ps4_avplayer.cpp:578` (stale_state): sceAvPlayerIsActive looks at the four queues one after the other, and a decoder holds the last frame in none of them: it answers false before the end. A wrong answer for the time of one frame; AvPlayer has the four looks in one step.
* `ps4_h264_vt.c:506` (partial_failure; `StreamsExact`): Units whose picture never came back get an error picture: they must not block the pictures behind them.
* `ps4_h264_vt.c:807` (protocol_sequence; `StreamsExact`): An IDR, a reset or new parameters come while pictures are held back: all of them must be delivered first, also when the IDR itself cannot be decoded.
* `ps4_vdecsw.c:543` (stale_state; `HandOversExact`): The input's result is stored after the decode ran without the lock; a reset or a finalize may have started another sequence.
* `ps4_videodec.c:262` (partial_failure): A picture refused because the guest's buffer is too small has been taken from the queue and is lost. The guest's buffers are large enough in the model.
* `ps4_videodec.c:496` (interleaving): sceVideodecDeleteDecoder frees a decoder without a lock while another thread may be decoding with it. libSceVideodec has no reference count; the guest must not do it.
* `ps4_trophy.c:78` (stale_state; `ServicesExact`): Contexts and handles are destroyed and their slots reused; a stale id must not unlock trophies of another context.
* `ps4_sysmodule.c:206` (interleaving): recomp_module_text_contains reads the count without the mutex while a registration increments it before the entry is written. Registration happens before other threads run.
* `ps4_sysmodule.c:330` (resource_bound): The 65th loaded module is not listed and still answers 0; a later IsLoaded says it is not. No property says that a loaded module is listed.
* `ps4_sysmodule.c:377` (numeric_edge): An internal module id is truncated to 16 bits when it is unloaded and unloads another one. Ids of the model fit.
* `ps4_app_content.c:175` (interleaving): Two threads initialize the library together and both scan the add-ons. One caller in the model.
* `ps4_app_content.c:353` (partial_failure): sceAppContentTemporaryDataFormat unlinks the files only: subdirectories stay. The contents of the temporary area are not modelled.
* `ps4_app_content.c:461` (protocol_sequence; `ContentExact`): Add-ons of the title and shared ones carry the same label in two directories; the mount must be the one the list gave.
* `ps4_playgo.c:130` (numeric_edge; `ContentExact`): The tables of playgo-chunk.dat point outside the file or name chunks it does not have.
* `ps4_playgo.c:230` (stale_state): scePlayGoTerminate frees the chunks without a lock while another thread is in GetProgress. The library has no lock; one caller in the model.
* `ps4_vfs.c:392` (other; `ContentExact`): Two spellings of a name exist on a case-sensitive volume: readdir's first one is taken. OneSpelling is about trees made through the calls, which never make a second spelling.
* `ps4_syscalls.c:640` (atomicity): The path is resolved and then opened: another thread may create the other spelling in between. Host file system state between two host calls; VfsPaths resolves and opens in one step.
* `ps4_syscalls.c:1629` (stale_state; `ServicesExact`): SYS_close closes a directory without dropping its listing; a descriptor of the same number on the same inode goes on in the old listing. The run has RawClose = FALSE; with TRUE ServicesExact fails.
* `ps4_syscalls.c:1283` (resource_bound; `ServicesExact`): The 65th directory that is read takes the first slot, and the directory it belonged to starts at its first entry again. The instance has as many slots as descriptors; with one slot DirListed fails.
* `ps4_rtc_extras.c:90` (numeric_edge; `ContentExact`): Civil dates from ticks and back around leap days, centuries, the years 1 and 9999 and negative Unix times.
* `ps4_rtc.c:86` (numeric_edge): sceRtcGetTick converts through mktime: the hour a change of daylight saving repeats has two ticks. The host's zone is a fixed offset in the model.
* `ps4_rtc.c:302` (numeric_edge; `ContentExact`): sceRtcParseRFC3339 turns a UTC date into a tick with sceRtcGetTick, which takes it for local time. The run has HostZone = 0, where the two agree; with another zone ContentExact fails.
* `ps4_kernel_sys.c:675` (protocol_sequence): A handler is removed while a raised signal is pending: SIGUSR1 then has its default action and ends the process. The run has RemoveBusy = FALSE; with TRUE the model reaches it.
* `ps4_kernel_sys.c:546` (interleaving): In fiber thread mode the signal finds the guest thread's endpoint changing hands and is handled on the wrong host thread's context. Hand-overs are in Fiber, exceptions in GuestExceptions; their composition is left to a later module.
* `ps4_gnm_capture.cpp:146` (numeric_edge; `ContentExact`): Ranges read by a pass are cut by those written before it: unsorted, touching, empty and at the end of memory.
* `ps4_gnm_capture.cpp:319` (atomicity): A snapshot hashes guest memory and then writes it, two reads between which the CPU or the GPU may change it. The two reads are one step of the model; a change after them is reported (ContentExact).
* `ps4_gnm_capture.cpp:307` (stale_state; `ContentExact`): An input that overlaps an output is never reported as changed. The property excepts such inputs, as the code does.
* `ps4_gnm_capture.cpp:318` (resource_bound; `ContentExact`): Snapshots over the limit are recorded and not stored; failing writes leave blobs without a file.
* `ps4_gnm_capture.cpp:481` (numeric_edge; `ContentExact`): An infinite or undefined viewport is written as inf or nan, which the reader of the manifest refuses, with the whole frame. The run has MfNonFinite = FALSE; with TRUE ManifestLoads fails (5.1).
* `ps4_gnm_capture.cpp:73` (numeric_edge): a + n overflows 64 bits for a range at the top of the address space and the range becomes empty. Addresses come from descriptors of 48 bits.
