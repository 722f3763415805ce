# Verification of the PDDGPU driver

TLA+ models of the PDDGPU kernel driver: its two memory managers, its buffer
objects, its memory statistics and leak detector, and its setup and removal;
TLC runs over small instances of them, and TLAPS proofs of their invariants. The code is
the reference: each definition is translated from the lines that
`PROJECT.json` gives for it under `map`. The code as it stands does not compile
(a call with a missing argument, a missing label, two definitions of some
functions; the Makefile leaves out `pddgpu_ttm.c` and `pddgpu_gmc.c`, whose
functions are called), so the models are of what it says, function by function; where two
definitions conflict, *Modelling remarks* names the one that is taken.

- [Inventory](#inventory)
- [Modules and plan](#modules-and-plan)
- [VramMgr](#vrammgr), [GttMgr](#gttmgr) and what both promise, [Lender](#lender)
- [LeakDetector](#leakdetector)
- [UsageStats](#usagestats)
- [GemBo](#gembo)
- [DeviceLifecycle](#devicelifecycle)
- [Runs](#runs), [Disagreements](#disagreements), [Proofs](#proofs)
- [What is only model-checked, and what is not modelled](#what-is-only-model-checked-and-what-is-not-modelled)

## Inventory

The driver is a DRM/TTM driver for a GPU with its own memory (VRAM) and an
aperture of system memory (GTT). User programs reach it by ioctls that create
and destroy buffer objects (BO). TTM, in the kernel, finds a place for a BO and
calls the driver's resource managers, `alloc` and `free` of VRAM or GTT.

| component | state | operations | correct when |
|---|---|---|---|
| PCI driver, `pddgpu_drv.c` | the device structure; the DRM registration | probe, remove | nobody is inside an operation when the structure is freed; remove finds what probe made |
| device, `pddgpu_device.c` | `device_state`: INITIALIZING, READY, SHUTDOWN | init, fini, suspend, resume | every part initialised once and finished once, in opposite orders, also when init fails half way |
| VRAM manager, `pddgpu_vram_mgr.c` | state word, mutex, `used`, `vis_usage`, a `drm_buddy`; one list of blocks per resource | alloc (with retry), free, init, fini, recover; read-only: debug, compatible, intersects, stats | no block lent twice or lost; the counters are the truth; calls return; nobody is in the buddy allocator after its teardown |
| GTT manager, `pddgpu_gtt_mgr.c` | state word, spinlock, a `drm_mm`, TTM's `usage`; one `drm_mm_node` per resource | alloc (with retry), free, init, fini, recover; read-only as above | no address lent twice; admitted memory fits; calls return; nobody touches the `drm_mm` after its takedown |
| TTM glue, `pddgpu_ttm.c` | the `ttm_device` | init and fini (which run the managers' a second time), move, eviction placement | a BO is where its resource says; move and eviction keep the statistics right |
| buffer objects, `pddgpu_object.c` | `struct pddgpu_bo`: flags, placement, pin count, mapping | create, destroy, unref, create_kernel, pin, unpin, kmap, move | destroyed once, after its last use, on every error path |
| GEM, `pddgpu_gem.c` | references and handles of a BO | create, map, info and destroy ioctls; open, close, free; PRIME | references and handles agree |
| memory statistics, `pddgpu_memory_stats.c` | 64-bit counters | update_usage, alloc_end, free_end, move_end, get_info, reset | used memory is what is held; a snapshot is a state that was |
| leak detector, same file and header | a list of leak objects, a spinlock, a delayed work | add, remove (twice: plain and RCU), check, report (plain, RCU, `_safe`), monitor, init, fini | the list is whole, entries are of live BOs, readers never see freed memory, the monitor stops for good |
| memory controller, `pddgpu_gmc.c` | sizes and register values | init, fini, suspend, resume, validate_size | plain sequential code |

**How they interact.** Probe runs `device_init`: statistics (with the monitor),
GMC, TTM, managers. `ttm_init` and `device_init` both initialise the managers
and `device_fini` and `ttm_fini` both finish them. A BO's creation runs
`ttm_bo_init_reserved`, which may call a manager's `alloc`; the manager counts
in the memory statistics, and `alloc_end` adds the BO to the leak list. Its
destruction runs in the opposite direction. The monitor reads the leak list by
itself. Removal stores SHUTDOWN in `device_state`, which most entry points read
once at their beginning, and then takes the parts down while earlier callers may
still be inside. (That is `device_fini`. `remove` itself never gets that far, see
[DeviceLifecycle](#devicelifecycle).)

**What is hard here.** Check-then-act on the two state words; a mutex or a
spinlock taken after the check; retries that run on what the failed attempt left
behind; a reader without lock in a list with two kinds of writers; a work item
that arms itself while it is being cancelled; early returns in `free`; recovery
over live resources; two reference counts of one structure, dropped by different
callbacks; a chain of labels over parts that are set up twice; counters that are
read one by one while others write them. `PROJECT.json` lists each of them under
`hazards`, at its line, with the properties that would notice, or the reason why
none does.

## Modules and plan

| module | models | of its own | proofs |
|---|---|---|---|
| `Lender` | what a memory manager promises | abstract specification | |
| `VramMgr`, `MCVramMgr` | `pddgpu_vram_mgr.c` | implements `Lender` | `VramMgrProofs`, `VramAccountingProofs` |
| `GttMgr`, `MCGttMgr` | `pddgpu_gtt_mgr.c` | implements `Lender` | `GttMgrProofs` |
| `LeakDetector`, `MCLeakDetector` | the leak list and its monitor | liveness of the monitor | `LeakDetectorProofs` |
| `LeakWalk` | what one turn of the monitor gets to see | extends `LeakDetector` by a record of the walk | `LeakDetectorProofs` |
| `UsageStats`, `MCUsageStats` | the counters, and who reads them | composes the managers' counting with that of the BOs | `UsageStatsProofs` |
| `GemBo`, `MCGemBo` | GEM ioctls and BO structures | composes GEM, the BO code and TTM's worker | `GemBoProofs` |
| `DeviceLifecycle`, `MCDeviceLifecycle` | probe, remove, init, fini | composes four files and the monitor | `DeviceLifecycleProofs` |

Each component's module has its variables, `Init`, one action per step of the
code, `Next`, the specification and the properties; the `MC` module adds what
only TLC needs. Theorems are in the modules named `Proofs`; `SumTheorems` holds
what they need to know of sums over finite sets.

What the plan has left, none of it with a behaviour that reaches the rest of the
driver today: eviction (the move and eviction functions are in no table of
callbacks), `intersects` and `compatible` against a reference definition, and
the second, simpler managers of `pddgpu_object.c`, should those become the ones
that are linked.

An operator called `X_fault` is a plausible mistake in the operator `X`. No
specification uses it. Put in the place of `X` it makes a property fail, which
shows that the property says something about `X`; `PROJECT.json` lists the
pairs under `mutants`.

## VramMgr

Each element of `Bo` is a thread that allocates, holds and frees one resource at
a time, as TTM serialises the operations on a BO. `pc[b]` is where its call is:

| steps of the model | code |
|---|---|
| `AllocBegin`, `AllocReject`, `AllocPrepare` | checks of the device, the state and the size; `kzalloc` |
| `AllocLock`, `AllocGiveUp` | label `retry_alloc`: mutex, state again, visible size |
| `AllocBlock`, `AllocSpin`, `AllocFail` | the loop over `drm_buddy_alloc_blocks`, the `continue`, the jump to the error path |
| `AllocCleanup` | after the mutex: blocks back, `kfree(vres)`, and back to `retry_alloc` |
| `AllocCommit` | the counters, the statistics, unlock, the check for an empty resource |
| `FreeBegin`, `FreeSum`, `FreeLock`, `FreeBlocks` | `free`: the two checks, the sum over the list, the mutex and third check, the rest |
| `Probe`, `MgrInit`, `MgrInitFail`, `ProbeDone`, `DeviceFini`, `FiniMark`, `FiniBuddy` | the driver thread; `MGR_CALLS = 2` because both callers run init and fini twice |
| `RecoverBegin` ... `RecoverReady` | `recover`, by whoever calls it |
| `PressureBegins`, `PressureEnds` | the environment: while it lasts the buddy allocator and `kzalloc` fail |

Modelling remarks.
`default_page_size` is never set, so the minimum block is one page and blocks are
units; the address restriction `lpfn` is shifted twice in the code, so that it
restricts nothing, and is left out.
A buddy call is one step, and so is a critical section between two visible
effects. The counters wrap modulo `U64`.
The pair `vram_allocated`, `vram_freed` appears as its difference `stats_used`.
Memory of a freed resource is reused only for other resources; freeing it a
second time leaves the slab as it is.
`free` never frees the resource structure; the model keeps it `live`.
`MgrInitFail` collapses the unwinding of a failed probe; a device is not probed
again once it is `gone`.
`fini` walks `mgr->reservations`, which the header does not declare and nothing
fills: it is empty here.
`pddgpu_object.c` holds second versions of the managers' init and fini; the
managers' own files are modelled.

## LeakDetector

The list is modelled with its `next` pointers, because a reader walks it without
the lock. `linked` is the set of members, `obj_live` the leak objects whose
memory is allocated, `deferred` those handed to `call_rcu`, `gp_wait` those for
which a read-side section that was open then is still open. BO memory and leak
objects are reused after they are freed. `Forms` says which writers are in use:
the plain ones of the header, which `alloc_end` and `free_end` call, the
`_lockfree` and RCU ones beside them, which nothing in `src/` calls yet, or
both on one list.

| steps | code |
|---|---|
| `CreateBegin`, `CreateFail`, `AllocEnd`, `AddObject`, `AddFails` | `bo_create`, `alloc_end`, `add_leak_object` |
| `DestroyBegin`, `FreeEnd`, `RemoveObject`, `Kvfree`, `RcuFree` | `bo_destroy`, `free_end`, `remove_leak_object`, `kvfree`, the RCU callback |
| `WorkStart`, `WorkCheck`, `ReadBegin`, `ReadSkip`, `Visit`, `Advance`, `ReadEnd`, `Rearm`, `Schedule` | the delayed work and its two walks, `leak_report_rcu` and `leak_check_rcu` |
| `DeviceFini`, `StatsFini`, `CancelBegin`, `CancelEnd`, `ClearList` | `device_fini`, `memory_stats_fini`, `cancel_delayed_work_sync` |
| `DiagCall` ... `DiagUnlock` | `leak_check`, `leak_report` and their `_safe` forms, which `src/` exports and does not call |

Modelling remarks.
Ages and the counts of suspicious and confirmed leaks are left out; an interval
has elapsed or has not, as it happens, so nothing depends on the overflow in its
initial value. `kzalloc` of a leak object may fail at any time. A critical
section is one step unless a `_safe` function holds the lock over a call.
What is read from freed memory is any node. `get_info` leaves its result
uninitialised once the device shuts down, so the comparison with the threshold
then goes either way. A BO destroyed after shutdown keeps its memory, as in the
code.

`LeakWalk` adds two history variables to the module, which constrain nothing:
`seen`, the leak objects that the loop of `leak_check_rcu` or `leak_report_rcu`
has looked at since its `rcu_read_lock`, and `stayed`, those that have been on the
list since then. The counts of suspicious leaks are right if the walk looks at
none twice and at all that stayed (`CountsEachOnce`). That depends on the order
of insertion, on `list_del_rcu` leaving the next pointer of what it takes out, and
on the grace period: a leak object that is used again under the walker is at the
end of the list, and what lies between is missed.

## GttMgr

| steps | code |
|---|---|
| `AllocBegin`, `AllocReject`, `AllocPrepare` | the checks, `kzalloc`, `ttm_resource_init`, which charges `usage` |
| `AllocOverLimit`, `AllocAdmit` | usage against size, unless the place is temporary |
| `AllocNotReady`, `AllocInsert`, `AllocRetry` | label `retry_alloc`: under the lock the state again and `drm_mm_insert_node_in_range`, then the retry |
| `AllocCount` | the statistics, and success |
| `FreeBegin`, `FreeCheck`, `FreeRemove`, `FreeCount`, `FreeFini` | `free`; its three early returns lead to `lost` |
| `MgrInit` ... `FiniTakedown` | as in `VramMgr` |
| `RecoverBegin`, `RecoverMm`, `RecoverReady` | `recover` |

A resource that `free` gave up on is `lost`: TTM forgets it, its node stays in
the `drm_mm`, its usage stays charged. Memory is counted in pages, and a range is
the set of its pages. `Holes(b)` are the free ranges that fit the request; the
choice among them, best fit in the code, is left open. The spinlock's sections
contain nothing that waits and are single steps. The code tests the result of
`drm_mm_init`, so the model lets it fail. The places `pddgpu_object.c` builds for
the GTT have neither limit nor the temporary flag; those come with places built
elsewhere, such as the binding of a page table that `pddgpu_bo_create_kernel`
calls, so both are inputs here.

## Lender

`Lender` says what TTM and the rest of the driver rely on, in a page: while it is
open a manager lends units of memory, each to one holder at a time, and a holder
gives back all it has; it is opened when nothing is lent and closed at any time.
`VramMgr` implements it with `open <- mm_live`, `lent <- blocks`, `GttMgr` with
its `drm_mm` and the ranges in it. The properties `LendsBlocks` and `LendsPages`
are `Abstract!Spec`, so TLC checks every step of both managers against it, and
both are theorems. All that makes the managers complicated disappears in the
mapping: states, locks, usage, retries and error paths are stutters. It is so
without `recover` only, which opens a manager over memory that is lent.

## UsageStats

The counters are `atomic64_t`, so a step is one access to one counter. Two things
are composed here that the code keeps apart: the managers count what they give
out and take back (`Book`, `Unbook`, through `update_usage`), and the buffer-object
code counts again (`AllocEnd...`, `FreeEnd...`), at the times TTM calls it. A
buffer object is driven through its whole life, a move with a second resource
included; the thread and the readers of `get_info` interleave at every access.

| steps | code |
|---|---|
| `Create`, `Book`, `AllocEndTime`, `AllocEndCount`, `AllocEndUsage` | `bo_create`, the manager's `update_usage`, `alloc_end` |
| `Move`, `Copy`, `CopyFails`, `MoveEndTime`, `MoveEndCount`, `Moved` | `bo_move` with `move_start` and `move_end` |
| `Release`, `Unbook`, `Destroy`, `FreeEndTime`, `FreeEndCount`, `FreeEndUsage` | the last put, `bo_destroy` with `free_start` and `free_end` |
| `GetInfo`, `ReadAllocated`, `ReadFreed`, `ReadAgain`, `ReadPerf` | `get_info` |

Modelling remarks. `alloc_end` finds the resource, so it counts the same memory
a second time; `free_end` finds none (TTM has freed it before it calls the
destroy callback), reads domain 0 and subtracts nothing. `UsageLaw` says exactly
that: what `get_info` calls used is what the managers have lent plus the size of
every buffer object that ever was, and nothing else drifts. A timed operation
takes one unit: `alloc_start` is given NULL for the buffer object, so what is
added in the code is the time since boot. The number of moves is read after their
time, the wrong way round, which is why `AverageCoversCounted` is about
allocations and deallocations. `pddgpu_bo_funcs`, the table with `bo_move`, is
not the one TTM is given; the move is modelled as the file has it. History variables:
`born`, where `alloc_end` counted a BO, and `there`, the counter when
the second one was read.

## GemBo

A structure per element of `Bo`, with two reference counts: GEM's (`gem`), dropped
by `drm_gem_object_put`, and TTM's (`ttm`), dropped by `pddgpu_bo_unref`. Each
thread of `Task` makes one call after another; every call may be interrupted
between any two steps that others can see.

| steps | code |
|---|---|
| `BoCreate`, `Placed`, `NotPlaced`, `CreateFails` | `bo_create`: the checks, `ttm_bo_init_reserved`, its failure |
| `Reserve` | `bo_create_kernel` and `bo_pin`, which both reserve |
| `HandleCreate`, `HandleFails` | the rest of `gem_create_ioctl`, with `gem_open_object` |
| `Lookup`, `Use`, `GemDestroy`, `GemPut` | the map, info and destroy ioctls, `gem_free_object` |
| `GemClose` | GEM_CLOSE or the end of the file, with `gem_close_object` |
| `WorkerRuns` | TTM's worker, which finishes what the last put could not |

Modelling remarks. `Places(d)` is the set of memory types that a request may end
in; TTM takes the first that has room, and as a manager can also fail for want
of memory in one piece, any of those with room may be the one. A client asks for
the destruction of a handle once and does not use one it has closed (the driver
does not defend itself against a client that destroys twice). What GEM and TTM
do is external and modelled as in the kernel: the last put frees a structure if
it can take its reservation, and leaves the rest to a worker otherwise.
`map` overwrites the kernel pointer of the structure; that changes nothing here.

`NobodyUsesFreed` deserves a candid remark. It holds, and is proved, because a
buffer object that `bo_create` returned is never freed at all: it stays reserved
(*Disagreements*). With the missing unreserve put in (`AfterCreate_fault`, the
mutant) the property fails: the destroy ioctl drops one TTM reference, a close
from another thread drops the last one, and that frees the structure while the
creator's GEM reference, which nothing drops, and those of the calls in flight
still count it. GEM's count does not protect the structure, TTM's does. Who adds
the unreserve has to repair the two counts as well, and this run will tell.

## DeviceLifecycle

Probe, `device_init` and the inits it calls are one list of calls, each with what
it takes, the call after it and the label of its failure; the labels,
`device_fini` and the finis are a second one, of what each gives back. The model
has them as tables, one per function of the code (`probe_calls`, `ttm_init_calls`,
`probe_labels`, ...), and the actions `Take`, `Fail` and `Give` that work through
them; what changes more than a count has an action of its own (`StatsInit`,
`McEnable`, `StatsFini`, ...). The monitor's work runs beside the driver from
`StatsInit` on.

Modelling remarks. `held` counts, per resource, how often it was taken and not
given back. The managers are set up by `ttm_init` and by `device_init`, and
finished by both finis, so their count goes to two; that a second init writes
over the first is in `VramMgr` and `GttMgr` (`MGR_CALLS`). At its end
`device_fini` shares the label's step `err_unmap_mmio`, after which the model
stores SHUTDOWN a second time, where it is already. `pddgpu_ttm_pools_init` cannot
fail. The power callbacks and `remove` look the device up with `pci_get_drvdata`,
which nothing sets: `remove` returns (docs/ARCHITECTURE.md:184 draws
`pddgpu_device_fini` there), and the power callbacks follow the NULL. So a device
that was bound stays set up, its regions stay taken, and every later probe fails;
`FailedProbeLeavesNothing` covers those as well.

## Runs

All runs are in `PROJECT.json`. Deadlock is not checked: after the removal of
the device everybody may have stopped.

| run | instance | shows |
|---|---|---|
| `vram_safety` | 2 BOs (one of kernel type), 3 resources, 3 blocks of which 1 is reserved for the kernel, requests 0-3, 2 tries, one pressure | types; exact counters; the visible-size check suffices; teardown is safe; no double lending; no leak; statistics agree; `Lender` is implemented |
| `vram_live` | 2 BOs, 2 blocks, requests 0 and 2, 1 recoverer, no pressure | alloc, free and recover return and the removal ends, unless a loop spins for ever |
| `gtt_safety` | 3 BOs, 3 pages, requests 0-2, limits none and 2, 2 tries | usage exact; admitted memory fits; ranges lent once and as asked; statistics agree; nobody touches the `drm_mm` after takedown; `Lender` is implemented |
| `gtt_live` | 2 BOs, 1 recoverer, 3 pages, 3 tries | every allocation returns |
| `leak_rcu` | 2 BOs, 2 leak objects, RCU writers | types; the monitor never stands on a freed leak object; a turn counts no entry twice and misses none that stayed; the monitor goes on, the removal ends |
| `leak_plain` | 2 BOs, 2 leak objects, 1 diagnostic thread, writers of both forms | the list is whole; entries are of live BOs, one each; no leak object leaks; the monitor stays cancelled |
| `usage_stats` | 2 BOs of 2 units, 1 reader, 1 move | what the used memory counts; the snapshot is of one moment; averages cover what they are divided by |
| `gem_bo` | 3 BOs, 2 threads, requests of VRAM or GTT, VRAM, system memory, 3 and 2 pages | reference counts add up; nobody names freed memory |
| `device` | 3 probes, every call may fail | a failed probe leaves nothing; the monitor does not outlive the device; registers are mapped when used |
| `vram_retry`, `leak_freed`, `bo_returned` | as `vram_safety`; 2 BOs, 2 leak objects; 1 BO, 1 thread | three disagreements |

**Bounds.** Three blocks or pages let one request be served, one wait and one
fail; three resources let memory of a failed attempt pass to another BO.
`RETRY_COUNT` is 3 in the code and 2 in most instances: one retry is enough to
run on what a failed attempt left, and `gtt_live` uses 3. `U64` is 32, above every
sum that occurs without wrapping. `MAX_PRESSURE` bounds how often pressure
begins, `MAX_MOVES` how many moves there are (one has two resources at once, and
may fail), `MAX_PROBES` how often the driver is bound: one that fails, one that
succeeds, one that fails for the regions of the one before. Two leak objects let
one be inserted, or used again, while the walker stands on the other, removed one.
Two threads in `gem_bo` put any call between any two steps of another; three
structures let one fill the VRAM, one fall back and one fail. Where a theorem states the property the bound
does not matter. Symmetry is used for safety only.

**Fairness.** A kernel thread inside a call goes on (weak fairness of its steps).
A mutex or a spinlock is handed to whoever waits for it (strong fairness of the
steps that take it; Linux mutexes hand over to a starving waiter). Nobody has to
start a call, to free what it holds or to remove the device. `LeakDetector` asks
for even less: nothing of the threads with buffer objects, which may stop inside
a call or create and destroy without end, and the monitor's turns end all the
same. `CalmSpec` of `VramMgr` assumes in addition that pressure ends. In `GemBo`
threads finish the call they are in and TTM's worker runs when it can.

**What liveness is worth in VramMgr.** The allocation loop repeats a request that
fails while the mutex stays taken (`AllocSpin`): at pddgpu_vram_mgr.c:205 it
doubles a `block_size` that line 193 declares afresh in the next turn. It ends
only if somebody else brings blocks back, and nobody can without the mutex. So
the liveness properties have one premise, `NoEndlessSpin`; with it they hold even
for recovery in the middle of everything, without it nothing can be promised: the
instance of `vram_live` does reach an endless spin. That it cannot happen without
pressure and recovery is `NeverExhausted`, a theorem.

## Disagreements

Three runs end in a violation, of what a document or a comment says by what the
code does; `findings` quotes both.

- `vram_retry`: a retried allocation goes on with a freed resource and too few
  blocks, and succeeds.
- `leak_freed`: the monitor, a reader under RCU, stands on memory that the plain
  writers have freed. With the RCU writers the leak object is safe (`leak_rcu`),
  the BO behind it is not: `pddgpu_bo_destroy` frees it without a grace period.
- `bo_returned`: `bo_create` returns with the buffer object reserved and nobody
  unreserves it, so TTM's worker waits for ever and the memory of a buffer object
  that a client destroyed and closed is never given back. `WorkerWaits` proves the
  reason for every instance.

More is in the models without a run of its own. The error path of `alloc` in the
VRAM manager gives its blocks back after it has released the mutex (line 210).
A creation that overlaps the removal leaves a leak object on the cleared list.
`bo_create` frees a structure that the destroy callback has freed before (line
150). Every kernel creation ends blocked on a reservation of its own. And in
functions nothing in `src/` calls: `recover` of the VRAM manager overwrites
SHUTDOWN with READY, `recover` of the GTT manager lends pages that are lent, and
the `_safe` diagnostics block on, or are turned away by, their own lock. The GTT
manager takes its `drm_mm` down with nodes in it, those of the resources that are
`lost`.

## Proofs

`tlapm` checks every theorem and lemma. The proofs hold for any sets of BOs,
threads, readers, sizes and, where finite, blocks, any retry count above 0 and any
number of probes and moves.

**VramMgr.** `VramMgrProofs` proves the types (`TypeCorrect`). For the rest,
`TypeOK` is not enough. The module goes on, whatever the pressure, with an
inductive invariant of four parts: *LockInv*, the holder of the mutex is the one
caller in a critical section; *QuietInv*, nobody has started before the probe is
done; *TeardownInv*, the state word says SHUTDOWN from the mark until the end,
and the allocator is gone only then; *LendInv*, the lists are disjoint and hold no
free block. From it follow `HolderSafe`, `LentOnce` and `MutualExclusion`, and
`Implements`, the refinement of `Lender`, action by action. The lists stay
disjoint on the retry path because a block moves between the free set and one list
at a time, whoever owns the list.
`VramAccountingProofs` adds, for histories without pressure and recovery:
*PressureInv* (nothing fails), *OwnInv* (a live resource has one owner), *ListInv*
(a caller's list has the length its `pc`, `size` and `remaining` imply), *ReadyInv*
and *LeakInv* (every lent block has an owner). `AccountingExact` and
`NeverExhausted` need each other: the counter is exact only if no allocation
fails in its loop, and no allocation fails because the counter that admitted it
was exact. They are proved in one induction. `StatsCorrect` then needs only that
the statistics change in the steps in which the counter does.

**GttMgr.** `GttMgrProofs` proves the types, then one invariant: *RangeInv*, who
has no range by its place in the call; *LiveInv*, whether the `drm_mm` works and
the manager is ready by the place of the driver; and `RangesLentOnce` itself.
`LentOnce` is a conjunct; `Untouched` follows from *LiveInv*, because callers
change the `drm_mm` only when the manager is ready, which it is not after
`FiniMark`; `Implements` follows as well. These three assume that nobody calls
`recover`, which re-initialises the `drm_mm` over the nodes in it; the rest holds
with `recover` in the middle of everything.
`AsAsked` adds that a caller's request is what it asked for from its check on.
The counters are sums over the callers in certain steps. Only one caller moves at
a time, so two lemmas say by how much each of its steps moves `usage` and the
statistics (`UsageDelta`, `StatsDelta`), and `SumMove` that the sum moves by the
same. For the statistics this needs *ReadyInv*: from setup to shutdown nothing
makes a manager that counted in an allocation miss the release. For `AdmittedFits`
it needs `UsageExact`: a caller is admitted when the usage is within the limit,
and that usage already counts the caller and everybody admitted before, because
`ttm_resource_init` charges before the check. A usage that others have raised
since only makes the check stricter.

**LeakDetector.** One inductive invariant of five parts carries the theorems:
*DeviceInv*, where the driver is tells whether the device is shut down, and where
a thread is tells whether its BO is allocated; *WorkInv*, cancelling leaves no
work; *EntryInv*, what the place of a thread says of its entry (none before
`add_leak_object`, none after `remove_leak_object`); *MemoryInv*, what is
allocated; *ListInv*, on the list and its head `next` is a permutation. For
`WalkerSafe` (RCU writers only, no diagnostic thread) *WalkInv* adds what makes RCU
work: whatever the walker can still reach, through members and through nodes
unlinked under it, is not freed before the section ends.
For `Whole` a permutation is not enough, it may have a second cycle beside the
one through the head. *OneCycle* says in one formula that it has none: a set of
members and head that `next` does not lead out of is empty or everything.
Inserting and removing keep it. `CycleWalk` then turns it into steps: a walk
cannot visit more different nodes than there are, so it comes back to one, the
first it comes back to is the head, and what it has visited is closed under
`next`, hence the whole list.
For `CountsRight` the writers move under the walk. *SeenInv* says
that there is a numbering of the leak objects, in the order of their insertion and
with the head last, such that every `next` leads upwards, from a member to the very
next member, and from one that was removed under the walker past none that has
stayed (*Order*); and that the walk has behind it everything that stayed with a
smaller number and nothing with a larger one (*Progress*). The numbering exists
and is no part of the model: at an insertion the new one takes the number of the
head and the head goes up by one, a removal leaves it alone.

**UsageStats.** Counters only grow, so if `allocated` reads the same before and
after, it was the same in between: `SnapshotTrue`. `UsageIsLawful` needs
*LifeInv*, which resources a buffer object has at each place of its life; then
each step moves the net usage of a domain by what it does to the booking of one
buffer object (*Moves*), and the two sums of the law move by the same. `AverageCovers` relates what a
reader has seen of two counters to how far each thread is between adding the one
and the other.

**GemBo.** The invariant describes one structure at a time: who works on it, what
its counts are made of, and that it is reserved from its creation on. A lemma says
that a step touches one structure, so all others keep theirs. Cardinalities of
the sets of calls in flight change by one (`FiniteSetTheorems`).

**DeviceLifecycle.** The chain of labels has to be a stack. `Order` lists what a
probe takes, `Depth` says how much of it each place in the code stands for, and
two lemmas show that every line of the tables moves by at most one on it,
whichever label a failure ends in; then `held = before + Taken(Depth(drv))` is
inductive, and the properties read it off.

**SumTheorems.** The sums of the models are folds of the community modules, which
are defined by recursion over sets. The library's induction rules take an operator
as a parameter and cannot be instantiated here, so the module proves the two it
needs in first-order form, with a set in the place of the predicate (`NatInd`,
`SetInd`), then that the fold exists and takes out any element it is given, and
from it what the proofs cite: adding, removing and changing one element
(`SumAdd`, `SumWithout`, `SumMove`), and that sums of natural numbers grow with
the set (`SumNat`).

The assumptions are the named `ASSUME`s of the modules: `None` and `Head` are no
elements of the other sets, blocks, BOs and threads are finite, sizes are natural
numbers, and in `VramMgr` no sum of a request and the VRAM size reaches `U64`.

## What is only model-checked, and what is not modelled

Every invariant and every action property of the runs that hold is a theorem, and
so are the two refinements. Liveness stays with TLC, because the prover has
neither fairness nor ENABLED: `CallsReturn`, `RemoveEnds`, `AllocReturns`,
`MonitorGoesOn` and `FiniEnds`, on the instances of `vram_live`, `gtt_live` and
`leak_rcu`. (That every turn of the monitor ends follows from the last two.) The three disagreements are counterexamples, TLC's by
nature.

Not modelled:

- `reset`, `performance_start`, `performance_end` and `batch_update` of the
  statistics, which nothing in `src/` calls; with `reset` the counters would not
  only grow, and `SnapshotWasTrue` would not hold.
- `intersects` and `compatible` of the managers, and eviction: TTM asks them for
  buffer objects it wants to evict, and none ever is, because all stay reserved.
- mapping a BO into the kernel, PRIME, and what follows the reservation in
  `bo_create_kernel`, which is not reached.
- `gmc_suspend` and `gmc_resume`, called with a NULL device; the size, visibility,
  information, check and training functions of the memory controller, which read
  registers and change nothing the rest depends on.
- freeing the device structure under callers that are inside: `remove` does not
  get there.
- the second definitions of the managers in `pddgpu_object.c`; the registers
  (constants); the examples (user programs); functions that only log.
