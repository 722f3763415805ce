------------------------------- MODULE VramMgr -------------------------------
(***************************************************************************)
(* The VRAM manager of the driver (pddgpu_vram_mgr.c): its state word, its *)
(* mutex, its two counters and the buddy allocator behind them, used by    *)
(* concurrent callers while the device is probed, removed and, if anybody  *)
(* calls it, recovered.                                                    *)
(*                                                                         *)
(* TTM serialises the operations on one buffer object, so each element of  *)
(* Bo is one sequential caller that allocates, holds and frees at most one *)
(* resource.  Memory is counted in blocks of min_block_size: the code      *)
(* never sets default_page_size, so a block is one page.                   *)
(*                                                                         *)
(* The one environment event is memory pressure in the rest of the kernel: *)
(* while it lasts drm_buddy_alloc_blocks and drm_buddy_init fail, and      *)
(* kzalloc may.                                                            *)
(***************************************************************************)
EXTENDS Integers, FiniteSets

CONSTANTS
  Bo,              \* the buffer objects
  KernelBo,        \* those of type ttm_bo_type_kernel
  Vres,            \* the memory kzalloc can return for a vram resource
  Block,           \* the blocks of the VRAM
  Size,            \* the request sizes, in blocks
  Recoverer,       \* the callers of pddgpu_vram_mgr_recover: src/ has none
  None,            \* no caller, no resource
  RESERVED_VRAM,   \* PDDGPU_VM_RESERVED_VRAM, in blocks
  RETRY_COUNT,     \* PDDGPU_VRAM_ALLOC_RETRY_COUNT
  U64,             \* 2^64, in blocks: the modulus of the counters
  MAX_PRESSURE     \* bound: how often memory pressure sets in

ASSUME CallerAssumption == None \notin Bo \cup Vres /\ KernelBo \subseteq Bo
ASSUME BlockAssumption == IsFiniteSet(Block)
ASSUME SizeAssumption ==
  /\ Size \subseteq Nat
  /\ U64 \in Nat /\ RESERVED_VRAM \in Nat
  /\ Cardinality(Block) < U64 /\ RESERVED_VRAM < U64
  /\ \A s \in Size : s + Cardinality(Block) < U64
ASSUME BoundAssumption == RETRY_COUNT \in Nat \ {0} /\ MAX_PRESSURE \in Nat

VARIABLES
  \* the device and the driver thread that probes and removes it
  device_state, drv, calls,
  \* struct pddgpu_vram_mgr
  state, lock, used, vis_usage,
  \* its drm_buddy: initialised?, and the blocks it holds as free
  mm_live, mm_free,
  \* the memory of the resources: allocated?, and the list in each
  live, blocks,
  \* per buffer object: the local variables of the call it is in
  pc, vres, size, remaining, retry_count, freed_size,
  \* the manager's share of the memory statistics: the difference of the two
  \* counters vram_allocated and vram_freed, as get_info reports it
  stats_used,
  \* the callers of recover
  rpc,
  \* the environment
  pressure, faults

deviceVars == <<device_state, drv, calls>>
counters   == <<used, vis_usage>>
mm         == <<mm_live, mm_free>>
slab       == <<live, blocks>>
locals     == <<vres, size, remaining, retry_count, freed_size>>
env        == <<pressure, faults>>

callers    == <<slab, pc, locals, stats_used>>      \* written by callers only
outside    == <<deviceVars, state, rpc, env>>    \* never written by them

vars == <<outside, callers, lock, counters, mm>>

-----------------------------------------------------------------------------
(* Vocabulary *)

MGR_CALLS == 2   \* probe and remove each run init and fini twice

VramSize == Cardinality(Block)   \* man->size and visible_size: one register

Add64(x, y) == IF x + y < U64 THEN x + y ELSE x + y - U64
Sub64(x, y) == IF y <= x THEN x - y ELSE U64 + x - y

Flags == {"INITIALIZING", "READY", "SHUTDOWN", "ERROR"}

is_ready == "READY" \in state /\ "SHUTDOWN" \notin state

DeviceShutdown == device_state = "SHUTDOWN"

MaxBytes(b) == IF b \in KernelBo THEN VramSize
                                 ELSE Sub64(VramSize, RESERVED_VRAM)

BuddyFails == pressure \/ mm_free = {}

(***************************************************************************)
(* An operator whose name ends in _fault is a plausible mistake in the     *)
(* operator defined after it.  No specification uses it: it is there to be *)
(* put in that operator's place, to see that a property notices.           *)
(***************************************************************************)
UpdateUsage_fault(alloc, n) ==
  stats_used' = IF alloc THEN Add64(stats_used, n) ELSE stats_used

\* memory_stats_update_usage: nothing is counted once the device shuts down
UpdateUsage(alloc, n) ==
  stats_used' = IF DeviceShutdown THEN stats_used
                ELSE IF alloc THEN Add64(stats_used, n)
                              ELSE Sub64(stats_used, n)

\* atomic64_add and atomic64_sub on the two counters of the manager
Count(n)   == used' = Add64(used, n) /\ vis_usage' = Add64(vis_usage, n)

Uncount_fault(n) == used' = used /\ vis_usage' = Sub64(vis_usage, n)

Uncount(n) == used' = Sub64(used, n) /\ vis_usage' = Sub64(vis_usage, n)

FreeList_fault(v) == /\ mm_free' = mm_free \cup blocks[v]
                     /\ UNCHANGED blocks

FreeListLoses_fault(v) == /\ UNCHANGED mm_free
                          /\ blocks' = [blocks EXCEPT ![v] = {}]

\* drm_buddy_free_list: the blocks go back and the list is made empty
FreeList(v) == /\ mm_free' = mm_free \cup blocks[v]
               /\ blocks' = [blocks EXCEPT ![v] = {}]

VisibleFits_fault(b) == vis_usage <= VramSize

VisibleFits(b) == Add64(vis_usage, size[b]) <= VramSize

MayRetry_fault(b) == retry_count[b] < RETRY_COUNT

MayRetry(b) == retry_count[b] + 1 < RETRY_COUNT

Goto(b, l) == pc' = [pc EXCEPT ![b] = l]

Unlock_fault == UNCHANGED lock

Unlock == lock' = None

\* the call of b returns: its local variables are gone
Return(b) == /\ Goto(b, "idle")
             /\ vres' = [vres EXCEPT ![b] = None]
             /\ size' = [size EXCEPT ![b] = 0]
             /\ remaining' = [remaining EXCEPT ![b] = 0]
             /\ retry_count' = [retry_count EXCEPT ![b] = 0]
             /\ freed_size' = [freed_size EXCEPT ![b] = 0]

-----------------------------------------------------------------------------
Init ==
  /\ device_state = "INITIALIZING" /\ drv = "unbound" /\ calls = 0
  /\ state = {} /\ lock = None /\ used = 0 /\ vis_usage = 0
  /\ mm_live = FALSE /\ mm_free = Block
  /\ live = {} /\ blocks = [v \in Vres |-> {}]
  /\ pc = [b \in Bo |-> "idle"] /\ vres = [b \in Bo |-> None]
  /\ size = [b \in Bo |-> 0] /\ remaining = [b \in Bo |-> 0]
  /\ retry_count = [b \in Bo |-> 0] /\ freed_size = [b \in Bo |-> 0]
  /\ stats_used = 0
  /\ rpc = [r \in Recoverer |-> "idle"]
  /\ pressure = FALSE /\ faults = 0

-----------------------------------------------------------------------------
(* pddgpu_vram_mgr_alloc *)

\* entry, up to the first check: the device is not shutting down
AllocBegin(b) ==
  /\ pc[b] = "idle" /\ drv \notin {"unbound", "probe"}
  /\ ~DeviceShutdown
  /\ \E s \in Size : size' = [size EXCEPT ![b] = s]
  /\ Goto(b, "checked")
  /\ UNCHANGED <<outside, lock, counters, mm, slab, vres, remaining,
                 retry_count, freed_size, stats_used>>

\* -ENODEV or -ENOMEM before anything is allocated
AllocReject(b) ==
  /\ pc[b] = "checked"
  /\ \/ ~is_ready
     \/ size[b] > MaxBytes(b)
     \/ pressure \/ live = Vres          \* kzalloc fails
  /\ Return(b)
  /\ UNCHANGED <<outside, lock, counters, mm, slab, stats_used>>

\* the resource structure is allocated, zeroed, and its list made empty
AllocPrepare(b) ==
  /\ pc[b] = "checked" /\ is_ready /\ size[b] <= MaxBytes(b)
  /\ \E v \in Vres \ live :
       /\ live' = live \cup {v}
       /\ blocks' = [blocks EXCEPT ![v] = {}]
       /\ vres' = [vres EXCEPT ![b] = v]
  /\ remaining' = [remaining EXCEPT ![b] = size[b]]
  /\ Goto(b, "lock")
  /\ UNCHANGED <<outside, lock, counters, mm, size, retry_count, freed_size,
                 stats_used>>

\* retry_alloc: the mutex is taken and the state or the visible size checked
\* in vain; the mutex is released again and the resource freed
AllocGiveUp(b) ==
  /\ pc[b] = "lock" /\ lock = None
  /\ ~(is_ready /\ VisibleFits(b))
  /\ live' = live \ {vres[b]}
  /\ Return(b)
  /\ UNCHANGED <<outside, lock, counters, mm, blocks, stats_used>>

\* retry_alloc: the mutex is taken and both checks pass
AllocLock(b) ==
  /\ pc[b] = "lock" /\ lock = None
  /\ is_ready /\ VisibleFits(b)
  /\ lock' = b
  /\ Goto(b, "loop")
  /\ UNCHANGED <<outside, counters, mm, slab, locals, stats_used>>

\* one turn of the loop: one more block moves to the resource's list
AllocBlock(b) ==
  /\ pc[b] = "loop" /\ remaining[b] > 0 /\ ~BuddyFails
  /\ \E blk \in mm_free :
       /\ mm_free' = mm_free \ {blk}
       /\ blocks' = [blocks EXCEPT ![vres[b]] = @ \cup {blk}]
  /\ remaining' = [remaining EXCEPT ![b] = @ - 1]
  /\ UNCHANGED <<outside, lock, counters, mm_live, live, pc, vres, size,
                 retry_count, freed_size, stats_used>>

\* a turn of the loop in which the allocation fails while two blocks or more
\* are missing: the doubled block_size is at most remaining_size, "continue"
\* starts the turn again from min_block_size, and the mutex stays taken
AllocSpin(b) ==
  /\ pc[b] = "loop" /\ BuddyFails
  /\ remaining[b] >= 2
  /\ UNCHANGED vars

\* the allocation of the last block fails: the mutex is released first
AllocFail(b) ==
  /\ pc[b] = "loop" /\ BuddyFails
  /\ remaining[b] = 1
  /\ Unlock
  /\ Goto(b, "cleanup")
  /\ UNCHANGED <<outside, counters, mm, slab, locals, stats_used>>

\* the blocks go back to the buddy allocator, outside the mutex, and the
\* resource is freed; the retry keeps vres and remaining_size as they are
AllocCleanup(b) ==
  /\ pc[b] = "cleanup"
  /\ FreeList(vres[b])
  /\ live' = live \ {vres[b]}
  /\ IF MayRetry(b)
       THEN /\ retry_count' = [retry_count EXCEPT ![b] = @ + 1]
            /\ Goto(b, "lock")
            /\ UNCHANGED <<vres, size, remaining, freed_size>>
       ELSE Return(b)
  /\ UNCHANGED <<outside, lock, counters, mm_live, stats_used>>

\* the loop is done: the counters are updated and the mutex released; a
\* resource with no block at all is freed again
AllocCommit(b) ==
  /\ pc[b] = "loop" /\ remaining[b] = 0
  /\ Count(size[b])
  /\ UpdateUsage(TRUE, size[b])
  /\ Unlock
  /\ IF blocks[vres[b]] = {}
       THEN Return(b) /\ live' = live \ {vres[b]}
       ELSE Goto(b, "held") /\ UNCHANGED <<locals, live>>
  /\ UNCHANGED <<outside, mm, blocks>>

-----------------------------------------------------------------------------
(* pddgpu_vram_mgr_free *)

\* the first check: a device that is shutting down keeps the blocks
FreeBegin(b) ==
  /\ pc[b] = "held"
  /\ IF DeviceShutdown THEN Return(b) ELSE Goto(b, "freecheck") /\ UNCHANGED locals
  /\ UNCHANGED <<outside, lock, counters, mm, slab, stats_used>>

\* the second check, and the sum over the list, before the mutex is taken
FreeSum(b) ==
  /\ pc[b] = "freecheck"
  /\ IF is_ready
       THEN /\ freed_size' = [freed_size EXCEPT ![b] = Cardinality(blocks[vres[b]])]
            /\ Goto(b, "freelock")
            /\ UNCHANGED <<vres, size, remaining, retry_count>>
       ELSE Return(b)
  /\ UNCHANGED <<outside, lock, counters, mm, slab, stats_used>>

\* the mutex is taken and the state checked again
FreeLock(b) ==
  /\ pc[b] = "freelock" /\ lock = None
  /\ IF is_ready THEN lock' = b /\ Goto(b, "freeing") /\ UNCHANGED locals
                 ELSE Return(b) /\ UNCHANGED lock
  /\ UNCHANGED <<outside, counters, mm, slab, stats_used>>

\* the blocks go back and the counters are updated; the resource structure
\* is never freed
FreeBlocks(b) ==
  /\ pc[b] = "freeing"
  /\ FreeList(vres[b])
  /\ Uncount(freed_size[b])
  /\ UpdateUsage(FALSE, freed_size[b])
  /\ Unlock
  /\ Return(b)
  /\ UNCHANGED <<outside, mm_live, live>>

-----------------------------------------------------------------------------
(* pddgpu_vram_mgr_init, pddgpu_vram_mgr_fini and who calls them *)

\* pddgpu_pci_probe: a zeroed device
Probe ==
  /\ drv = "unbound"
  /\ drv' = "probe" /\ calls' = 0 /\ device_state' = "INITIALIZING"
  /\ state' = {} /\ mm_live' = FALSE
  /\ UNCHANGED <<callers, lock, counters, mm_free, rpc, env>>

MgrInit ==
  /\ drv = "probe" /\ calls < MGR_CALLS /\ ~pressure
  /\ mm_live' = TRUE /\ mm_free' = Block
  /\ used' = 0 /\ vis_usage' = 0
  /\ state' = {"READY"}
  /\ calls' = calls + 1
  /\ UNCHANGED <<callers, device_state, drv, lock, rpc, env>>

\* drm_buddy_init fails: the probe is unwound
MgrInitFail ==
  /\ drv = "probe" /\ calls < MGR_CALLS /\ pressure
  /\ mm_live' = FALSE
  /\ state' = {"INITIALIZING", "ERROR"}
  /\ drv' = "unbound" /\ calls' = 0
  /\ UNCHANGED <<callers, device_state, lock, counters, mm_free, rpc, env>>

\* the device is ready and registered
ProbeDone ==
  /\ drv = "probe" /\ calls = MGR_CALLS
  /\ drv' = "bound" /\ calls' = 0 /\ device_state' = "READY"
  /\ UNCHANGED <<callers, state, lock, counters, mm, rpc, env>>

\* pddgpu_device_fini begins
DeviceFini ==
  /\ drv = "bound"
  /\ drv' = "fini" /\ device_state' = "SHUTDOWN"
  /\ UNCHANGED <<callers, calls, state, lock, counters, mm, rpc, env>>

FiniMark_fault ==
  /\ drv = "fini"
  /\ drv' = "finilock"
  /\ UNCHANGED <<callers, device_state, calls, state, lock, counters, mm, rpc,
                 env>>

\* pddgpu_vram_mgr_fini: the state word first, without the mutex ...
FiniMark ==
  /\ drv = "fini"
  /\ state' = {"SHUTDOWN"}
  /\ drv' = "finilock"
  /\ UNCHANGED <<callers, device_state, calls, lock, counters, mm, rpc, env>>

\* ... then drm_buddy_fini under it; device_fini and ttm_fini both call it
FiniBuddy ==
  /\ drv = "finilock" /\ lock = None
  /\ mm_live' = FALSE
  /\ calls' = calls + 1
  /\ drv' = IF calls + 1 < MGR_CALLS THEN "fini" ELSE "gone"
  /\ UNCHANGED <<callers, device_state, state, lock, counters, mm_free, rpc,
                 env>>

-----------------------------------------------------------------------------
(* pddgpu_vram_mgr_recover *)

RecoverBegin(r) ==
  /\ rpc[r] = "idle" /\ drv \notin {"unbound", "probe"}
  /\ ~DeviceShutdown
  /\ state' = state \ {"ERROR"}
  /\ rpc' = [rpc EXCEPT ![r] = "lock"]
  /\ UNCHANGED <<callers, deviceVars, lock, counters, mm, env>>

\* drm_buddy_init under the mutex: every block is free again, or the
\* allocator is gone and only the error flag is added to the state
RecoverBuddy(r) ==
  /\ rpc[r] = "lock" /\ lock = None
  /\ IF pressure
       THEN /\ mm_live' = FALSE
            /\ state' = state \cup {"ERROR"}
            /\ rpc' = [rpc EXCEPT ![r] = "idle"]
            /\ UNCHANGED mm_free
       ELSE /\ mm_live' = TRUE /\ mm_free' = Block
            /\ rpc' = [rpc EXCEPT ![r] = "reset"]
            /\ UNCHANGED state
  /\ UNCHANGED <<callers, deviceVars, lock, counters, env>>

\* the counters, outside the mutex
RecoverReset(r) ==
  /\ rpc[r] = "reset"
  /\ used' = 0 /\ vis_usage' = 0
  /\ rpc' = [rpc EXCEPT ![r] = "ready"]
  /\ UNCHANGED <<callers, deviceVars, state, lock, mm, env>>

RecoverReady(r) ==
  /\ rpc[r] = "ready"
  /\ state' = {"READY"}
  /\ rpc' = [rpc EXCEPT ![r] = "idle"]
  /\ UNCHANGED <<callers, deviceVars, lock, counters, mm, env>>

-----------------------------------------------------------------------------
(* The environment *)

PressureBegins ==
  /\ ~pressure /\ faults < MAX_PRESSURE
  /\ pressure' = TRUE /\ faults' = faults + 1
  /\ UNCHANGED <<callers, deviceVars, state, lock, counters, mm, rpc>>

PressureEnds ==
  /\ pressure
  /\ pressure' = FALSE
  /\ UNCHANGED <<callers, deviceVars, state, lock, counters, mm, rpc, faults>>

-----------------------------------------------------------------------------
LockStep(b) == AllocGiveUp(b) \/ AllocLock(b) \/ FreeLock(b)

AllocStep(b) == \/ AllocReject(b) \/ AllocPrepare(b) \/ AllocBlock(b)
                \/ AllocSpin(b) \/ AllocFail(b) \/ AllocCleanup(b)
                \/ AllocCommit(b)

FreeStep(b) == FreeSum(b) \/ FreeBlocks(b)

Caller(b) == AllocBegin(b) \/ AllocStep(b) \/ FreeBegin(b) \/ FreeStep(b)
             \/ LockStep(b)

Recover(r) == RecoverBegin(r) \/ RecoverBuddy(r) \/ RecoverReset(r)
              \/ RecoverReady(r)

Driver == Probe \/ MgrInit \/ MgrInitFail \/ ProbeDone \/ DeviceFini
          \/ FiniMark \/ FiniBuddy

Next == \/ \E b \in Bo : Caller(b)
        \/ \E r \in Recoverer : Recover(r)
        \/ Driver
        \/ PressureBegins \/ PressureEnds

Spec == Init /\ [][Next]_vars

(***************************************************************************)
(* Fairness.  A kernel thread inside a call keeps running: weak fairness   *)
(* of its steps.  A mutex hands itself over to a waiter that has waited    *)
(* for long, so a thread that waits while the mutex is free again and      *)
(* again gets it: strong fairness of the steps that take it.  Nothing      *)
(* obliges anybody to start a call, to hold a resource for a bounded time  *)
(* or to remove the device.  ShortPressure is the one assumption on the    *)
(* environment, and FairSpec does without it.                              *)
(***************************************************************************)
Fairness ==
  /\ \A b \in Bo : /\ WF_vars(AllocStep(b)) /\ WF_vars(FreeStep(b))
                   /\ SF_vars(LockStep(b))
  /\ \A r \in Recoverer : /\ SF_vars(RecoverBuddy(r))
                          /\ WF_vars(RecoverReset(r) \/ RecoverReady(r))
  /\ WF_vars(FiniMark) /\ SF_vars(FiniBuddy)

ShortPressure == WF_vars(PressureEnds)

FairSpec == Spec /\ Fairness

CalmSpec == FairSpec /\ ShortPressure

-----------------------------------------------------------------------------
(* Properties *)

TypeOK ==
  /\ device_state \in {"INITIALIZING", "READY", "SHUTDOWN"}
  /\ drv \in {"unbound", "probe", "bound", "fini", "finilock", "gone"}
  /\ calls \in 0 .. MGR_CALLS
  /\ state \subseteq Flags
  /\ lock \in Bo \cup {None}
  /\ used \in 0 .. U64 - 1 /\ vis_usage \in 0 .. U64 - 1
  /\ mm_live \in BOOLEAN /\ mm_free \subseteq Block
  /\ live \subseteq Vres
  /\ blocks \in [Vres -> SUBSET Block]
  /\ pc \in [Bo -> {"idle", "checked", "lock", "loop", "cleanup", "held",
                    "freecheck", "freelock", "freeing"}]
  /\ vres \in [Bo -> Vres \cup {None}]
  /\ size \in [Bo -> Size \cup {0}]
  /\ remaining \in [Bo -> Nat]
  /\ retry_count \in [Bo -> 0 .. RETRY_COUNT - 1]
  /\ freed_size \in [Bo -> 0 .. Cardinality(Block)]
  /\ stats_used \in 0 .. U64 - 1
  /\ rpc \in [Recoverer -> {"idle", "lock", "reset", "ready"}]
  /\ pressure \in BOOLEAN /\ faults \in 0 .. MAX_PRESSURE

\* The histories without memory pressure and without a call of recover.
Clean == faults = 0 /\ Recoverer = {}

\* the blocks that the caller inside the allocation loop has taken so far
InFlight == IF lock # None /\ pc[lock] = "loop" THEN blocks[vres[lock]] ELSE {}

Allocated == Block \ mm_free

\* Exact accounting: without pressure, the counter the visible-size check
\* trusts is the number of blocks the buddy allocator has handed out, less
\* those the current allocation has not charged yet.  A free that sums its
\* list before it takes the mutex, or an early return, could break it.
AccountingExact ==
  Clean =>
    /\ used = Cardinality(Allocated) - Cardinality(InFlight)
    /\ vis_usage = used

\* The visible-size check is enough: without pressure, a caller that passed
\* it finds a free block in every turn of its loop, so neither the retry
\* path nor the spinning "continue" of the loop is ever taken.
NeverExhausted ==
  Clean => \A b \in Bo : pc[b] = "loop" => remaining[b] <= Cardinality(mm_free)

\* Teardown: a caller inside a critical section works on an initialised buddy
\* allocator, whatever the pressure, because fini marks the state before it
\* takes the mutex and the callers check the state again after they took it.
HolderSeesLiveBuddy ==
  Recoverer = {} => \A b \in Bo : pc[b] \in {"loop", "freeing"} => mm_live

\* No block is lent twice: the lists of two resources are disjoint and no
\* listed block is free, even when the retry path uses a freed resource.
BlocksLentOnce ==
  Recoverer = {} =>
    \A v \in Vres : /\ blocks[v] \cap mm_free = {}
                    /\ \A w \in Vres \ {v} : blocks[v] \cap blocks[w] = {}

\* No leak while the device works: without pressure, every block that is not
\* free is on the list of a resource that some buffer object still has.
NoLeak ==
  Clean /\ ~DeviceShutdown =>
    Allocated = UNION {blocks[vres[b]] : b \in {c \in Bo : vres[c] # None}}

\* The abstract manager: what a vram resource has lent is its list of blocks,
\* and the manager is open while its drm_buddy is initialised.
Abstract == INSTANCE Lender WITH
              Holder <- Vres, Unit <- Block, open <- mm_live, lent <- blocks

\* The VRAM manager lends blocks as Lender specifies, with the mutex, the two
\* counters and the retries left out.  It is so without recovery only, which
\* closes the manager and opens it while blocks are lent.
LendsBlocks == Abstract!Spec

\* The memory statistics agree with the manager as long as the device is not
\* shutting down: what update_usage counted in, less what it counted out, is
\* the manager's own usage, also after failed and retried allocations.
StatsAgree ==
  Recoverer = {} /\ ~DeviceShutdown => stats_used = used

\* A caller that has the mutex goes round in its loop without getting a block.
Spinning == \E b \in Bo : pc[b] = "loop" /\ remaining[b] >= 2 /\ BuddyFails

\* The one thing that can stop a call: a loop that spins for ever.
NoEndlessSpin == []<>~Spinning

\* Every call returns, an allocation with a resource or an error, a free and a
\* recovery at last: they wait for the mutex and for the turns of a loop, and
\* only a loop that spins for ever with the mutex taken keeps them.
CallsReturn ==
  NoEndlessSpin =>
    /\ \A b \in Bo :
         /\ (pc[b] \in {"checked", "lock", "loop", "cleanup"})
              ~> (pc[b] \in {"idle", "held"})
         /\ (pc[b] \in {"freecheck", "freelock", "freeing"}) ~> (pc[b] = "idle")
    /\ \A r \in Recoverer : (rpc[r] # "idle") ~> (rpc[r] = "idle")

\* Removing the device ends: both runs of fini get the mutex unless it spins.
RemoveEnds == NoEndlessSpin => ((drv = "fini") ~> (drv = "gone"))

-----------------------------------------------------------------------------
(* A claim of the documentation, checked as it is stated *)

\* "A failed allocation is retried automatically": an allocation that succeeds,
\* retried or not, has a resource that is allocated, with the size asked for.
HeldIsWhole ==
  \A b \in Bo : pc[b] = "held" =>
    vres[b] \in live /\ Cardinality(blocks[vres[b]]) = size[b]
=============================================================================
