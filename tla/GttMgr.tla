-------------------------------- MODULE GttMgr --------------------------------
(***************************************************************************)
(* The GTT manager of the driver (pddgpu_gtt_mgr.c): its state word, its   *)
(* spinlock, the usage TTM keeps for it and the drm_mm range allocator,    *)
(* used by concurrent callers while the device is set up, removed and, if  *)
(* anybody calls it, recovered.                                            *)
(*                                                                         *)
(* Each element of Bo is one sequential caller with at most one resource,  *)
(* as in VramMgr.  Memory and addresses are counted in pages.  A section   *)
(* under the spinlock contains no sleep and no call that could wait, and   *)
(* is one step.                                                            *)
(***************************************************************************)
EXTENDS Integers, FiniteSetsExt

CONSTANTS
  Bo,              \* the buffer objects
  Size,            \* the request sizes, in pages
  Lpfn,            \* the upper limits a place may have; 0: no address wanted
  GttSize,         \* the size of the GTT, in pages
  Recoverer,       \* the callers of pddgpu_gtt_mgr_recover: src/ has none
  RETRY_COUNT      \* PDDGPU_GTT_ALLOC_RETRY_COUNT

ASSUME SizeAssumption ==
  Size \subseteq Nat /\ Lpfn \subseteq Nat /\ GttSize \in Nat
ASSUME RetryAssumption == RETRY_COUNT \in Nat \ {0}
ASSUME BoAssumption == IsFiniteSet(Bo)

VARIABLES
  \* the device and the thread that sets it up and removes it
  device_state, drv, calls,
  \* struct pddgpu_gtt_mgr: the state word, and manager.usage
  state, usage,
  \* its drm_mm: initialised?, and the pages it holds as taken
  mm_live, mm_used,
  \* per buffer object: the call it is in, the request, and mm_nodes[0]
  pc, size, lpfn, temporary, retry_count, range,
  \* gtt_allocated less gtt_freed, as get_info reports it
  stats_used,
  \* the callers of recover
  rpc

deviceVars == <<device_state, drv, calls>>
mm         == <<mm_live, mm_used>>
request    == <<size, lpfn, temporary>>
outside    == <<deviceVars, state, mm_live, rpc>>  \* never written by callers
callers    == <<usage, pc, request, retry_count, range, stats_used>>

vars == <<outside, mm_used, callers>>

-----------------------------------------------------------------------------
(* Vocabulary; a name that ends in _fault belongs to a plausible mistake in *)
(* the operator defined after it and is used by no specification            *)

MGR_CALLS == 2   \* setup and removal each run init and fini twice

Page == 0 .. GttSize - 1

is_ready == "READY" \in state /\ "SHUTDOWN" \notin state

DeviceShutdown == device_state = "SHUTDOWN"

Goto(b, l) == pc' = [pc EXCEPT ![b] = l]

Holes_fault(b) == {r \in {first .. first + size[b] - 1 : first \in Page} :
                     r \subseteq Page \ mm_used}

\* the free places below the limit of the request of b
Holes(b) == {r \in {first .. first + size[b] - 1 : first \in Page} :
               r \subseteq Page \ mm_used /\ \A p \in r : p < lpfn[b]}

UpdateUsage_fault(alloc, n) ==
  stats_used' = IF alloc THEN stats_used + n ELSE stats_used

\* memory_stats_update_usage: nothing is counted once the device shuts down
UpdateUsage(alloc, n) ==
  stats_used' = IF DeviceShutdown THEN stats_used
                ELSE IF alloc THEN stats_used + n ELSE stats_used - n

Overcommitted_fault(b) == ~temporary[b] /\ usage - size[b] > GttSize

\* the usage, to which the resource of b already counts, exceeds the size
Overcommitted(b) == ~temporary[b] /\ usage > GttSize

\* the call of b returns: its local variables are gone
Return(b) ==
  /\ Goto(b, "idle")
  /\ size' = [size EXCEPT ![b] = 0]
  /\ lpfn' = [lpfn EXCEPT ![b] = 0]
  /\ temporary' = [temporary EXCEPT ![b] = FALSE]
  /\ retry_count' = [retry_count EXCEPT ![b] = 0]

ErrFree_fault(b) == Return(b) /\ UNCHANGED usage

\* ttm_resource_fini, kfree and return
ErrFree(b) == Return(b) /\ usage' = usage - size[b]

-----------------------------------------------------------------------------
Init ==
  /\ device_state = "INITIALIZING" /\ drv = "probe" /\ calls = 0
  /\ state = {} /\ usage = 0
  /\ mm_live = FALSE /\ mm_used = {}
  /\ pc = [b \in Bo |-> "idle"]
  /\ size = [b \in Bo |-> 0] /\ lpfn = [b \in Bo |-> 0]
  /\ temporary = [b \in Bo |-> FALSE]
  /\ retry_count = [b \in Bo |-> 0]
  /\ range = [b \in Bo |-> {}]
  /\ stats_used = 0
  /\ rpc = [r \in Recoverer |-> "idle"]

-----------------------------------------------------------------------------
(* pddgpu_gtt_mgr_alloc *)

\* entry, up to the first check: the device is not shutting down
AllocBegin(b) ==
  /\ pc[b] = "idle" /\ drv # "probe" /\ ~DeviceShutdown
  /\ \E s \in Size, l \in Lpfn, t \in BOOLEAN :
       /\ size' = [size EXCEPT ![b] = s]
       /\ lpfn' = [lpfn EXCEPT ![b] = l]
       /\ temporary' = [temporary EXCEPT ![b] = t]
  /\ Goto(b, "checked")
  /\ UNCHANGED <<outside, mm_used, usage, retry_count, range, stats_used>>

\* not ready, no page asked for, or, at any time, kzalloc fails
AllocReject(b) ==
  /\ pc[b] = "checked"
  /\ Return(b)
  /\ UNCHANGED <<outside, mm_used, usage, range, stats_used>>

\* the node is allocated, zeroed, and counted by ttm_resource_init
AllocPrepare(b) ==
  /\ pc[b] = "checked" /\ is_ready /\ size[b] > 0
  /\ usage' = usage + size[b]
  /\ Goto(b, "usage")
  /\ UNCHANGED <<outside, mm_used, request, retry_count, range, stats_used>>

\* the usage check fails
AllocOverLimit(b) ==
  /\ pc[b] = "usage" /\ Overcommitted(b)
  /\ ErrFree(b)
  /\ UNCHANGED <<outside, mm_used, range, stats_used>>

\* the usage check passes; a place without limit needs no address
AllocAdmit(b) ==
  /\ pc[b] = "usage" /\ ~Overcommitted(b)
  /\ Goto(b, IF lpfn[b] = 0 THEN "count" ELSE "insert")
  /\ UNCHANGED <<outside, mm_used, usage, request, retry_count, range,
                 stats_used>>

\* retry_alloc, under the lock: the manager is not ready any more
AllocNotReady(b) ==
  /\ pc[b] = "insert" /\ ~is_ready
  /\ ErrFree(b)
  /\ UNCHANGED <<outside, mm_used, range, stats_used>>

AllocInsert_fault(b) ==
  /\ pc[b] = "insert" /\ Holes(b) # {}
  /\ \E hole \in Holes(b) :
       /\ range' = [range EXCEPT ![b] = hole]
       /\ mm_used' = mm_used \cup hole
  /\ Goto(b, "count")
  /\ UNCHANGED <<outside, usage, request, retry_count, stats_used>>

\* retry_alloc, under the lock: drm_mm_insert_node_in_range finds a hole
AllocInsert(b) ==
  /\ pc[b] = "insert" /\ is_ready
  /\ \E hole \in Holes(b) :
       /\ range' = [range EXCEPT ![b] = hole]
       /\ mm_used' = mm_used \cup hole
  /\ Goto(b, "count")
  /\ UNCHANGED <<outside, usage, request, retry_count, stats_used>>

AllocRetry_fault(b) ==
  /\ pc[b] = "insert" /\ is_ready /\ Holes(b) = {}
  /\ UNCHANGED vars

AllocRetryMore_fault(b) ==
  /\ pc[b] = "insert" /\ is_ready /\ Holes(b) = {}
  /\ IF retry_count[b] < RETRY_COUNT
       THEN /\ retry_count' = [retry_count EXCEPT ![b] = @ + 1]
            /\ UNCHANGED <<usage, pc, request>>
       ELSE ErrFree(b)
  /\ UNCHANGED <<outside, mm_used, range, stats_used>>

\* ... or none: after a sleep the same node is tried again, or given up
AllocRetry(b) ==
  /\ pc[b] = "insert" /\ is_ready /\ Holes(b) = {}
  /\ IF retry_count[b] + 1 < RETRY_COUNT
       THEN /\ retry_count' = [retry_count EXCEPT ![b] = @ + 1]
            /\ UNCHANGED <<usage, pc, request>>
       ELSE ErrFree(b)
  /\ UNCHANGED <<outside, mm_used, range, stats_used>>

\* the statistics, and the resource is handed out
AllocCount(b) ==
  /\ pc[b] = "count"
  /\ UpdateUsage(TRUE, size[b])
  /\ retry_count' = [retry_count EXCEPT ![b] = 0]
  /\ Goto(b, "held")
  /\ UNCHANGED <<outside, mm_used, usage, request, range>>

-----------------------------------------------------------------------------
(* pddgpu_gtt_mgr_free: whoever meets a device or a manager that is shut    *)
(* down returns at once; the resource is "lost", it stays counted and      *)
(* nobody calls free for it again                                          *)

FreeBegin(b) ==
  /\ pc[b] = "held"
  /\ Goto(b, IF DeviceShutdown THEN "lost" ELSE "freecheck")
  /\ UNCHANGED <<outside, mm_used, usage, request, retry_count, range,
                 stats_used>>

FreeCheck(b) ==
  /\ pc[b] = "freecheck"
  /\ Goto(b, IF is_ready THEN "remove" ELSE "lost")
  /\ UNCHANGED <<outside, mm_used, usage, request, retry_count, range,
                 stats_used>>

FreeRemove_fault(b) ==
  /\ pc[b] = "remove"
  /\ mm_used' = mm_used \ range[b]
  /\ Goto(b, IF is_ready THEN "freed" ELSE "lost")
  /\ UNCHANGED <<outside, usage, request, retry_count, range, stats_used>>

\* under the lock: the state again, and the node leaves the drm_mm if it is
\* in it
FreeRemove(b) ==
  /\ pc[b] = "remove"
  /\ IF is_ready
       THEN /\ mm_used' = mm_used \ range[b]
            /\ range' = [range EXCEPT ![b] = {}]
            /\ Goto(b, "freed")
       ELSE Goto(b, "lost") /\ UNCHANGED <<mm_used, range>>
  /\ UNCHANGED <<outside, usage, request, retry_count, stats_used>>

FreeCount(b) ==
  /\ pc[b] = "freed"
  /\ UpdateUsage(FALSE, size[b])
  /\ Goto(b, "fini")
  /\ UNCHANGED <<outside, mm_used, usage, request, retry_count, range>>

\* ttm_resource_fini and kfree
FreeFini(b) ==
  /\ pc[b] = "fini"
  /\ ErrFree(b)
  /\ UNCHANGED <<outside, mm_used, range, stats_used>>

-----------------------------------------------------------------------------
(* pddgpu_gtt_mgr_init, pddgpu_gtt_mgr_fini and who calls them *)

MgrInit ==
  /\ drv = "probe" /\ calls < MGR_CALLS
  /\ mm_live' = TRUE /\ mm_used' = {}
  /\ state' = {"READY"}
  /\ calls' = calls + 1
  /\ UNCHANGED <<callers, device_state, drv, rpc>>

\* drm_mm_init reports an error: the setup is unwound
MgrInitFail ==
  /\ drv = "probe" /\ calls < MGR_CALLS
  /\ mm_live' = FALSE
  /\ state' = {"INITIALIZING", "ERROR"}
  /\ device_state' = "SHUTDOWN" /\ drv' = "gone"
  /\ UNCHANGED <<callers, calls, mm_used, rpc>>

ProbeDone ==
  /\ drv = "probe" /\ calls = MGR_CALLS
  /\ drv' = "bound" /\ calls' = 0 /\ device_state' = "READY"
  /\ UNCHANGED <<callers, state, mm, rpc>>

DeviceFini ==
  /\ drv = "bound"
  /\ drv' = "fini" /\ device_state' = "SHUTDOWN"
  /\ UNCHANGED <<callers, calls, state, mm, rpc>>

\* the state word, without the lock ...
FiniMark ==
  /\ drv = "fini" /\ drv' = "takedown"
  /\ state' = {"SHUTDOWN"}
  /\ UNCHANGED <<callers, device_state, calls, mm, rpc>>

\* ... and drm_mm_takedown under it; device_fini and ttm_fini both call fini
FiniTakedown ==
  /\ drv = "takedown"
  /\ mm_live' = FALSE
  /\ calls' = calls + 1
  /\ drv' = IF calls + 1 < MGR_CALLS THEN "fini" ELSE "gone"
  /\ UNCHANGED <<callers, device_state, state, mm_used, rpc>>

-----------------------------------------------------------------------------
(* pddgpu_gtt_mgr_recover *)

RecoverBegin(r) ==
  /\ rpc[r] = "idle" /\ drv # "probe" /\ ~DeviceShutdown
  /\ state' = state \ {"ERROR"}
  /\ rpc' = [rpc EXCEPT ![r] = "init"]
  /\ UNCHANGED <<callers, deviceVars, mm>>

\* drm_mm_init under the lock, over whatever nodes are in it
RecoverMm(r) ==
  /\ rpc[r] = "init"
  /\ \/ /\ mm_live' = TRUE /\ mm_used' = {}
        /\ rpc' = [rpc EXCEPT ![r] = "ready"]
        /\ UNCHANGED state
     \/ /\ state' = state \cup {"ERROR"}
        /\ rpc' = [rpc EXCEPT ![r] = "idle"]
        /\ UNCHANGED mm
  /\ UNCHANGED <<callers, deviceVars>>

RecoverReady(r) ==
  /\ rpc[r] = "ready"
  /\ state' = {"READY"}
  /\ rpc' = [rpc EXCEPT ![r] = "idle"]
  /\ UNCHANGED <<callers, deviceVars, mm>>

-----------------------------------------------------------------------------
AllocStep(b) == \/ AllocReject(b) \/ AllocPrepare(b) \/ AllocOverLimit(b)
                \/ AllocAdmit(b) \/ AllocNotReady(b) \/ AllocInsert(b)
                \/ AllocRetry(b) \/ AllocCount(b)

FreeStep(b) == FreeCheck(b) \/ FreeRemove(b) \/ FreeCount(b) \/ FreeFini(b)

Caller(b) == AllocBegin(b) \/ AllocStep(b) \/ FreeBegin(b) \/ FreeStep(b)

Fini == FiniMark \/ FiniTakedown

Driver == MgrInit \/ MgrInitFail \/ ProbeDone \/ DeviceFini \/ Fini

Recover(r) == RecoverBegin(r) \/ RecoverMm(r) \/ RecoverReady(r)

Next == \/ \E b \in Bo : Caller(b)
        \/ Driver
        \/ \E r \in Recoverer : Recover(r)

Spec == Init /\ [][Next]_vars

(***************************************************************************)
(* Fairness: a thread inside a call keeps running, and the spinlock is     *)
(* held for single steps only.  Nobody has to call anything.               *)
(***************************************************************************)
Fairness == /\ \A b \in Bo : WF_vars(AllocStep(b)) /\ WF_vars(FreeStep(b))
            /\ WF_vars(Fini)

FairSpec == Spec /\ Fairness

-----------------------------------------------------------------------------
(* Properties *)

TypeOK ==
  /\ device_state \in {"INITIALIZING", "READY", "SHUTDOWN"}
  /\ drv \in {"probe", "bound", "fini", "takedown", "gone"}
  /\ calls \in 0 .. MGR_CALLS
  /\ state \subseteq {"INITIALIZING", "READY", "SHUTDOWN", "ERROR"}
  /\ usage \in Int /\ stats_used \in Int
  /\ mm_live \in BOOLEAN /\ mm_used \subseteq Page
  /\ pc \in [Bo -> {"idle", "checked", "usage", "insert", "count", "held",
                    "freecheck", "remove", "freed", "fini", "lost"}]
  /\ size \in [Bo -> Size \cup {0}] /\ lpfn \in [Bo -> Lpfn \cup {0}]
  /\ temporary \in [Bo -> BOOLEAN]
  /\ retry_count \in [Bo -> 0 .. RETRY_COUNT - 1]
  /\ range \in [Bo -> SUBSET Page]
  /\ rpc \in [Recoverer -> {"idle", "init", "ready"}]

Total(S) == MapThenSumSet(LAMBDA b : size[b], S)

At(labels) == {b \in Bo : pc[b] \in labels}

Counted == At({"held", "freecheck", "remove", "freed"})

Admitted == At({"insert", "count", "fini", "lost"}) \cup Counted

\* The usage TTM keeps is the size of the resources that exist: every error
\* path and every free takes its share back, and a free that returns early
\* keeps it, as it keeps the resource.
UsageExact == usage = Total(Admitted \cup At({"usage"}))

\* No overcommitment: however the charges and the checks of concurrent
\* allocations interleave, the admitted resources that are not temporary fit
\* into the GTT together.
AdmittedFit == Total({b \in Admitted : ~temporary[b]}) <= GttSize

\* Addresses are lent once: the ranges of two resources are disjoint, and the
\* allocator holds exactly the ranges of the resources as taken.
RangesLentOnce ==
  Recoverer = {} =>
    /\ \A a, b \in Bo : a # b => range[a] \cap range[b] = {}
    /\ mm_used = UNION {range[b] : b \in Bo}

\* A resource has a range of its size below its limit if it asked for an
\* address and none otherwise, from its insertion to its removal.
RangeAsAsked ==
  \A b \in Bo :
    IF lpfn[b] # 0 /\ pc[b] \in {"count", "held", "freecheck", "remove", "lost"}
      THEN Cardinality(range[b]) = size[b] /\ \A p \in range[b] : p < lpfn[b]
      ELSE range[b] = {}

\* The memory statistics agree until the device shuts down: they hold what is
\* held and not yet uncounted.
StatsAgree == ~DeviceShutdown => stats_used = Total(Counted)

\* Nobody touches the range allocator after its takedown: the check under the
\* lock closes the race with the removal of the device.
UntouchedAfterTakedown ==
  [][Recoverer = {} /\ ~mm_live /\ drv # "probe" => mm_used' = mm_used]_vars

\* The abstract manager: the pages a buffer object has are those of its range,
\* and the manager is open while its drm_mm is initialised.
Abstract == INSTANCE Lender WITH
              Holder <- Bo, Unit <- Page, open <- mm_live, lent <- range

\* The GTT manager lends pages as Lender specifies.  It is so without recovery
\* only, which opens the manager while pages are lent.
LendsPages == Abstract!Spec

\* Every allocation returns, also when all its retries fail.
AllocReturns ==
  \A b \in Bo : (pc[b] \in {"checked", "usage", "insert", "count"})
                 ~> (pc[b] \in {"idle", "held"})
=============================================================================
