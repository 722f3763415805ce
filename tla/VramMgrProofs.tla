---------------------------- MODULE VramMgrProofs ----------------------------
(***************************************************************************)
(* Theorems about VramMgr, for every set of callers, resources and blocks. *)
(*                                                                         *)
(* First the types.  Then mutual exclusion and teardown: without recover,  *)
(* a caller inside a critical section works on a live buddy allocator and  *)
(* no block is lent twice.                                                 *)
(***************************************************************************)
EXTENDS VramMgr, FiniteSetTheorems, TLAPS

\* the places in a call where the caller has a resource
HasResource == {"lock", "loop", "cleanup", "held", "freecheck", "freelock",
                "freeing"}

CallerShape == \A b \in Bo : pc[b] \in HasResource <=> vres[b] \in Vres

DriverShape == /\ drv = "bound" => calls = 0
               /\ drv \in {"fini", "finilock"} => calls < MGR_CALLS

TypeInv == TypeOK /\ CallerShape /\ DriverShape

-----------------------------------------------------------------------------
(* Helpers *)

\* The two u64 operations stay in range.
LEMMA U64Range ==
  ASSUME NEW x \in 0 .. U64 - 1, NEW y \in 0 .. U64 - 1
  PROVE  Add64(x, y) \in 0 .. U64 - 1 /\ Sub64(x, y) \in 0 .. U64 - 1
  BY SizeAssumption DEF Add64, Sub64

\* The list of a resource has at most as many blocks as the VRAM.
LEMMA ListSize ==
  ASSUME NEW S \in SUBSET Block
  PROVE  /\ IsFiniteSet(S)
         /\ Cardinality(S) \in 0 .. Cardinality(Block)
         /\ Cardinality(S) \in 0 .. U64 - 1
  <1>1. IsFiniteSet(S) /\ Cardinality(S) <= Cardinality(Block)
    BY FS_Subset, BlockAssumption
  <1>2. Cardinality(S) \in Nat /\ Cardinality(Block) \in Nat
    BY <1>1, FS_CardinalityType, BlockAssumption
  <1> QED BY <1>1, <1>2, SizeAssumption

LEMMA BlockCount == Cardinality(Block) \in Nat
  BY FS_CardinalityType, BlockAssumption

\* A request fits the counters.
LEMMA RequestSize ==
  ASSUME NEW s \in Size \cup {0}
  PROVE  s \in Nat /\ s \in 0 .. U64 - 1
  BY SizeAssumption, BlockCount

-----------------------------------------------------------------------------
(* Type correctness *)

LEMMA TypeInit == Init => TypeInv
  <1> SUFFICES ASSUME Init PROVE TypeInv
    OBVIOUS
  <1>1. /\ 0 \in 0 .. U64 - 1 /\ 0 \in 0 .. RETRY_COUNT - 1
        /\ 0 \in 0 .. Cardinality(Block) /\ 0 \in 0 .. MAX_PRESSURE
        /\ 0 \in 0 .. MGR_CALLS
    BY SizeAssumption, BoundAssumption, BlockCount DEF MGR_CALLS
  <1>2. TypeOK
    BY <1>1 DEF Init, TypeOK
  <1>3. CallerShape
    BY CallerAssumption DEF Init, CallerShape, HasResource
  <1> QED BY <1>2, <1>3 DEF TypeInv, Init, DriverShape

\* A call that returns leaves its local variables well typed.
LEMMA TypeReturn ==
  ASSUME TypeInv, NEW b \in Bo, Return(b)
  PROVE  /\ pc' \in [Bo -> {"idle", "checked", "lock", "loop", "cleanup",
                           "held", "freecheck", "freelock", "freeing"}]
         /\ vres' \in [Bo -> Vres \cup {None}]
         /\ size' \in [Bo -> Size \cup {0}]
         /\ remaining' \in [Bo -> Nat]
         /\ retry_count' \in [Bo -> 0 .. RETRY_COUNT - 1]
         /\ freed_size' \in [Bo -> 0 .. Cardinality(Block)]
         /\ CallerShape'
  BY CallerAssumption, BoundAssumption, BlockCount
  DEF TypeInv, TypeOK, Return, Goto, CallerShape, HasResource

LEMMA TypeCaller ==
  ASSUME TypeInv, NEW b \in Bo, Caller(b)
  PROVE  TypeInv'
  <1> USE DEF TypeInv, TypeOK, CallerShape, HasResource, DriverShape, outside, callers,
          deviceVars, counters, mm, slab, locals, env, Goto
  <1>1. CASE AllocBegin(b)
    BY <1>1, CallerAssumption DEF AllocBegin
  <1>2. CASE AllocReject(b)
    BY <1>2, TypeReturn DEF AllocReject
  <1>3. CASE AllocPrepare(b)
    BY <1>3, CallerAssumption, RequestSize DEF AllocPrepare
  <1>4. CASE AllocGiveUp(b)
    BY <1>4, TypeReturn DEF AllocGiveUp
  <1>5. CASE AllocLock(b)
    BY <1>5 DEF AllocLock
  <1>6. CASE AllocBlock(b)
    BY <1>6 DEF AllocBlock
  <1>7. CASE AllocSpin(b)
    BY <1>7 DEF AllocSpin, vars
  <1>8. CASE AllocFail(b)
    BY <1>8 DEF AllocFail, Unlock
  <1>9. CASE AllocCleanup(b)
    BY <1>9, TypeReturn, BoundAssumption DEF AllocCleanup, FreeList, MayRetry
  <1>10. CASE AllocCommit(b)
    <2>1. /\ used' \in 0 .. U64 - 1 /\ vis_usage' \in 0 .. U64 - 1
          /\ stats_used' \in 0 .. U64 - 1
      BY <1>10, U64Range, RequestSize DEF AllocCommit, Count, UpdateUsage
    <2> QED
      BY <1>10, <2>1, TypeReturn DEF AllocCommit, Unlock
  <1>11. CASE FreeBegin(b)
    BY <1>11, TypeReturn DEF FreeBegin
  <1>12. CASE FreeSum(b)
    BY <1>12, TypeReturn, ListSize DEF FreeSum
  <1>13. CASE FreeLock(b)
    BY <1>13, TypeReturn DEF FreeLock
  <1>14. CASE FreeBlocks(b)
    <2>1. freed_size[b] \in 0 .. U64 - 1
      BY BlockCount, SizeAssumption
    <2>2. /\ used' \in 0 .. U64 - 1 /\ vis_usage' \in 0 .. U64 - 1
          /\ stats_used' \in 0 .. U64 - 1
      BY <1>14, <2>1, U64Range DEF FreeBlocks, Uncount, UpdateUsage
    <2> QED
      BY <1>14, <2>2, TypeReturn DEF FreeBlocks, FreeList, Unlock
  <1> QED
    BY <1>1, <1>2, <1>3, <1>4, <1>5, <1>6, <1>7, <1>8, <1>9, <1>10, <1>11,
       <1>12, <1>13, <1>14
    DEF Caller, AllocStep, FreeStep, LockStep

LEMMA TypeRecover ==
  ASSUME TypeInv, NEW r \in Recoverer, Recover(r)
  PROVE  TypeInv'
  <1> USE DEF TypeInv, TypeOK, CallerShape, DriverShape, callers, deviceVars, counters, mm,
          slab, locals, env
  <1>1. CASE RecoverBegin(r)
    BY <1>1 DEF RecoverBegin
  <1>2. CASE RecoverBuddy(r)
    BY <1>2 DEF RecoverBuddy, Flags
  <1>3. CASE RecoverReset(r)
    BY <1>3, SizeAssumption, BlockCount DEF RecoverReset
  <1>4. CASE RecoverReady(r)
    BY <1>4 DEF RecoverReady, Flags
  <1> QED BY <1>1, <1>2, <1>3, <1>4 DEF Recover

LEMMA TypeRest ==
  ASSUME TypeInv, Driver \/ PressureBegins \/ PressureEnds
  PROVE  TypeInv'
  <1> USE DEF TypeInv, TypeOK, CallerShape, DriverShape, callers, deviceVars, counters, mm,
          slab, locals, env
  <1>0. /\ {} \subseteq Flags /\ {"READY"} \subseteq Flags
        /\ {"SHUTDOWN"} \subseteq Flags
        /\ {"INITIALIZING", "ERROR"} \subseteq Flags
        /\ 0 \in 0 .. MGR_CALLS /\ 0 \in 0 .. U64 - 1
    BY SizeAssumption, BlockCount DEF Flags, MGR_CALLS
  <1>1. CASE Probe
    BY <1>0, <1>1 DEF Probe
  <1>2. CASE MgrInit
    <2>1. calls' \in 0 .. MGR_CALLS
      BY <1>2 DEF MgrInit, MGR_CALLS
    <2> QED BY <1>0, <1>2, <2>1 DEF MgrInit
  <1>3. CASE MgrInitFail
    BY <1>0, <1>3 DEF MgrInitFail
  <1>4. CASE ProbeDone
    BY <1>0, <1>4 DEF ProbeDone
  <1>5. CASE DeviceFini
    BY <1>5 DEF DeviceFini, MGR_CALLS
  <1>6. CASE FiniMark
    BY <1>0, <1>6 DEF FiniMark
  <1>7. CASE FiniBuddy
    <2>1. /\ calls' \in 0 .. MGR_CALLS
          /\ drv' = "fini" => calls' < MGR_CALLS
      BY <1>7 DEF FiniBuddy, MGR_CALLS
    <2> QED BY <1>7, <2>1 DEF FiniBuddy
  <1>8. CASE PressureBegins
    BY <1>8, BoundAssumption DEF PressureBegins
  <1>9. CASE PressureEnds
    BY <1>9 DEF PressureEnds
  <1> QED
    BY <1>1, <1>2, <1>3, <1>4, <1>5, <1>6, <1>7, <1>8, <1>9 DEF Driver

LEMMA TypeStutter == TypeInv /\ UNCHANGED vars => TypeInv'
  BY DEF TypeInv, TypeOK, CallerShape, DriverShape, vars, outside, callers, deviceVars,
         counters, mm, slab, locals, env

LEMMA TypeInvariant == Spec => []TypeInv
  <1>1. TypeInv /\ [Next]_vars => TypeInv'
    BY TypeCaller, TypeRecover, TypeRest, TypeStutter DEF Next
  <1> QED BY <1>1, TypeInit, PTL DEF Spec

\* Every state of every history is well typed: no counter leaves u64, no
\* retry goes past PDDGPU_VRAM_ALLOC_RETRY_COUNT.
THEOREM TypeCorrect == Spec => []TypeOK
  <1>1. TypeInv => TypeOK
    BY DEF TypeInv
  <1> QED BY <1>1, TypeInvariant, PTL

-----------------------------------------------------------------------------
(* Mutual exclusion and teardown *)

\* the mutex is held exactly by the caller inside a critical section
LockInv == \A b \in Bo : pc[b] \in {"loop", "freeing"} <=> lock = b

\* before the device is registered nobody has called, so nothing is lent
QuietInv == drv \in {"unbound", "probe"} =>
              /\ \A b \in Bo : pc[b] = "idle"
              /\ \A v \in Vres : blocks[v] = {}

\* how far the driver is tells whether the allocator is live, and once the
\* allocator is gone the state word says so for good
TeardownInv == Recoverer = {} =>
  /\ \/ drv = "bound"
     \/ drv \in {"fini", "finilock"} /\ calls = 0
     \/ drv = "probe" /\ calls > 0
     => mm_live
  /\ drv \in {"finilock", "gone"} \/ (drv = "fini" /\ calls > 0)
     => state = {"SHUTDOWN"}
  /\ lock # None => mm_live

LendInv == BlocksLentOnce

Inv == TypeInv /\ LockInv /\ QuietInv /\ TeardownInv /\ LendInv

LEMMA InitInv == Init => LockInv /\ QuietInv /\ TeardownInv /\ LendInv
  BY CallerAssumption
  DEF Init, LockInv, QuietInv, TeardownInv, LendInv, BlocksLentOnce

-----------------------------------------------------------------------------
(* Steps of a caller *)

LEMMA LockCaller ==
  ASSUME Inv, NEW b \in Bo, Caller(b)
  PROVE  LockInv' /\ QuietInv'
  <1> USE CallerAssumption
      DEF Inv, TypeInv, TypeOK, LockInv, QuietInv, outside, callers,
          deviceVars, counters, mm, slab, locals, Goto, Return, Unlock
  <1>1. CASE AllocBegin(b)
    BY <1>1 DEF AllocBegin
  <1>2. CASE AllocReject(b)
    BY <1>2 DEF AllocReject
  <1>3. CASE AllocPrepare(b)
    BY <1>3 DEF AllocPrepare
  <1>4. CASE AllocGiveUp(b)
    BY <1>4 DEF AllocGiveUp
  <1>5. CASE AllocLock(b)
    BY <1>5 DEF AllocLock
  <1>6. CASE AllocBlock(b)
    BY <1>6 DEF AllocBlock
  <1>7. CASE AllocSpin(b)
    BY <1>7 DEF AllocSpin, vars
  <1>8. CASE AllocFail(b)
    BY <1>8 DEF AllocFail
  <1>9. CASE AllocCleanup(b)
    BY <1>9 DEF AllocCleanup
  <1>10. CASE AllocCommit(b)
    BY <1>10 DEF AllocCommit
  <1>11. CASE FreeBegin(b)
    BY <1>11 DEF FreeBegin
  <1>12. CASE FreeSum(b)
    BY <1>12 DEF FreeSum
  <1>13. CASE FreeLock(b)
    BY <1>13 DEF FreeLock
  <1>14. CASE FreeBlocks(b)
    BY <1>14 DEF FreeBlocks
  <1> QED
    BY <1>1, <1>2, <1>3, <1>4, <1>5, <1>6, <1>7, <1>8, <1>9, <1>10, <1>11,
       <1>12, <1>13, <1>14
    DEF Caller, AllocStep, FreeStep, LockStep

\* Taking the mutex is the one step of a caller that matters: is_ready, read
\* with the mutex taken, rules out that fini has been there.
LEMMA TeardownCaller ==
  ASSUME Inv, NEW b \in Bo, Caller(b)
  PROVE  TeardownInv'
  <1> SUFFICES ASSUME Recoverer = {} PROVE TeardownInv'
    BY DEF TeardownInv
  <1>1. UNCHANGED <<drv, calls, state, mm_live>>
    BY DEF Caller, AllocStep, FreeStep, LockStep, AllocBegin, AllocReject,
       AllocPrepare, AllocGiveUp, AllocLock, AllocBlock, AllocSpin, AllocFail,
       AllocCleanup, AllocCommit, FreeBegin, FreeSum, FreeLock, FreeBlocks,
       outside, deviceVars, mm, vars, FreeList
  <1>2. lock' \in {lock, None} \/ (lock' = b /\ is_ready /\ pc[b] # "idle")
    BY DEF Caller, AllocStep, FreeStep, LockStep, AllocBegin, AllocReject,
       AllocPrepare, AllocGiveUp, AllocLock, AllocBlock, AllocSpin, AllocFail,
       AllocCleanup, AllocCommit, FreeBegin, FreeSum, FreeLock, FreeBlocks,
       outside, vars, Unlock
  <1>3. is_ready => state # {"SHUTDOWN"}
    BY DEF is_ready
  <1>4. is_ready /\ pc[b] # "idle" => mm_live
    BY <1>3 DEF Inv, TypeInv, TypeOK, QuietInv, TeardownInv, MGR_CALLS
  <1> QED
    BY <1>1, <1>2, <1>4 DEF Inv, TeardownInv

LEMMA LendCaller ==
  ASSUME Inv, NEW b \in Bo, Caller(b)
  PROVE  LendInv'
  <1> SUFFICES ASSUME Recoverer = {} PROVE LendInv'
    BY DEF LendInv, BlocksLentOnce
  <1> USE DEF LendInv, BlocksLentOnce
  <1>1. vres[b] \in Vres \/ pc[b] \in {"idle", "checked"}
    BY DEF Inv, TypeInv, TypeOK, CallerShape, HasResource
  <1>2. CASE UNCHANGED <<blocks, mm_free>>
    BY <1>2 DEF Inv
  <1>3. CASE AllocPrepare(b)
    BY <1>3 DEF Inv, TypeInv, TypeOK, AllocPrepare, mm
  <1>4. CASE AllocBlock(b)
    BY <1>1, <1>4 DEF Inv, TypeInv, TypeOK, AllocBlock
  <1>5. CASE FreeList(vres[b]) /\ vres[b] \in Vres
    BY <1>5 DEF Inv, TypeInv, TypeOK, FreeList
  <1> QED
    BY <1>1, <1>2, <1>3, <1>4, <1>5
    DEF Caller, AllocStep, FreeStep, LockStep, AllocBegin, AllocReject,
        AllocGiveUp, AllocLock, AllocSpin, AllocFail, AllocCleanup,
        AllocCommit, FreeBegin, FreeSum, FreeLock, FreeBlocks, slab, mm, vars,
        callers

-----------------------------------------------------------------------------
(* Steps of the driver, of a recoverer and of the environment *)

LEMMA RecoverSteps ==
  ASSUME Inv, NEW r \in Recoverer, Recover(r)
  PROVE  LockInv' /\ QuietInv' /\ TeardownInv' /\ LendInv'
  <1>1. UNCHANGED <<pc, lock, drv, blocks, Recoverer>> /\ Recoverer # {}
    BY DEF Recover, RecoverBegin, RecoverBuddy, RecoverReset, RecoverReady,
       callers, deviceVars, slab
  <1> QED
    BY <1>1 DEF Inv, LockInv, QuietInv, TeardownInv, LendInv, BlocksLentOnce

LEMMA RestSteps ==
  ASSUME Inv, Driver \/ PressureBegins \/ PressureEnds
  PROVE  LockInv' /\ QuietInv' /\ TeardownInv' /\ LendInv'
  <1> USE CallerAssumption
      DEF Inv, TypeInv, TypeOK, DriverShape, LockInv, QuietInv, TeardownInv,
          LendInv, BlocksLentOnce, callers, deviceVars, slab, locals, mm,
          MGR_CALLS
  <1>1. CASE Probe
    BY <1>1 DEF Probe
  <1>2. CASE MgrInit
    BY <1>2 DEF MgrInit
  <1>3. CASE MgrInitFail
    BY <1>3 DEF MgrInitFail
  <1>4. CASE ProbeDone
    BY <1>4 DEF ProbeDone
  <1>5. CASE DeviceFini
    BY <1>5 DEF DeviceFini
  <1>6. CASE FiniMark
    BY <1>6 DEF FiniMark
  <1>7. CASE FiniBuddy
    BY <1>7 DEF FiniBuddy
  <1>8. CASE PressureBegins
    BY <1>8 DEF PressureBegins
  <1>9. CASE PressureEnds
    BY <1>9 DEF PressureEnds
  <1> QED
    BY <1>1, <1>2, <1>3, <1>4, <1>5, <1>6, <1>7, <1>8, <1>9 DEF Driver

LEMMA StutterStep ==
  Inv /\ UNCHANGED vars => LockInv' /\ QuietInv' /\ TeardownInv' /\ LendInv'
  BY DEF Inv, LockInv, QuietInv, TeardownInv, LendInv, BlocksLentOnce, vars,
         outside, callers, deviceVars, slab, mm

LEMMA InvInvariant == Spec => []Inv
  <1>1. Init => Inv
    BY TypeInit, InitInv DEF Inv
  <1>2. ASSUME Inv, [Next]_vars PROVE Inv'
    <2>1. TypeInv'
      BY <1>2, TypeCaller, TypeRecover, TypeRest, TypeStutter DEF Next, Inv
    <2>2. LockInv' /\ QuietInv' /\ TeardownInv' /\ LendInv'
      BY <1>2, LockCaller, TeardownCaller, LendCaller, RecoverSteps,
         RestSteps, StutterStep
      DEF Next
    <2> QED BY <2>1, <2>2 DEF Inv
  <1> QED BY <1>1, <1>2, PTL DEF Spec

\* A caller inside a critical section of the manager works on an initialised
\* buddy allocator, in every history without recover: removing the device
\* races with allocations and frees, and never pulls it from under them.
THEOREM HolderSafe == Spec => []HolderSeesLiveBuddy
  <1>1. Inv => HolderSeesLiveBuddy
    BY CallerAssumption
    DEF Inv, LockInv, TeardownInv, HolderSeesLiveBuddy
  <1> QED BY <1>1, InvInvariant, PTL

\* No block is on two lists, or on a list and free, in every history without
\* recover, even when a retry works on a resource that was freed.
THEOREM LentOnce == Spec => []BlocksLentOnce
  <1>1. Inv => BlocksLentOnce
    BY DEF Inv, LendInv
  <1> QED BY <1>1, InvInvariant, PTL

\* the callers inside a critical section of the manager
Critical == {b \in Bo : pc[b] \in {"loop", "freeing"}}

\* The mutex excludes: two callers are never both inside a critical section.
THEOREM MutualExclusion == Spec => [](\A a, b \in Critical : a = b)
  <1>1. Inv => \A a, b \in Critical : a = b
    BY DEF Inv, LockInv, Critical
  <1> QED BY <1>1, InvInvariant, PTL

-----------------------------------------------------------------------------
(* The VRAM manager implements Lender *)

\* A caller lends blocks in its loop, with the mutex and a live allocator, and
\* gives them back with the whole list; every other step leaves them alone.
LEMMA CallerLends ==
  ASSUME Inv, Recoverer = {}, NEW b \in Bo, Caller(b)
  PROVE  [Abstract!Next]_Abstract!vars
  <1> USE DEF Abstract!Next, Abstract!vars
  <1>1. vres[b] \in Vres \/ pc[b] \in {"idle", "checked"}
    BY DEF Inv, TypeInv, TypeOK, CallerShape, HasResource
  <1>2. mm_live' = mm_live
    BY DEF Caller, AllocStep, FreeStep, LockStep, AllocBegin, AllocReject,
       AllocPrepare, AllocGiveUp, AllocLock, AllocBlock, AllocSpin, AllocFail,
       AllocCleanup, AllocCommit, FreeBegin, FreeSum, FreeLock, FreeBlocks,
       mm, vars
  <1>3. CASE UNCHANGED blocks
    BY <1>2, <1>3
  <1>4. CASE AllocPrepare(b)
    <2>1. PICK v \in Vres : blocks' = [blocks EXCEPT ![v] = {}]
      BY <1>4 DEF AllocPrepare
    <2> QED BY <1>2, <2>1 DEF Abstract!TakeBack
  <1>5. CASE AllocBlock(b)
    <2>1. vres[b] \in Vres /\ mm_live
      BY <1>1, <1>5, CallerAssumption
      DEF AllocBlock, Inv, LockInv, TeardownInv
    <2>2. PICK blk \in mm_free :
            blocks' = [blocks EXCEPT ![vres[b]] = @ \cup {blk}]
      BY <1>5 DEF AllocBlock
    <2>3. {blk} \in SUBSET (Block \ Abstract!Lent)
      BY <2>2 DEF Inv, TypeInv, TypeOK, LendInv, BlocksLentOnce, Abstract!Lent
    <2>4. Abstract!Lend(vres[b])
      BY <1>2, <2>1, <2>2, <2>3 DEF Abstract!Lend
    <2> QED BY <2>1, <2>4
  <1>6. CASE FreeList(vres[b]) /\ vres[b] \in Vres
    BY <1>2, <1>6 DEF FreeList, Abstract!TakeBack
  <1> QED
    BY <1>1, <1>3, <1>4, <1>5, <1>6
    DEF Caller, AllocStep, FreeStep, LockStep, AllocBegin, AllocReject,
        AllocGiveUp, AllocLock, AllocSpin, AllocFail, AllocCleanup,
        AllocCommit, FreeBegin, FreeSum, FreeLock, FreeBlocks, slab, vars,
        callers

\* The driver opens the manager while it probes, when nobody has called yet.
LEMMA RestLends ==
  ASSUME Inv, Driver \/ PressureBegins \/ PressureEnds
  PROVE  [Abstract!Next]_Abstract!vars
  <1>1. blocks' = blocks
    BY DEF Driver, Probe, MgrInit, MgrInitFail, ProbeDone, DeviceFini,
           FiniMark, FiniBuddy, PressureBegins, PressureEnds, callers, slab
  <1>2. \/ mm_live' = mm_live
        \/ mm_live' = FALSE
        \/ mm_live' = TRUE /\ drv = "probe"
    BY DEF Driver, Probe, MgrInit, MgrInitFail, ProbeDone, DeviceFini,
           FiniMark, FiniBuddy, PressureBegins, PressureEnds, mm
  <1>3. drv = "probe" => Abstract!Lent = {}
    BY DEF Inv, QuietInv, Abstract!Lent
  <1> QED
    BY <1>1, <1>2, <1>3
    DEF Abstract!Next, Abstract!Open, Abstract!Close, Abstract!vars

\* Without recovery the VRAM manager implements Lender: its mutex, its two
\* checks of the state and the lists that go back as a whole see to it that
\* free blocks are lent, by a live allocator, in spite of failures and retries.
THEOREM Implements == ASSUME Recoverer = {} PROVE Spec => LendsBlocks
  <1>1. Init => Abstract!Init
    BY DEF Init, Abstract!Init
  <1>2. Inv /\ [Next]_vars => [Abstract!Next]_Abstract!vars
    <2>1. ASSUME UNCHANGED vars PROVE UNCHANGED Abstract!vars
      BY <2>1 DEF vars, callers, slab, mm, Abstract!vars
    <2> QED BY <2>1, CallerLends, RestLends DEF Next
  <1> QED
    BY <1>1, <1>2, InvInvariant, PTL DEF Spec, LendsBlocks, Abstract!Spec
=============================================================================
