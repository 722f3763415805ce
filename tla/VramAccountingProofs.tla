------------------------- MODULE VramAccountingProofs -------------------------
(***************************************************************************)
(* Exact accounting of the VRAM manager in the histories without memory    *)
(* pressure and without recover: the counters are exact, the visible-size  *)
(* check is sufficient, and no block leaks while the device works.         *)
(***************************************************************************)
EXTENDS VramMgrProofs

PressureInv == pressure => faults > 0

\* a resource is live and belongs to one buffer object
OwnInv == Clean => \A b \in Bo :
  /\ pc[b] # "cleanup"
  /\ vres[b] # None => /\ vres[b] \in live
                       /\ \A a \in Bo \ {b} : vres[a] # vres[b]

\* the local variables of a call agree with the list of its resource
ListInv == Clean => \A b \in Bo :
  /\ pc[b] = "lock" => blocks[vres[b]] = {} /\ remaining[b] = size[b]
  /\ pc[b] = "loop" =>
       /\ Cardinality(blocks[vres[b]]) + remaining[b] = size[b]
       /\ used + size[b] <= Cardinality(Block)
  /\ pc[b] \in {"freelock", "freeing"} =>
       freed_size[b] = Cardinality(blocks[vres[b]])

\* the manager is ready exactly until the device shuts down
ReadyInv == Recoverer = {} =>
  /\ drv = "bound" \/ (drv = "probe" /\ calls > 0) => state = {"READY"}
  /\ drv \in {"fini", "finilock", "gone"} <=> DeviceShutdown

\* every block that is not free is on the list of somebody's resource
LeakInv == Clean /\ ~DeviceShutdown =>
  \A p \in Block \ mm_free :
    \E b \in Bo : vres[b] # None /\ p \in blocks[vres[b]]

AccInv == /\ Inv /\ PressureInv /\ OwnInv /\ ListInv /\ ReadyInv /\ LeakInv
          /\ AccountingExact

-----------------------------------------------------------------------------
(* Counting blocks *)

LEMMA CountFree ==
  ASSUME TypeInv
  PROVE  /\ Cardinality(mm_free) = Cardinality(Block) - Cardinality(Allocated)
         /\ Cardinality(mm_free) \in Nat /\ Cardinality(Allocated) \in Nat
  <1>1. mm_free \in SUBSET Block /\ Block \cap mm_free = mm_free
    BY DEF TypeInv, TypeOK
  <1>2. Cardinality(Allocated) = Cardinality(Block) - Cardinality(mm_free)
    BY <1>1, FS_Difference, BlockAssumption DEF Allocated
  <1>3. Cardinality(mm_free) \in 0 .. Cardinality(Block)
    BY <1>1, ListSize
  <1> QED BY <1>2, <1>3, BlockCount

LEMMA CountTake ==
  ASSUME NEW F \in SUBSET Block, NEW p \in F
  PROVE  Cardinality(Block \ (F \ {p})) = Cardinality(Block \ F) + 1
  <1>1. Block \ (F \ {p}) = (Block \ F) \cup {p} /\ p \notin Block \ F
    OBVIOUS
  <1>2. IsFiniteSet(Block \ F)
    BY ListSize
  <1> QED BY <1>1, <1>2, FS_AddElement

LEMMA CountReturn ==
  ASSUME NEW F \in SUBSET Block, NEW L \in SUBSET Block, L \cap F = {}
  PROVE  /\ Cardinality(Block \ (F \cup L))
              = Cardinality(Block \ F) - Cardinality(L)
         /\ Cardinality(L) <= Cardinality(Block \ F)
  <1>1. Block \ (F \cup L) = (Block \ F) \ L /\ (Block \ F) \cap L = L
    OBVIOUS
  <1>2. IsFiniteSet(Block \ F) /\ L \in SUBSET (Block \ F)
    BY ListSize
  <1>3. Cardinality((Block \ F) \ L)
          = Cardinality(Block \ F) - Cardinality((Block \ F) \cap L)
    BY <1>2, FS_Difference
  <1>4. Cardinality(L) <= Cardinality(Block \ F)
    BY <1>2, FS_Subset
  <1> QED BY <1>1, <1>3, <1>4

-----------------------------------------------------------------------------
(* A free block for every block still missing *)

LEMMA Exhaustion == AccInv => NeverExhausted
  <1> SUFFICES ASSUME AccInv, Clean, NEW b \in Bo, pc[b] = "loop"
               PROVE  remaining[b] <= Cardinality(mm_free)
    BY DEF NeverExhausted
  <1>1. TypeInv /\ lock = b /\ vres[b] \in Vres /\ b # None
    BY CallerAssumption
    DEF AccInv, Inv, LockInv, TypeInv, CallerShape, HasResource
  <1>2. used = Cardinality(Allocated) - Cardinality(blocks[vres[b]])
    BY <1>1 DEF AccInv, AccountingExact, InFlight
  <1>3. /\ Cardinality(blocks[vres[b]]) + remaining[b] = size[b]
        /\ used + size[b] <= Cardinality(Block)
    BY DEF AccInv, ListInv
  <1>4. /\ Cardinality(blocks[vres[b]]) \in Nat /\ remaining[b] \in Nat
        /\ used \in Nat /\ size[b] \in Nat
    BY <1>1, ListSize, RequestSize DEF TypeInv, TypeOK
  <1> QED BY <1>1, <1>2, <1>3, <1>4, CountFree, BlockCount

LEMMA Leak == AccInv => NoLeak
  <1> SUFFICES ASSUME AccInv, Clean, ~DeviceShutdown
               PROVE  Allocated =
                 UNION {blocks[vres[b]] : b \in {c \in Bo : vres[c] # None}}
    BY DEF NoLeak
  <1>1. \A p \in Allocated :
          \E b \in {c \in Bo : vres[c] # None} : p \in blocks[vres[b]]
    BY DEF AccInv, LeakInv, Allocated
  <1>2. \A b \in {c \in Bo : vres[c] # None} : blocks[vres[b]] \subseteq Allocated
    BY DEF AccInv, Inv, TypeInv, TypeOK, LendInv, BlocksLentOnce, Clean,
           Allocated
  <1> QED BY <1>1, <1>2

-----------------------------------------------------------------------------
(* Steps of a caller *)

\* Under Clean the allocation cannot fail: BuddyFails needs pressure or an
\* empty allocator.
LEMMA NoFailure ==
  ASSUME AccInv, Clean, NEW b \in Bo, pc[b] = "loop", remaining[b] > 0
  PROVE  ~BuddyFails
  <1>1. remaining[b] <= Cardinality(mm_free) /\ remaining[b] \in Nat
    BY Exhaustion DEF NeverExhausted, AccInv, Inv, TypeInv, TypeOK
  <1>2. mm_free # {}
    BY <1>1, FS_EmptySet
  <1>3. ~pressure
    BY DEF AccInv, PressureInv, Clean
  <1> QED BY <1>2, <1>3 DEF BuddyFails

\* No step of a caller writes what belongs to the driver or the environment.
LEMMA OutsideCaller ==
  ASSUME NEW b \in Bo, Caller(b)
  PROVE  UNCHANGED outside
  BY DEF Caller, AllocStep, FreeStep, LockStep, AllocBegin, AllocReject,
         AllocPrepare, AllocGiveUp, AllocLock, AllocBlock, AllocSpin,
         AllocFail, AllocCleanup, AllocCommit, FreeBegin, FreeSum, FreeLock,
         FreeBlocks, vars

\* A resource becomes somebody's in AllocPrepare, which takes a structure
\* nobody has, and is freed only by the caller whose it is.
LEMMA OwnCaller ==
  ASSUME AccInv, NEW b \in Bo, Caller(b), Clean
  PROVE  OwnInv'
  <1>0. ~AllocFail(b)
    BY NoFailure DEF AllocFail
  <1>1. /\ live \subseteq Vres /\ vres \in [Bo -> Vres \cup {None}]
        /\ pc \in [Bo -> {"idle", "checked"} \cup HasResource] /\ None \notin Vres
        /\ \A a \in Bo : pc[a] \in {"idle", "checked"} => vres[a] = None
    BY CallerAssumption
    DEF AccInv, Inv, TypeInv, TypeOK, CallerShape, HasResource
  <1>2. \A a \in Bo :
          /\ pc[a] # "cleanup"
          /\ vres[a] # None => /\ vres[a] \in live
                               /\ \A c \in Bo \ {a} : vres[c] # vres[a]
    BY DEF AccInv, OwnInv
  <1> USE DEF OwnInv, Return, Goto, slab, locals, callers
  <1>3. CASE UNCHANGED <<pc, vres, live>>
    BY <1>2, <1>3
  <1>4. CASE Return(b) /\ UNCHANGED live
    BY <1>1, <1>2, <1>4
  <1>5. CASE Return(b) /\ live' = live \ {vres[b]}
    BY <1>1, <1>2, <1>5
  <1>6. CASE /\ UNCHANGED <<vres, live>>
             /\ \E l \in {"checked", "loop", "held", "freecheck", "freelock",
                          "freeing"} : Goto(b, l)
    BY <1>1, <1>2, <1>6
  <1>7. CASE AllocPrepare(b)
    BY <1>1, <1>2, <1>7 DEF AllocPrepare
  <1> QED
    BY <1>0, <1>2, <1>3, <1>4, <1>5, <1>6, <1>7
    DEF Caller, AllocStep, FreeStep, LockStep, AllocBegin, AllocReject,
        AllocGiveUp, AllocLock, AllocBlock, AllocSpin, AllocCleanup,
        AllocCommit, FreeBegin, FreeSum, FreeLock, FreeBlocks, vars

\* The steps that touch the counters or the allocator, one lemma each.

LEMMA LockStepAcc ==
  ASSUME AccInv, NEW b \in Bo, AllocLock(b), Clean
  PROVE  ListInv' /\ AccountingExact' /\ LeakInv'
  <1>1. /\ lock = None /\ lock' = b /\ b # None /\ is_ready /\ VisibleFits(b)
        /\ pc[b] = "lock" /\ pc' = [pc EXCEPT ![b] = "loop"]
        /\ UNCHANGED <<used, vis_usage, mm_free, blocks, vres, size, remaining,
                       freed_size, device_state>>
    BY CallerAssumption
    DEF AllocLock, Goto, outside, deviceVars, counters, mm, slab, locals
  <1>2. /\ vres[b] \in Vres /\ blocks[vres[b]] = {} /\ remaining[b] = size[b]
        /\ pc \in [Bo -> {"idle", "checked"} \cup HasResource]
    BY <1>1
    DEF AccInv, Inv, TypeInv, TypeOK, CallerShape, HasResource, ListInv
  <1>3. /\ used \in Nat /\ size[b] \in Nat /\ used <= Cardinality(Block)
        /\ vis_usage = used /\ used = Cardinality(Allocated)
    <2>1. InFlight = {} /\ Cardinality({}) = 0
      BY <1>1, FS_EmptySet DEF InFlight
    <2>2. vis_usage = used /\ used = Cardinality(Allocated) - 0
      BY <2>1 DEF AccInv, AccountingExact
    <2> QED
      BY <2>2, CountFree, BlockCount, RequestSize
      DEF AccInv, Inv, TypeInv, TypeOK
  <1>4. used + size[b] <= Cardinality(Block)
    <2>0. size[b] \in Size \cup {0}
      BY DEF AccInv, Inv, TypeInv, TypeOK
    <2>1. size[b] + Cardinality(Block) < U64
      <3>1. CASE size[b] \in Size
        BY <3>1, SizeAssumption
      <3>2. CASE size[b] = 0
        BY <3>2, SizeAssumption, BlockCount
      <3> QED BY <2>0, <3>1, <3>2
    <2>2. Add64(used, size[b]) <= Cardinality(Block)
      BY <1>1, <1>3 DEF VisibleFits, VramSize
    <2>3. used + size[b] < U64
      BY <1>3, <2>1, BlockCount, SizeAssumption
    <2> QED BY <2>2, <2>3 DEF Add64
  <1>5. InFlight' = {} /\ Allocated' = Allocated /\ Cardinality({}) = 0
    BY <1>1, <1>2, FS_EmptySet DEF InFlight, Allocated
  <1>6. AccountingExact'
    BY <1>1, <1>3, <1>5, CountFree
    DEF AccountingExact, AccInv, Inv
  <1>7. LeakInv'
    BY <1>1, Zenon DEF AccInv, LeakInv, Clean, DeviceShutdown
  <1>8. ListInv'
    <2>1. /\ Cardinality(blocks'[vres'[b]]) + remaining'[b] = size'[b]
          /\ used' + size'[b] <= Cardinality(Block)
      BY <1>1, <1>2, <1>3, <1>4, <1>5
    <2>2. pc'[b] = "loop" /\ \A a \in Bo \ {b} : pc'[a] = pc[a]
      BY <1>1, <1>2
    <2> QED
      BY <1>1, <2>1, <2>2 DEF AccInv, ListInv
  <1> QED BY <1>6, <1>7, <1>8

LEMMA BlockStepAcc ==
  ASSUME AccInv, NEW b \in Bo, AllocBlock(b), Clean
  PROVE  ListInv' /\ AccountingExact' /\ LeakInv'
  <1>1. PICK p \in mm_free :
          /\ mm_free' = mm_free \ {p}
          /\ blocks' = [blocks EXCEPT ![vres[b]] = @ \cup {p}]
    BY DEF AllocBlock
  <1>2. /\ pc[b] = "loop" /\ remaining[b] > 0
        /\ remaining' = [remaining EXCEPT ![b] = @ - 1]
        /\ UNCHANGED <<lock, used, vis_usage, pc, vres, size, freed_size,
                       device_state>>
    BY DEF AllocBlock, outside, deviceVars, counters
  <1>3. /\ lock = b /\ b # None /\ vres[b] \in Vres
        /\ \A a \in Bo \ {b} : pc[a] # "loop" /\ pc[a] # "freeing"
    BY <1>2, CallerAssumption
    DEF AccInv, Inv, TypeInv, CallerShape, HasResource, LockInv
  <1>4. /\ mm_free \in SUBSET Block /\ blocks \in [Vres -> SUBSET Block]
        /\ remaining \in [Bo -> Nat] /\ size[b] \in Nat
    BY RequestSize DEF AccInv, Inv, TypeInv, TypeOK
  <1>5. /\ p \notin blocks[vres[b]] /\ IsFiniteSet(blocks[vres[b]])
        /\ Cardinality(blocks[vres[b]]) \in Nat
    BY <1>3, <1>4, ListSize DEF AccInv, Inv, LendInv, BlocksLentOnce, Clean
  <1>6. /\ blocks'[vres[b]] = blocks[vres[b]] \cup {p}
        /\ Cardinality(blocks'[vres[b]]) = Cardinality(blocks[vres[b]]) + 1
    BY <1>1, <1>3, <1>4, <1>5, FS_AddElement
  <1>7. \A a \in Bo \ {b} : vres[a] # vres[b]
    BY <1>3, CallerAssumption DEF AccInv, OwnInv
  <1>8. AccountingExact'
    <2>1. InFlight = blocks[vres[b]] /\ InFlight' = blocks'[vres[b]]
      BY <1>2, <1>3 DEF InFlight
    <2>2. Cardinality(Allocated') = Cardinality(Allocated) + 1
      BY <1>1, <1>4, CountTake DEF Allocated
    <2>3. /\ used = Cardinality(Allocated) - Cardinality(InFlight)
          /\ vis_usage = used /\ Cardinality(Allocated) \in Nat
      BY CountFree DEF AccInv, Inv, AccountingExact
    <2> QED
      BY <1>2, <1>5, <1>6, <2>1, <2>2, <2>3 DEF AccountingExact
  <1>9. LeakInv'
    BY <1>1, <1>2, <1>3, <1>4, <1>6, <1>7, CallerAssumption
    DEF AccInv, LeakInv, Clean, DeviceShutdown, Inv, TypeInv, TypeOK
  <1>10. ListInv'
    <2>1. /\ Cardinality(blocks'[vres[b]]) + remaining'[b] = size'[b]
          /\ used' + size'[b] <= Cardinality(Block)
      BY <1>2, <1>4, <1>5, <1>6 DEF AccInv, ListInv
    <2>2. ASSUME NEW a \in Bo \ {b}, vres[a] \in Vres
          PROVE  blocks'[vres[a]] = blocks[vres[a]]
      BY <1>1, <1>4, <1>7, <2>2
    <2>3. \A a \in Bo : pc[a] \in HasResource => vres[a] \in Vres
      BY DEF AccInv, Inv, TypeInv, CallerShape
    <2> QED
      BY <1>2, <1>3, <1>4, <2>1, <2>2, <2>3
      DEF AccInv, ListInv, HasResource
  <1> QED BY <1>8, <1>9, <1>10

LEMMA CommitStepAcc ==
  ASSUME AccInv, NEW b \in Bo, AllocCommit(b), Clean
  PROVE  ListInv' /\ AccountingExact' /\ LeakInv'
  <1>1. /\ pc[b] = "loop" /\ remaining[b] = 0 /\ lock' = None
        /\ used' = Add64(used, size[b]) /\ vis_usage' = Add64(vis_usage, size[b])
        /\ UNCHANGED <<mm_free, blocks, device_state>>
        /\ \/ /\ blocks[vres[b]] = {} /\ pc' = [pc EXCEPT ![b] = "idle"]
              /\ \A a \in Bo \ {b} :
                   /\ vres'[a] = vres[a] /\ remaining'[a] = remaining[a]
                   /\ size'[a] = size[a] /\ freed_size'[a] = freed_size[a]
           \/ /\ pc' = [pc EXCEPT ![b] = "held"]
              /\ UNCHANGED <<vres, remaining, size, freed_size>>
    BY DEF AllocCommit, Count, Unlock, Return, Goto, outside, deviceVars, mm,
           locals, AccInv, Inv, TypeInv, TypeOK
  <1>2. /\ lock = b /\ b # None /\ vres[b] \in Vres
        /\ \A a \in Bo \ {b} : pc[a] # "loop"
        /\ pc \in [Bo -> {"idle", "checked"} \cup HasResource]
    BY <1>1, CallerAssumption
    DEF AccInv, Inv, TypeInv, TypeOK, CallerShape, HasResource, LockInv
  <1>3. /\ used = Cardinality(Allocated) - Cardinality(blocks[vres[b]])
        /\ vis_usage = used
    BY <1>1, <1>2 DEF AccInv, AccountingExact, InFlight
  <1>4. /\ Cardinality(blocks[vres[b]]) + remaining[b] = size[b]
        /\ used + size[b] <= Cardinality(Block)
    BY <1>1 DEF AccInv, ListInv
  <1>5. /\ used \in Nat /\ size[b] \in Nat
        /\ Cardinality(blocks[vres[b]]) \in Nat
    BY <1>2, ListSize, RequestSize DEF AccInv, Inv, TypeInv, TypeOK
  <1>6. AccountingExact'
    <2>1. InFlight' = {} /\ Allocated' = Allocated /\ Cardinality({}) = 0
      BY <1>1, FS_EmptySet DEF InFlight, Allocated
    <2>2. used' = used + size[b] /\ vis_usage' = used'
      BY <1>1, <1>3, <1>4, <1>5, BlockCount, SizeAssumption DEF Add64
    <2>3. used' = Cardinality(Allocated)
      BY <1>1, <1>3, <1>4, <1>5, <2>2, CountFree DEF AccInv, Inv
    <2> QED
      BY <2>1, <2>2, <2>3, CountFree DEF AccountingExact, AccInv, Inv
  <1>7. LeakInv'
    BY <1>1, <1>2 DEF AccInv, LeakInv, Clean, DeviceShutdown
  <1>8. ListInv'
    <2>1. pc'[b] \in {"idle", "held"}
      BY <1>1, <1>2
    <2>2. ASSUME NEW a \in Bo \ {b}
          PROVE  /\ pc'[a] = pc[a] /\ vres'[a] = vres[a] /\ size'[a] = size[a]
                 /\ remaining'[a] = remaining[a] /\ freed_size'[a] = freed_size[a]
      BY <1>1, <1>2
    <2> QED
      BY <1>1, <1>2, <2>1, <2>2 DEF AccInv, ListInv
  <1> QED BY <1>6, <1>7, <1>8

LEMMA FreeStepAcc ==
  ASSUME AccInv, NEW b \in Bo, FreeBlocks(b), Clean
  PROVE  ListInv' /\ AccountingExact' /\ LeakInv'
  <1>1. /\ pc[b] = "freeing" /\ lock' = None
        /\ used' = Sub64(used, freed_size[b])
        /\ vis_usage' = Sub64(vis_usage, freed_size[b])
        /\ mm_free' = mm_free \cup blocks[vres[b]]
        /\ blocks' = [blocks EXCEPT ![vres[b]] = {}]
        /\ pc' = [pc EXCEPT ![b] = "idle"]
        /\ UNCHANGED device_state
        /\ \A a \in Bo \ {b} :
             /\ vres'[a] = vres[a] /\ remaining'[a] = remaining[a]
             /\ size'[a] = size[a] /\ freed_size'[a] = freed_size[a]
    BY DEF FreeBlocks, FreeList, Uncount, Unlock, Return, Goto, outside,
           deviceVars, AccInv, Inv, TypeInv, TypeOK
  <1>2. /\ lock = b /\ b # None /\ vres[b] \in Vres
        /\ \A a \in Bo \ {b} : pc[a] # "loop"
        /\ \A a \in Bo : pc[a] \in HasResource => vres[a] \in Vres
        /\ pc \in [Bo -> {"idle", "checked"} \cup HasResource]
        /\ None \notin Vres /\ blocks \in [Vres -> SUBSET Block]
        /\ mm_free \in SUBSET Block
    BY <1>1, CallerAssumption
    DEF AccInv, Inv, TypeInv, TypeOK, CallerShape, HasResource, LockInv
  <1>3. ASSUME NEW a \in Bo \ {b}, vres[a] \in Vres
        PROVE  blocks'[vres[a]] = blocks[vres[a]]
    BY <1>1, <1>2, <1>3 DEF AccInv, OwnInv
  <1>4. AccountingExact'
    <2>1. /\ InFlight = {} /\ InFlight' = {} /\ Cardinality({}) = 0
      BY <1>1, <1>2, FS_EmptySet DEF InFlight
    <2>2. /\ used = Cardinality(Allocated) - 0 /\ vis_usage = used
      BY <2>1 DEF AccInv, AccountingExact
    <2>3. freed_size[b] = Cardinality(blocks[vres[b]])
      BY <1>1 DEF AccInv, ListInv
    <2>4. blocks[vres[b]] \in SUBSET Block /\ blocks[vres[b]] \cap mm_free = {}
      BY <1>2 DEF AccInv, Inv, LendInv, BlocksLentOnce, Clean
    <2>5. /\ Cardinality(Allocated')
               = Cardinality(Allocated) - Cardinality(blocks[vres[b]])
          /\ Cardinality(blocks[vres[b]]) <= Cardinality(Allocated)
      BY <1>1, <1>2, <2>4, CountReturn DEF Allocated
    <2>6. /\ Cardinality(Allocated) \in Nat
          /\ Cardinality(blocks[vres[b]]) \in Nat
      BY <2>4, CountFree, ListSize DEF AccInv, Inv
    <2>7. used' = used - Cardinality(blocks[vres[b]]) /\ vis_usage' = used'
      BY <1>1, <2>2, <2>3, <2>5, <2>6 DEF Sub64
    <2> QED
      BY <2>1, <2>2, <2>5, <2>6, <2>7 DEF AccountingExact
  <1>5. LeakInv'
    <2> SUFFICES ASSUME ~DeviceShutdown, NEW p \in Block \ mm_free'
                 PROVE  \E a \in Bo : vres'[a] # None /\ p \in blocks'[vres'[a]]
      BY <1>1 DEF LeakInv, DeviceShutdown
    <2>1. PICK a \in Bo : vres[a] # None /\ p \in blocks[vres[a]]
      BY <1>1 DEF AccInv, LeakInv
    <2>2. a # b /\ vres[a] \in Vres
      BY <1>1, <2>1 DEF AccInv, Inv, TypeInv, TypeOK
    <2> QED BY <1>1, <1>3, <2>1, <2>2
  <1>6. ListInv'
    <2>1. pc'[b] = "idle" /\ \A a \in Bo \ {b} : pc'[a] = pc[a]
      BY <1>1, <1>2
    <2> QED
      BY <1>1, <1>2, <1>3, <2>1 DEF AccInv, ListInv, HasResource
  <1> QED BY <1>4, <1>5, <1>6

\* While the device works, a caller inside a call finds the manager ready.
LEMMA WorkingReady ==
  ASSUME AccInv, Clean, ~DeviceShutdown, NEW b \in Bo, pc[b] # "idle"
  PROVE  is_ready
  <1>1. drv = "bound"
    BY DEF AccInv, Inv, TypeInv, TypeOK, QuietInv, ReadyInv, Clean
  <1> QED BY <1>1 DEF AccInv, ReadyInv, Clean, is_ready

\* The steps that leave the counters and the allocator as they are.
LEMMA QuietStepAcc ==
  ASSUME AccInv, NEW b \in Bo, Caller(b), Clean,
         ~AllocLock(b), ~AllocBlock(b), ~AllocCommit(b), ~FreeBlocks(b),
         ~AllocSpin(b)
  PROVE  ListInv' /\ AccountingExact' /\ LeakInv'
  <1>0. ~AllocFail(b) /\ ~AllocCleanup(b)
    BY NoFailure DEF AllocFail, AllocCleanup, AccInv, OwnInv
  <1>1. /\ UNCHANGED <<used, vis_usage, mm_free, device_state>>
        /\ pc[b] \notin {"loop", "freeing"} /\ pc'[b] # "loop"
        /\ lock' = lock \/ (lock = None /\ lock' = b)
        /\ \A a \in Bo \ {b} :
             /\ pc'[a] = pc[a] /\ vres'[a] = vres[a]
             /\ remaining'[a] = remaining[a] /\ size'[a] = size[a]
             /\ freed_size'[a] = freed_size[a]
    BY <1>0
    DEF Caller, AllocStep, FreeStep, LockStep, AllocBegin, AllocReject,
        AllocPrepare, AllocGiveUp, FreeBegin, FreeSum, FreeLock, Return, Goto,
        outside, deviceVars, counters, mm, slab, locals, AccInv, Inv, TypeInv,
        TypeOK
  <1>2. /\ \A a \in Bo : pc[a] \in HasResource => vres[a] \in Vres
        /\ None \notin Vres /\ blocks \in [Vres -> SUBSET Block]
        /\ vres \in [Bo -> Vres \cup {None}]
        /\ \A a \in Bo : vres[a] # None => vres[a] \in live
    BY CallerAssumption DEF AccInv, OwnInv, Inv, TypeInv, TypeOK, CallerShape
  <1>3. \/ UNCHANGED blocks
        \/ \E v \in Vres \ live : blocks' = [blocks EXCEPT ![v] = {}]
    BY <1>0
    DEF Caller, AllocStep, FreeStep, LockStep, AllocBegin, AllocReject,
        AllocPrepare, AllocGiveUp, FreeBegin, FreeSum, FreeLock, slab
  <1>4. \A a \in Bo : vres[a] # None => blocks'[vres[a]] = blocks[vres[a]]
    BY <1>2, <1>3
  <1>5. AccountingExact'
    <2>1. InFlight' = InFlight
      BY <1>1, <1>2, <1>4, CallerAssumption
      DEF InFlight, AccInv, Inv, TypeInv, TypeOK, HasResource
    <2> QED
      BY <1>1, <2>1 DEF AccountingExact, AccInv, Allocated
  <1>6. LeakInv'
    <2> SUFFICES ASSUME ~DeviceShutdown, NEW p \in Block \ mm_free
                 PROVE  \E a \in Bo : vres'[a] # None /\ p \in blocks'[vres'[a]]
      BY <1>1 DEF LeakInv, DeviceShutdown
    <2>1. PICK a \in Bo : vres[a] # None /\ p \in blocks[vres[a]]
      BY DEF AccInv, LeakInv
    <2>2. CASE a # b
      BY <1>1, <1>4, <2>1, <2>2
    <2>3. CASE a = b
      <3>1. pc[b] # "checked" /\ pc[b] # "lock" /\ pc[b] # "idle"
        BY <2>1, <2>3
        DEF AccInv, Inv, TypeInv, TypeOK, CallerShape, HasResource, ListInv
      <3>2. is_ready
        BY <3>1, WorkingReady
      <3>3. vres'[b] = vres[b]
        BY <1>0, <3>1, <3>2
        DEF Caller, AllocStep, FreeStep, LockStep, AllocBegin, AllocReject,
            AllocPrepare, AllocGiveUp, FreeBegin, FreeSum, FreeLock, locals
      <3> QED BY <1>4, <2>1, <2>3, <3>3
    <2> QED BY <2>2, <2>3
  <1>7. ListInv'
    <2>1. /\ pc'[b] = "lock" => blocks'[vres'[b]] = {} /\ remaining'[b] = size'[b]
          /\ pc'[b] \in {"freelock", "freeing"} =>
               freed_size'[b] = Cardinality(blocks'[vres'[b]])
      <3> USE DEF Return, Goto, slab, locals, AccInv, Inv, TypeInv, TypeOK
      <3>1. CASE AllocBegin(b) \/ AllocReject(b) \/ AllocGiveUp(b) \/ FreeBegin(b)
        BY <3>1 DEF AllocBegin, AllocReject, AllocGiveUp, FreeBegin
      <3>2. CASE AllocPrepare(b)
        BY <3>2 DEF AllocPrepare
      <3>3. CASE FreeSum(b)
        BY <3>3 DEF FreeSum
      <3>4. CASE FreeLock(b)
        BY <3>4 DEF FreeLock, ListInv
      <3> QED
        BY <1>0, <3>1, <3>2, <3>3, <3>4 DEF Caller, AllocStep, FreeStep, LockStep
    <2>2. ASSUME NEW a \in Bo \ {b}, pc[a] \in HasResource
          PROVE  blocks'[vres'[a]] = blocks[vres[a]]
      BY <1>1, <1>2, <1>4, <2>2
    <2> QED
      BY <1>1, <1>2, <2>1, <2>2 DEF AccInv, ListInv, HasResource
  <1> QED BY <1>5, <1>6, <1>7

\* AccInv without its first part, which Inv' covers.
Acc == PressureInv /\ OwnInv /\ ListInv /\ ReadyInv /\ LeakInv /\ AccountingExact

LEMMA StutterAcc == AccInv /\ UNCHANGED vars => Acc'
  BY DEF AccInv, Acc, PressureInv, OwnInv, ListInv, ReadyInv, LeakInv,
         AccountingExact, Clean, Allocated, InFlight, DeviceShutdown, vars,
         outside, callers, deviceVars, counters, mm, slab, locals, env

LEMMA CallerAcc ==
  ASSUME AccInv, NEW b \in Bo, Caller(b)
  PROVE  Acc'
  <1>1. PressureInv' /\ ReadyInv' /\ (Clean' <=> Clean)
    BY OutsideCaller
    DEF outside, deviceVars, env, AccInv, PressureInv, ReadyInv, Clean,
        DeviceShutdown
  <1>2. CASE ~Clean
    BY <1>1, <1>2 DEF Acc, OwnInv, ListInv, LeakInv, AccountingExact
  <1>3. CASE AllocSpin(b)
    BY <1>3, StutterAcc DEF AllocSpin
  <1>4. CASE Clean /\ ~AllocSpin(b)
    <2>1. ListInv' /\ AccountingExact' /\ LeakInv'
      BY <1>4, LockStepAcc, BlockStepAcc, CommitStepAcc, FreeStepAcc,
         QuietStepAcc
    <2> QED BY <1>1, <1>4, <2>1, OwnCaller DEF Acc
  <1> QED BY <1>2, <1>3, <1>4

-----------------------------------------------------------------------------
(* The other steps *)

LEMMA RecoverAcc ==
  ASSUME AccInv, NEW r \in Recoverer, Recover(r)
  PROVE  Acc'
  <1>1. Recoverer # {} /\ UNCHANGED env
    BY DEF Recover, RecoverBegin, RecoverBuddy, RecoverReset, RecoverReady
  <1> QED
    BY <1>1 DEF AccInv, Acc, PressureInv, OwnInv, ListInv, ReadyInv, LeakInv,
                AccountingExact, Clean, env

LEMMA PressureAcc ==
  ASSUME AccInv, PressureBegins \/ PressureEnds
  PROVE  Acc'
  <1>1. CASE PressureBegins
    <2>1. pressure' /\ faults' > 0
      BY <1>1 DEF PressureBegins, AccInv, Inv, TypeInv, TypeOK
    <2>2. ReadyInv'
      BY <1>1 DEF PressureBegins, deviceVars, AccInv, ReadyInv, DeviceShutdown
    <2>3. ~Clean'
      BY <2>1 DEF Clean
    <2> QED
      BY <2>1, <2>2, <2>3
      DEF Acc, PressureInv, OwnInv, ListInv, LeakInv, AccountingExact
  <1>2. CASE PressureEnds
    BY <1>2
    DEF PressureEnds, callers, deviceVars, counters, mm, slab, locals, AccInv,
        Acc, PressureInv, OwnInv, ListInv, ReadyInv, LeakInv, AccountingExact,
        Clean, Allocated, InFlight, DeviceShutdown
  <1> QED BY <1>1, <1>2

LEMMA DriverAcc ==
  ASSUME AccInv, Driver
  PROVE  Acc'
  <1>1. /\ UNCHANGED <<callers, rpc, env>> /\ PressureInv' /\ (Clean' <=> Clean)
    BY DEF Driver, Probe, MgrInit, MgrInitFail, ProbeDone, DeviceFini,
           FiniMark, FiniBuddy, AccInv, PressureInv, env, Clean
  <1>2. OwnInv'
    BY <1>1 DEF callers, slab, locals, AccInv, OwnInv
  <1>3. ReadyInv'
    BY DEF Driver, Probe, MgrInit, MgrInitFail, ProbeDone, DeviceFini,
           FiniMark, FiniBuddy, AccInv, Inv, TypeInv, TypeOK, ReadyInv,
           DeviceShutdown, MGR_CALLS
  <1>4. CASE MgrInit
    <2>1. /\ \A b \in Bo : pc[b] = "idle" /\ pc'[b] = "idle"
          /\ lock' = lock /\ lock \in Bo \cup {None}
          /\ used' = 0 /\ vis_usage' = 0 /\ mm_free' = Block
      BY <1>1, <1>4
      DEF MgrInit, AccInv, Inv, TypeInv, TypeOK, QuietInv, callers
    <2>2. InFlight' = {} /\ Allocated' = {} /\ Cardinality({}) = 0
      BY <2>1, FS_EmptySet DEF InFlight, Allocated
    <2>3. ListInv' /\ LeakInv' /\ AccountingExact'
      BY <2>1, <2>2 DEF ListInv, LeakInv, AccountingExact
    <2> QED BY <1>1, <1>2, <1>3, <2>3 DEF Acc
  <1>5. CASE ~MgrInit
    <2>1. UNCHANGED <<lock, used, vis_usage, mm_free>>
      BY <1>5 DEF Driver, Probe, MgrInitFail, ProbeDone, DeviceFini, FiniMark,
                  FiniBuddy, counters, mm
    <2>2. ListInv' /\ AccountingExact'
      BY <1>1, <2>1
      DEF callers, slab, locals, AccInv, ListInv, AccountingExact, Clean,
          Allocated, InFlight
    <2>3. ~DeviceShutdown' /\ Clean => ~DeviceShutdown
      BY <1>5
      DEF Driver, Probe, MgrInitFail, ProbeDone, DeviceFini, FiniMark,
          FiniBuddy, AccInv, ReadyInv, Clean, DeviceShutdown
    <2>4. LeakInv'
      BY <1>1, <2>1, <2>3 DEF callers, slab, locals, AccInv, LeakInv
    <2> QED BY <1>1, <1>2, <1>3, <2>2, <2>4 DEF Acc
  <1> QED BY <1>4, <1>5

LEMMA InitAcc == Init => Acc
  <1> SUFFICES ASSUME Init PROVE Acc
    OBVIOUS
  <1>1. InFlight = {} /\ Allocated = {} /\ Cardinality({}) = 0
    BY FS_EmptySet DEF Init, InFlight, Allocated
  <1> QED
    BY <1>1
    DEF Init, Acc, PressureInv, OwnInv, ListInv, ReadyInv, LeakInv,
        AccountingExact, DeviceShutdown

LEMMA AccInvariant == Spec => []AccInv
  <1>1. AccInv <=> Inv /\ Acc
    BY DEF AccInv, Acc
  <1>2. Inv /\ Acc /\ [Next]_vars => Acc'
    BY <1>1, CallerAcc, RecoverAcc, PressureAcc, DriverAcc, StutterAcc DEF Next
  <1>3. Init => Acc
    BY InitAcc
  <1>4. Spec => []Inv
    BY InvInvariant
  <1> QED BY <1>1, <1>2, <1>3, <1>4, PTL DEF Spec

-----------------------------------------------------------------------------
\* Without pressure and recover the counter is the number of blocks handed
\* out, however allocations, frees and the removal of the device interleave.
THEOREM Accounting == Spec => []AccountingExact
  <1>1. AccInv => AccountingExact
    BY DEF AccInv
  <1> QED BY <1>1, AccInvariant, PTL

\* Without pressure and recover, an allocation past the visible-size check
\* finds every block it still needs: it cannot fail, retry or spin.
THEOREM CheckSuffices == Spec => []NeverExhausted
  BY Exhaustion, AccInvariant, PTL

\* Without pressure and recover, no block leaks until the device shuts down.
THEOREM LeakFree == Spec => []NoLeak
  BY Leak, AccInvariant, PTL

-----------------------------------------------------------------------------
(* The memory statistics *)

\* The statistics and the counter change together; both are zero while the
\* device is probed.
StatsInv ==
  /\ StatsAgree
  /\ drv \in {"unbound", "probe"} => stats_used = 0 /\ used = 0

LEMMA StatsCaller ==
  ASSUME Inv, StatsInv, NEW b \in Bo, Caller(b)
  PROVE  StatsInv'
  <1>1. drv \notin {"unbound", "probe"} \/ UNCHANGED <<stats_used, used>>
    BY DEF Inv, QuietInv, Caller, AllocStep, FreeStep, LockStep, AllocBegin,
       AllocReject, AllocPrepare, AllocGiveUp, AllocLock, AllocBlock,
       AllocSpin, AllocFail, AllocCleanup, AllocCommit, FreeBegin, FreeSum,
       FreeLock, FreeBlocks, vars, callers, counters
  <1>2. UNCHANGED <<drv, device_state>>
    BY DEF Caller, AllocStep, FreeStep, LockStep, AllocBegin, AllocReject,
       AllocPrepare, AllocGiveUp, AllocLock, AllocBlock, AllocSpin, AllocFail,
       AllocCleanup, AllocCommit, FreeBegin, FreeSum, FreeLock, FreeBlocks,
       vars, outside, deviceVars
  <1>3. CASE AllocCommit(b)
    BY <1>1, <1>2, <1>3
    DEF StatsInv, StatsAgree, DeviceShutdown, AllocCommit, Count, UpdateUsage
  <1>4. CASE FreeBlocks(b)
    BY <1>1, <1>2, <1>4
    DEF StatsInv, StatsAgree, DeviceShutdown, FreeBlocks, Uncount, UpdateUsage
  <1>5. CASE UNCHANGED <<stats_used, used>>
    BY <1>2, <1>5 DEF StatsInv, StatsAgree, DeviceShutdown
  <1> QED
    BY <1>3, <1>4, <1>5
    DEF Caller, AllocStep, FreeStep, LockStep, AllocBegin, AllocReject,
        AllocPrepare, AllocGiveUp, AllocLock, AllocBlock, AllocSpin, AllocFail,
        AllocCleanup, FreeBegin, FreeSum, FreeLock, vars, callers, counters

\* The memory statistics agree with the manager until the device shuts down,
\* in every history without recover, with memory pressure and without.
THEOREM StatsCorrect == Spec => []StatsAgree
  <1>1. Init => StatsInv
    BY DEF Init, StatsInv, StatsAgree
  <1>2. ASSUME Inv, StatsInv, [Next]_vars PROVE StatsInv'
    <2>1. ASSUME NEW r \in Recoverer, Recover(r) PROVE StatsInv'
      BY <1>2, <2>1
      DEF Recover, RecoverBegin, RecoverBuddy, RecoverReset, RecoverReady,
          Inv, QuietInv, StatsInv, StatsAgree, callers, deviceVars, counters
    <2>2. CASE Driver
      BY <1>2, <2>2
      DEF Driver, Probe, MgrInit, MgrInitFail, ProbeDone, DeviceFini, FiniMark,
          FiniBuddy, StatsInv, StatsAgree, DeviceShutdown, callers, counters
    <2>3. CASE PressureBegins \/ PressureEnds \/ UNCHANGED vars
      BY <1>2, <2>3
      DEF PressureBegins, PressureEnds, vars, outside, callers, deviceVars,
          counters, StatsInv, StatsAgree, DeviceShutdown
    <2> QED BY <1>2, <2>1, <2>2, <2>3, StatsCaller DEF Next
  <1>3. StatsInv => StatsAgree
    BY DEF StatsInv
  <1> QED BY <1>1, <1>2, <1>3, InvInvariant, PTL DEF Spec
=============================================================================
