------------------------ MODULE DeviceLifecycleProofs -------------------------
(***************************************************************************)
(* Theorems about DeviceLifecycle, for any number of probes.               *)
(*                                                                         *)
(* What the chain of labels has to get right is that it is a stack: Order  *)
(* lists what a probe takes, Depth says how much of it a place in the code *)
(* stands for, and SetupSteps and UnwindSteps show that every call of the  *)
(* tables moves by at most one on that list, whichever label a failure     *)
(* ends in.  StackInv then says what the driver holds.  OwnInv says that   *)
(* only a driver that holds the regions of the device gets as far as the   *)
(* structure, QuietInv where the registers and the monitor may be on.      *)
(***************************************************************************)
EXTENDS DeviceLifecycle, TLAPS

Order == <<"pci", "regions", "drm", "pddgpu", "rmmio", "mtrr", "bdev",
           "vram", "gtt", "vram", "gtt">>

Depth(l) ==
  CASE l \in {"enable", "failed"} -> 0
    [] l \in {"dma_mask", "regions", "err_disable_device"} -> 1
    [] l \in {"drm", "err_release_regions"} -> 2
    [] l \in {"kzalloc", "err_free_drm"} -> 3
    [] l \in {"init", "iomap", "err_exit", "err_free_pddgpu"} -> 4
    [] l \in {"stats", "gmc", "err_memory_stats_fini", "cancel", "wait",
              "err_unmap_mmio"} -> 5
    [] l \in {"mc_enable", "ttm", "err_gmc_fini", "mtrr_del"} -> 6
    [] l \in {"ttm_vram", "ttm_err_ttm_fini", "ttm_fini_bdev"} -> 7
    [] l \in {"ttm_gtt", "ttm_err_vram_fini", "ttm_fini_vram"} -> 8
    [] l \in {"vram", "err_ttm_fini"} -> 9
    [] l \in {"gtt", "err_vram_mgr_fini"} -> 10
    [] OTHER -> 11

\* How often a resource is among the first n of Order.
If1(p) == IF p THEN 1 ELSE 0

Taken(n, r) ==
  CASE r = "pci"     -> If1(n >= 1)
    [] r = "regions" -> If1(n >= 2)
    [] r = "drm"     -> If1(n >= 3)
    [] r = "pddgpu"  -> If1(n >= 4)
    [] r = "rmmio"   -> If1(n >= 5)
    [] r = "mtrr"    -> If1(n >= 6)
    [] r = "bdev"    -> If1(n >= 7)
    [] r = "vram"    -> If1(n >= 8) + If1(n >= 10)
    [] r = "gtt"     -> If1(n >= 9) + If1(n >= 11)

\* Places at which a driver that holds nothing has the registers off, the
\* monitor off, and its work off.
Early == {"enable", "dma_mask", "regions"}
Front == Early \cup {"drm", "kzalloc", "init", "iomap", "stats"}
Back  == {"err_unmap_mmio", "err_exit", "err_free_pddgpu", "err_free_drm",
          "err_release_regions", "err_disable_device", "failed"}

McOff      == Front \cup Back \cup {"gmc", "mc_enable", "mtrr_del",
                                    "err_memory_stats_fini", "cancel", "wait"}
MonitorOff == Front \cup Back \cup {"cancel", "wait"}
WorkOff    == Front \cup Back

\* A driver can take the regions of a device once, and holds a structure
\* exactly when it holds them.
Paired(f) == (f["regions"] = 0) <=> (f["pddgpu"] = 0)

StackInv ==
  drv # "unbound" =>
    \A r \in Resource : held[r] = before[r] + Taken(Depth(drv), r)

OwnInv ==
  /\ Paired(before)
  /\ drv = "unbound" => Paired(held)
  /\ before["regions"] > 0 => drv \in Rest \cup Early \cup {"err_disable_device"}

QuietInv ==
  /\ drv # "unbound" /\ before["pddgpu"] = 0 =>
       /\ drv \in McOff => ~mc
       /\ drv \in MonitorOff => ~monitor_enabled
       /\ drv \in WorkOff => work = "off"
       /\ drv = "wait" => work # "queued"
  /\ drv = "unbound" /\ held["pddgpu"] = 0 =>
       ~mc /\ ~monitor_enabled /\ work = "off"

Inv == TypeOK /\ StackInv /\ OwnInv /\ QuietInv

-----------------------------------------------------------------------------
(* The tables *)

Labels == Rest \cup DOMAIN Setup \cup DOMAIN Unwind
          \cup {"init", "stats", "mc_enable", "ready", "device_fini", "err_exit",
                "err_gmc_fini", "err_memory_stats_fini", "cancel", "wait"}

LEMMA DepthRange == ASSUME NEW l PROVE Depth(l) \in 0 .. 11
  BY DEF Depth

LEMMA SetupNames ==
  DOMAIN Setup = {"enable", "dma_mask", "regions", "drm", "kzalloc", "iomap", "gmc",
                  "ttm", "ttm_vram", "ttm_gtt", "vram", "gtt", "register"}
  BY DEF Setup, probe_calls, device_init_calls, gmc_init_calls, ttm_init_calls, Join

LEMMA UnwindNames ==
  DOMAIN Unwind = {"fini_gtt", "err_vram_mgr_fini", "err_ttm_fini", "ttm_fini_vram",
                   "ttm_fini_bdev", "ttm_err_vram_fini", "ttm_err_ttm_fini",
                   "mtrr_del", "err_unmap_mmio", "err_free_pddgpu", "err_free_drm",
                   "err_release_regions", "err_disable_device"}
  BY DEF Unwind, device_fini_calls, ttm_fini_calls, ttm_init_labels, gmc_fini_calls,
      probe_labels, Join

\* Every line is found where it was written.
LEMMA SetupParts ==
  ASSUME NEW l \in DOMAIN Setup
  PROVE  \/ l \in DOMAIN probe_calls /\ Setup[l] = probe_calls[l]
         \/ l \in DOMAIN device_init_calls /\ Setup[l] = device_init_calls[l]
         \/ l \in DOMAIN gmc_init_calls /\ Setup[l] = gmc_init_calls[l]
         \/ l \in DOMAIN ttm_init_calls /\ Setup[l] = ttm_init_calls[l]
  BY DEF Setup, Join

LEMMA UnwindParts ==
  ASSUME NEW l \in DOMAIN Unwind
  PROVE  \/ l \in DOMAIN device_fini_calls /\ Unwind[l] = device_fini_calls[l]
         \/ l \in DOMAIN probe_labels /\ Unwind[l] = probe_labels[l]
         \/ l \in DOMAIN ttm_fini_calls /\ Unwind[l] = ttm_fini_calls[l]
         \/ l \in DOMAIN ttm_init_labels /\ Unwind[l] = ttm_init_labels[l]
         \/ l \in DOMAIN gmc_fini_calls /\ Unwind[l] = gmc_fini_calls[l]
  BY DEF Unwind, Join

LEMMA SetupLabels ==
  ASSUME NEW l \in DOMAIN Setup
  PROVE  Setup[l].then \in Labels /\ Setup[l].fail \in Labels
  <1>1. CASE l \in DOMAIN probe_calls /\ Setup[l] = probe_calls[l]
    BY <1>1, SetupNames, UnwindNames
    DEF probe_calls, Labels, Rest, iomap_failed, gmc_init_failed, ttm_init_failed,
        vram_init_failed
  <1>2. CASE l \in DOMAIN device_init_calls /\ Setup[l] = device_init_calls[l]
    BY <1>2, SetupNames, UnwindNames
    DEF device_init_calls, Labels, Rest, iomap_failed, gmc_init_failed, ttm_init_failed,
        vram_init_failed
  <1>3. CASE l \in DOMAIN gmc_init_calls /\ Setup[l] = gmc_init_calls[l]
    BY <1>3, SetupNames, UnwindNames
    DEF gmc_init_calls, Labels, Rest, iomap_failed, gmc_init_failed, ttm_init_failed,
        vram_init_failed
  <1>4. CASE l \in DOMAIN ttm_init_calls /\ Setup[l] = ttm_init_calls[l]
    BY <1>4, SetupNames, UnwindNames
    DEF ttm_init_calls, Labels, Rest, iomap_failed, gmc_init_failed, ttm_init_failed,
        vram_init_failed
  <1> QED BY <1>1, <1>2, <1>3, <1>4, SetupParts

\* A call of the setup takes the next of Order or nothing; a failure goes where
\* nothing has to be given back that was not taken.
LEMMA SetupSteps ==
  ASSUME NEW l \in DOMAIN Setup
  PROVE  /\ \/ /\ Setup[l].takes = {}
               /\ Depth(Setup[l].then) = Depth(l)
            \/ /\ Setup[l].takes = {Order[Depth(l) + 1]}
               /\ Depth(l) \in 0 .. 10
               /\ Depth(Setup[l].then) = Depth(l) + 1
         /\ Depth(Setup[l].fail) = Depth(l)
  <1>1. CASE l \in DOMAIN probe_calls /\ Setup[l] = probe_calls[l]
    BY <1>1
    DEF probe_calls, Depth, Order, iomap_failed, gmc_init_failed, ttm_init_failed,
        vram_init_failed
  <1>2. CASE l \in DOMAIN device_init_calls /\ Setup[l] = device_init_calls[l]
    BY <1>2
    DEF device_init_calls, Depth, Order, iomap_failed, gmc_init_failed, ttm_init_failed,
        vram_init_failed
  <1>3. CASE l \in DOMAIN gmc_init_calls /\ Setup[l] = gmc_init_calls[l]
    BY <1>3
    DEF gmc_init_calls, Depth, Order, iomap_failed, gmc_init_failed, ttm_init_failed,
        vram_init_failed
  <1>4. CASE l \in DOMAIN ttm_init_calls /\ Setup[l] = ttm_init_calls[l]
    BY <1>4
    DEF ttm_init_calls, Depth, Order, iomap_failed, gmc_init_failed, ttm_init_failed,
        vram_init_failed
  <1> QED BY <1>1, <1>2, <1>3, <1>4, SetupParts

\* A call of the unwinding gives back the last one.
LEMMA UnwindSteps ==
  ASSUME NEW l \in DOMAIN Unwind
  PROVE  /\ Unwind[l].then \in Labels
         /\ Depth(l) \in 1 .. 11
         /\ Unwind[l].gives = {Order[Depth(l)]}
         /\ Depth(Unwind[l].then) = Depth(l) - 1
  <1>1. CASE l \in DOMAIN device_fini_calls /\ Unwind[l] = device_fini_calls[l]
    BY <1>1, SetupNames, UnwindNames
    DEF device_fini_calls, Depth, Order, Labels, Rest, ttm_init_failed
  <1>2. CASE l \in DOMAIN probe_labels /\ Unwind[l] = probe_labels[l]
    BY <1>2, SetupNames, UnwindNames
    DEF probe_labels, Depth, Order, Labels, Rest, ttm_init_failed
  <1>3. CASE l \in DOMAIN ttm_fini_calls /\ Unwind[l] = ttm_fini_calls[l]
    BY <1>3, SetupNames, UnwindNames
    DEF ttm_fini_calls, Depth, Order, Labels, Rest, ttm_init_failed
  <1>4. CASE l \in DOMAIN ttm_init_labels /\ Unwind[l] = ttm_init_labels[l]
    BY <1>4, SetupNames, UnwindNames
    DEF ttm_init_labels, Depth, Order, Labels, Rest, ttm_init_failed
  <1>5. CASE l \in DOMAIN gmc_fini_calls /\ Unwind[l] = gmc_fini_calls[l]
    BY <1>5, SetupNames, UnwindNames
    DEF gmc_fini_calls, Depth, Order, Labels, Rest, ttm_init_failed
  <1> QED BY <1>1, <1>2, <1>3, <1>4, <1>5, UnwindParts

LEMMA TakenStep ==
  ASSUME NEW n \in 0 .. 10
  PROVE  /\ Order[n + 1] \in Resource
         /\ \A r \in Resource :
              Taken(n + 1, r) = Taken(n, r) + If1(r = Order[n + 1])
         /\ \A r \in Resource : Taken(n, r) \in Nat /\ Taken(n + 1, r) \in Nat
  BY DEF Order, Taken, If1, Resource
LEMMA TakenType == ASSUME NEW n \in 0 .. 11, NEW r \in Resource
                   PROVE  Taken(n, r) \in Nat
  BY DEF Taken, If1, Resource

LEMMA Plus1 ==
  ASSUME held \in [Resource -> Nat], NEW R \in SUBSET Resource, Plus(R, 1)
  PROVE  /\ held' \in [Resource -> Nat]
         /\ \A r \in Resource : held'[r] = held[r] + If1(r \in R)
  BY DEF Plus, If1

LEMMA Minus1 ==
  ASSUME held \in [Resource -> Nat], NEW x \in Resource, held[x] > 0, Plus({x}, -1)
  PROVE  /\ held' \in [Resource -> Nat]
         /\ \A r \in Resource : held'[r] = held[r] - If1(r = x)
  BY DEF Plus, If1

-----------------------------------------------------------------------------
(* What the driver holds *)

LEMMA InvInit == Init => Inv
  <1> SUFFICES ASSUME Init PROVE Inv
    OBVIOUS
  <1>1. /\ held \in [Resource -> Nat] /\ before = held
        /\ held["regions"] = 0 /\ held["pddgpu"] = 0
    BY DEF Init, Resource
  <1>2. TypeOK
    <2>1. probes \in 0 .. MAX_PROBES
      BY ProbesAssumption DEF Init
    <2>2. drv \in Rest
      BY DEF Init, Rest
    <2> QED BY <1>1, <2>1, <2>2 DEF Init, TypeOK
  <1>3. StackInv /\ OwnInv /\ QuietInv
    BY <1>1 DEF Init, StackInv, OwnInv, QuietInv, Paired
  <1> QED BY <1>2, <1>3 DEF Inv

\* The steps of the driver that move neither the list nor what is held.
Still ==
  \/ DeviceInit \/ StatsInit \/ McEnable \/ Ready \/ Mark \/ McDisable
  \/ StatsFini \/ CancelBegin \/ CancelEnd

LEMMA HeldStep ==
  ASSUME Inv, Next
  PROVE  TypeOK' /\ StackInv'
  <1>1. /\ TypeOK /\ StackInv
        /\ held \in [Resource -> Nat] /\ before \in [Resource -> Nat]
        /\ probes \in 0 .. MAX_PROBES /\ drv \in Labels
    BY DEF Inv, TypeOK, Labels
  <1>2. CASE Take
    <2>1. /\ drv \in DOMAIN Setup /\ Plus(Setup[drv].takes, 1)
          /\ drv' = Setup[drv].then
          /\ UNCHANGED <<before, probes, device_state, mc, monitor_enabled, work>>
      BY <1>2 DEF Take
    <2>2. drv # "unbound"
      BY <2>1, SetupNames
    <2>3. drv' \in Labels
      BY <2>1, SetupLabels
    <2>4. CASE Setup[drv].takes = {} /\ Depth(Setup[drv].then) = Depth(drv)
      <3>1. held' \in [Resource -> Nat] /\ \A r \in Resource : held'[r] = held[r]
        BY <1>1, <2>1, <2>4, Plus1 DEF If1
      <3> QED BY <1>1, <2>1, <2>2, <2>3, <2>4, <3>1 DEF TypeOK, StackInv, Labels
    <2>5. CASE /\ Setup[drv].takes = {Order[Depth(drv) + 1]}
               /\ Depth(drv) \in 0 .. 10
               /\ Depth(Setup[drv].then) = Depth(drv) + 1
      <3>1. {Order[Depth(drv) + 1]} \in SUBSET Resource
        BY <2>5, TakenStep
      <3>2. /\ held' \in [Resource -> Nat]
            /\ \A r \in Resource : held'[r] = held[r] + If1(r = Order[Depth(drv) + 1])
        BY <1>1, <2>1, <2>5, <3>1, Plus1 DEF If1
      <3>3. ASSUME NEW r \in Resource
            PROVE  held'[r] = before[r] + Taken(Depth(drv'), r)
        <4>1. held[r] = before[r] + Taken(Depth(drv), r)
          BY <1>1, <2>2 DEF StackInv
        <4>2. /\ Taken(Depth(drv) + 1, r)
                    = Taken(Depth(drv), r) + If1(r = Order[Depth(drv) + 1])
              /\ Taken(Depth(drv), r) \in Nat
          BY <2>5, TakenStep
        <4>3. before[r] \in Nat
          BY <1>1
        <4> QED BY <2>1, <2>5, <3>2, <4>1, <4>2, <4>3 DEF If1
      <3> QED BY <1>1, <2>1, <2>3, <3>2, <3>3 DEF TypeOK, StackInv, Labels
    <2> QED BY <2>1, <2>4, <2>5, SetupSteps
  <1>3. CASE Fail
    <2>1. /\ drv \in DOMAIN Setup /\ drv' = Setup[drv].fail
          /\ UNCHANGED <<held, before, probes, device_state, mc, monitor_enabled, work>>
      BY <1>3 DEF Fail
    <2>2. drv # "unbound" /\ drv' \in Labels /\ Depth(drv') = Depth(drv)
      BY <2>1, SetupNames, SetupSteps, SetupLabels
    <2> QED BY <1>1, <2>1, <2>2 DEF TypeOK, StackInv, Labels
  <1>4. CASE Give
    <2>1. /\ drv \in DOMAIN Unwind /\ Plus(Unwind[drv].gives, -1)
          /\ drv' = Unwind[drv].then
          /\ UNCHANGED <<before, probes, device_state, mc, monitor_enabled, work>>
      BY <1>4 DEF Give
    <2> DEFINE x == Order[Depth(drv)]
    <2>2. /\ drv # "unbound" /\ drv' \in Labels /\ Depth(drv) \in 1 .. 11
          /\ Unwind[drv].gives = {x} /\ Depth(drv') = Depth(drv) - 1
      BY <2>1, UnwindNames, UnwindSteps
    <2>3. /\ x \in Resource
          /\ \A r \in Resource : Taken(Depth(drv), r) = Taken(Depth(drv'), r) + If1(r = x)
          /\ \A r \in Resource : Taken(Depth(drv'), r) \in Nat
      <3>1. Depth(drv') \in 0 .. 10 /\ Depth(drv') + 1 = Depth(drv)
        BY <2>2
      <3> QED BY <3>1, TakenStep
    <2> HIDE DEF x
    <2>4. \A r \in Resource :
            held[r] = before[r] + Taken(Depth(drv'), r) + If1(r = x)
      BY <1>1, <2>2, <2>3 DEF StackInv, If1
    <2>5. held[x] > 0
      BY <1>1, <2>3, <2>4 DEF If1
    <2>6. /\ held' \in [Resource -> Nat]
          /\ \A r \in Resource : held'[r] = held[r] - If1(r = x)
      BY <1>1, <2>1, <2>2, <2>3, <2>5, Minus1
    <2>7. \A r \in Resource : held'[r] = before[r] + Taken(Depth(drv'), r)
      BY <1>1, <2>3, <2>4, <2>6 DEF If1
    <2> QED BY <1>1, <2>1, <2>2, <2>6, <2>7 DEF TypeOK, StackInv, Labels
  <1>5. CASE Still
    <2>1. /\ UNCHANGED <<held, before, probes>>
          /\ drv # "unbound" /\ drv' \in Labels /\ Depth(drv') = Depth(drv)
      BY <1>5, SetupNames, UnwindNames
      DEF Still, DeviceInit, StatsInit, McEnable, Ready, Mark, McDisable, StatsFini, CancelBegin,
          CancelEnd, Depth, Labels
    <2>2. /\ device_state' \in {"INITIALIZING", "READY", "SHUTDOWN"}
          /\ mc' \in BOOLEAN /\ monitor_enabled' \in BOOLEAN
          /\ work' \in {"off", "queued", "running"}
      BY <1>1, <1>5
      DEF Still, DeviceInit, StatsInit, McEnable, Ready, Mark, McDisable, StatsFini, CancelBegin,
          CancelEnd, TypeOK
    <2> QED BY <1>1, <2>1, <2>2 DEF TypeOK, StackInv, Labels
  <1>6. CASE Probe
    <2>1. /\ drv' = "enable" /\ held' = held /\ before' = held
          /\ probes' \in 0 .. MAX_PROBES
          /\ UNCHANGED <<device_state, mc, monitor_enabled, work>>
      BY <1>1, <1>6, ProbesAssumption DEF Probe
    <2>2. \A r \in Resource : Taken(Depth("enable"), r) = 0
      BY DEF Taken, Depth, If1, Resource
    <2>3. "enable" \in Labels
      BY SetupNames DEF Labels
    <2> QED BY <1>1, <2>1, <2>2, <2>3 DEF TypeOK, StackInv, Labels
  <1>7. CASE Remove \/ Power
    <2>1. /\ drv = "bound" /\ drv' \in {"unbound", "oops"} /\ held' = held
          /\ UNCHANGED <<before, probes, device_state, mc, monitor_enabled, work>>
      BY <1>7 DEF Remove, Power
    <2>2. Depth("oops") = Depth("bound")
      BY DEF Depth
    <2> QED BY <1>1, <2>1, <2>2 DEF TypeOK, StackInv, Labels, Rest
  <1>8. CASE MonitorStarts \/ MonitorEnds
    <2>1. /\ UNCHANGED <<drv, held, before, probes, device_state, mc, monitor_enabled>>
          /\ work' \in {"off", "queued", "running"}
      BY <1>8 DEF MonitorStarts, MonitorEnds
    <2> QED BY <1>1, <2>1 DEF TypeOK, StackInv
  <1> QED BY <1>2, <1>3, <1>4, <1>5, <1>6, <1>7, <1>8 DEF Next, DriverStep, Still

-----------------------------------------------------------------------------
(* Who gets how far *)

\* What is held at the places the other two parts turn on.
LEMMA HeldFacts ==
  ASSUME Inv
  PROVE  /\ before["regions"] \in Nat /\ before["pddgpu"] \in Nat
         /\ held["regions"] \in Nat /\ held["pddgpu"] \in Nat
         /\ drv # "unbound" =>
              /\ held["regions"] = before["regions"] + If1(Depth(drv) >= 2)
              /\ held["pddgpu"] = before["pddgpu"] + If1(Depth(drv) >= 4)
              /\ held["rmmio"] = before["rmmio"] + If1(Depth(drv) >= 5)
         /\ before["rmmio"] \in Nat
  BY DEF Inv, TypeOK, StackInv, Taken, Resource

\* Where the calls lead, without what they take.
LEMMA NextPlaces ==
  ASSUME NEW l \in DOMAIN Setup
  PROVE  /\ l \in Early => Setup[l].fail \in Rest \cup {"err_disable_device"}
         /\ l \in Early \ {"regions"} => Setup[l].then \in Early
         /\ Setup[l].takes = {"regions"} <=> l = "regions"
         /\ Setup[l].then \notin {"unbound", "wait"} /\ Setup[l].fail \notin {"unbound", "wait"}
         /\ \A x \in {Setup[l].then, Setup[l].fail} :
              /\ x \in McOff => l \in McOff
              /\ x \in MonitorOff => l \in MonitorOff
              /\ x \in WorkOff => l \in WorkOff
  <1>1. CASE l \in DOMAIN probe_calls /\ Setup[l] = probe_calls[l]
    BY <1>1, SetupNames, UnwindNames
    DEF probe_calls, Early, Front, Back, McOff, MonitorOff, WorkOff, Rest, iomap_failed,
        gmc_init_failed, ttm_init_failed, vram_init_failed
  <1>2. CASE l \in DOMAIN device_init_calls /\ Setup[l] = device_init_calls[l]
    BY <1>2, SetupNames, UnwindNames
    DEF device_init_calls, Early, Front, Back, McOff, MonitorOff, WorkOff, Rest, iomap_failed,
        gmc_init_failed, ttm_init_failed, vram_init_failed
  <1>3. CASE l \in DOMAIN gmc_init_calls /\ Setup[l] = gmc_init_calls[l]
    BY <1>3, SetupNames, UnwindNames
    DEF gmc_init_calls, Early, Front, Back, McOff, MonitorOff, WorkOff, Rest, iomap_failed,
        gmc_init_failed, ttm_init_failed, vram_init_failed
  <1>4. CASE l \in DOMAIN ttm_init_calls /\ Setup[l] = ttm_init_calls[l]
    BY <1>4, SetupNames, UnwindNames
    DEF ttm_init_calls, Early, Front, Back, McOff, MonitorOff, WorkOff, Rest, iomap_failed,
        gmc_init_failed, ttm_init_failed, vram_init_failed
  <1> QED BY <1>1, <1>2, <1>3, <1>4, SetupParts

LEMMA UnwindPlaces ==
  ASSUME NEW l \in DOMAIN Unwind
  PROVE  /\ l = "err_disable_device" => Unwind[l].then = "failed"
         /\ l \notin Early /\ l \notin Rest
         /\ Unwind[l].then \notin {"unbound", "wait"}
         /\ Unwind[l].then \in McOff => l \in McOff
         /\ Unwind[l].then \in MonitorOff => l \in MonitorOff
         /\ Unwind[l].then \in WorkOff => l \in WorkOff
  <1>1. CASE l \in DOMAIN device_fini_calls /\ Unwind[l] = device_fini_calls[l]
    BY <1>1, SetupNames, UnwindNames
    DEF device_fini_calls, Early, Front, Back, McOff, MonitorOff, WorkOff, Rest, ttm_init_failed
  <1>2. CASE l \in DOMAIN probe_labels /\ Unwind[l] = probe_labels[l]
    BY <1>2, SetupNames, UnwindNames
    DEF probe_labels, Early, Front, Back, McOff, MonitorOff, WorkOff, Rest, ttm_init_failed
  <1>3. CASE l \in DOMAIN ttm_fini_calls /\ Unwind[l] = ttm_fini_calls[l]
    BY <1>3, SetupNames, UnwindNames
    DEF ttm_fini_calls, Early, Front, Back, McOff, MonitorOff, WorkOff, Rest, ttm_init_failed
  <1>4. CASE l \in DOMAIN ttm_init_labels /\ Unwind[l] = ttm_init_labels[l]
    BY <1>4, SetupNames, UnwindNames
    DEF ttm_init_labels, Early, Front, Back, McOff, MonitorOff, WorkOff, Rest, ttm_init_failed
  <1>5. CASE l \in DOMAIN gmc_fini_calls /\ Unwind[l] = gmc_fini_calls[l]
    BY <1>5, SetupNames, UnwindNames
    DEF gmc_fini_calls, Early, Front, Back, McOff, MonitorOff, WorkOff, Rest, ttm_init_failed
  <1> QED BY <1>1, <1>2, <1>3, <1>4, <1>5, UnwindParts

LEMMA OwnStep ==
  ASSUME Inv, Next
  PROVE  OwnInv'
  <1>1. OwnInv
    BY DEF Inv
  <1>2. CASE Take
    <2>1. /\ drv \in DOMAIN Setup /\ drv' = Setup[drv].then /\ before' = before
          /\ Setup[drv].takes = {"regions"} => held["regions"] = 0
      BY <1>2 DEF Take, Available
    <2>2. drv \notin Rest /\ drv # "err_disable_device" /\ drv # "unbound"
      BY <2>1, SetupNames DEF Rest
    <2>3. drv = "regions" => before["regions"] = 0
      BY <2>1, <2>2, HeldFacts, NextPlaces DEF If1
    <2> QED BY <1>1, <2>1, <2>2, <2>3, HeldFacts, NextPlaces DEF OwnInv, Paired
  <1>3. CASE Fail
    <2>1. /\ drv \in DOMAIN Setup /\ drv' = Setup[drv].fail /\ before' = before
      BY <1>3 DEF Fail
    <2>2. drv \notin Rest /\ drv # "err_disable_device"
      BY <2>1, SetupNames DEF Rest
    <2> QED BY <1>1, <2>1, <2>2, NextPlaces DEF OwnInv, Paired
  <1>4. CASE Give
    <2>1. drv \in DOMAIN Unwind /\ drv' = Unwind[drv].then /\ before' = before
      BY <1>4 DEF Give
    <2> QED BY <1>1, <2>1, UnwindPlaces DEF OwnInv, Paired, Rest
  <1>5. CASE Still
    <2>1. /\ before' = before /\ drv' # "unbound"
          /\ drv \notin Rest \cup Early \cup {"err_disable_device"}
      BY <1>5
      DEF Still, DeviceInit, StatsInit, McEnable, Ready, Mark, McDisable, StatsFini, CancelBegin,
          CancelEnd, Rest, Early
    <2> QED BY <1>1, <2>1 DEF OwnInv, Paired
  <1>6. CASE Probe
    <2>1. drv' = "enable" /\ before' = held /\ drv \in {"unbound", "failed"}
      BY <1>6 DEF Probe
    <2>2. Paired(held)
      BY <1>1, <2>1, HeldFacts DEF OwnInv, Paired, If1, Depth
    <2> QED BY <2>1, <2>2 DEF OwnInv, Paired, Early
  <1>7. CASE Remove \/ Power
    <2>1. drv = "bound" /\ drv' \in Rest /\ before' = before /\ held' = held
      BY <1>7 DEF Remove, Power, Rest
    <2>2. held["regions"] > 0 /\ held["pddgpu"] > 0
      BY <2>1, HeldFacts DEF If1, Depth
    <2> QED BY <1>1, <2>1, <2>2, HeldFacts DEF OwnInv, Paired
  <1>8. CASE MonitorStarts \/ MonitorEnds
    BY <1>1, <1>8 DEF MonitorStarts, MonitorEnds, OwnInv, Paired
  <1> QED BY <1>2, <1>3, <1>4, <1>5, <1>6, <1>7, <1>8 DEF Next, DriverStep, Still

LEMMA QuietStep ==
  ASSUME Inv, Next
  PROVE  QuietInv'
  <1>1. QuietInv /\ TypeOK
    BY DEF Inv
  <1>2. CASE Take \/ Fail
    <2>1. /\ drv \in DOMAIN Setup /\ drv' \in {Setup[drv].then, Setup[drv].fail}
          /\ UNCHANGED <<before, mc, monitor_enabled, work>>
      BY <1>2 DEF Take, Fail
    <2>2. drv # "unbound"
      BY <2>1, SetupNames
    <2> QED BY <1>1, <2>1, <2>2, NextPlaces DEF QuietInv
  <1>3. CASE Give
    <2>1. /\ drv \in DOMAIN Unwind /\ drv' = Unwind[drv].then
          /\ UNCHANGED <<before, mc, monitor_enabled, work>>
      BY <1>3 DEF Give
    <2>2. drv # "unbound"
      BY <2>1, UnwindNames
    <2> QED BY <1>1, <2>1, <2>2, UnwindPlaces DEF QuietInv
  <1>4. CASE Still
    BY <1>1, <1>4
    DEF Still, DeviceInit, StatsInit, McEnable, Ready, Mark, McDisable, StatsFini, CancelBegin,
        CancelEnd, QuietInv, Front, Back, Early, McOff, MonitorOff, WorkOff, TypeOK
  <1>5. CASE Probe
    <2>1. /\ drv' = "enable" /\ before' = held /\ drv \in {"unbound", "failed"}
          /\ UNCHANGED <<mc, monitor_enabled, work>>
      BY <1>5 DEF Probe
    <2>2. held["pddgpu"] = 0 => ~mc /\ ~monitor_enabled /\ work = "off"
      <3>1. drv = "failed" => held["pddgpu"] = before["pddgpu"]
        BY HeldFacts DEF If1, Depth
      <3> QED BY <1>1, <2>1, <3>1
        DEF QuietInv, McOff, MonitorOff, WorkOff, Back
    <2> QED BY <2>1, <2>2 DEF QuietInv
  <1>6. CASE Remove \/ Power
    <2>1. /\ drv = "bound" /\ drv' \in {"unbound", "oops"}
          /\ UNCHANGED <<held, before, mc, monitor_enabled, work>>
      BY <1>6 DEF Remove, Power
    <2>2. held["pddgpu"] > 0
      BY <2>1, HeldFacts DEF If1, Depth
    <2> QED BY <2>1, <2>2, HeldFacts
      DEF QuietInv, McOff, MonitorOff, WorkOff, Front, Back, Early
  <1>7. CASE MonitorStarts \/ MonitorEnds
    BY <1>1, <1>7
    DEF MonitorStarts, MonitorEnds, Rearm, QuietInv, MonitorOff, WorkOff
  <1> QED BY <1>2, <1>3, <1>4, <1>5, <1>6, <1>7 DEF Next, DriverStep, Still

LEMMA InvStep == Inv /\ [Next]_vars => Inv'
  <1> SUFFICES ASSUME Inv, [Next]_vars PROVE Inv'
    OBVIOUS
  <1>1. CASE Next
    BY <1>1, HeldStep, OwnStep, QuietStep DEF Inv
  <1>2. CASE UNCHANGED vars
    BY <1>2 DEF vars, Inv, TypeOK, StackInv, OwnInv, QuietInv, Paired
  <1> QED BY <1>1, <1>2

LEMMA Invariance == Spec => []Inv
  BY InvInit, InvStep, PTL DEF Spec

-----------------------------------------------------------------------------
\* Every variable keeps its type; in particular nothing is given back that is
\* not held.
THEOREM TypeCorrect == Spec => []TypeOK
  <1>1. Inv => TypeOK
    BY DEF Inv
  <1> QED BY <1>1, Invariance, PTL

\* A probe that fails at any of its calls has given back exactly what it took,
\* and a driver that holds nothing leaves no register on and no monitor.
THEOREM FailedProbe == Spec => []FailedProbeLeavesNothing
  <1>1. Inv => FailedProbeLeavesNothing
    <2> SUFFICES ASSUME Inv, drv = "failed"
                 PROVE  /\ held = before
                        /\ held["pddgpu"] = 0 => ~mc /\ work = "off" /\ ~monitor_enabled
      BY DEF FailedProbeLeavesNothing
    <2>1. \A r \in Resource : Taken(Depth("failed"), r) = 0
      BY DEF Taken, Depth, If1, Resource
    <2>2. /\ held \in [Resource -> Nat] /\ before \in [Resource -> Nat]
          /\ \A r \in Resource : held[r] = before[r]
      BY <2>1 DEF Inv, TypeOK, StackInv
    <2>3. held = before
      BY <2>2
    <2> QED BY <2>3 DEF Inv, QuietInv, McOff, MonitorOff, WorkOff, Back
  <1> QED BY <1>1, Invariance, PTL

\* The monitor's work never outlives the structure it lies in.
THEOREM WorkHasDevice == Spec => []WorkNeedsDevice
  <1>1. Inv => WorkNeedsDevice
    <2> SUFFICES ASSUME Inv, work # "off" PROVE held["pddgpu"] > 0
      BY DEF WorkNeedsDevice
    <2>1. CASE drv = "unbound"
      BY <2>1, HeldFacts DEF Inv, QuietInv
    <2>2. CASE drv # "unbound" /\ before["pddgpu"] > 0
      BY <2>2, HeldFacts DEF If1
    <2>3. CASE drv # "unbound" /\ before["pddgpu"] = 0
      <3>1. drv \notin WorkOff
        BY <2>3 DEF Inv, QuietInv
      <3>2. Depth(drv) >= 4
        BY <3>1 DEF Depth, WorkOff, Front, Back, Early
      <3> QED BY <2>3, <3>2, HeldFacts DEF If1
    <2> QED BY <2>1, <2>2, <2>3, HeldFacts
  <1> QED BY <1>1, Invariance, PTL

\* Whatever label a failure ends in, the memory controller is turned on and off
\* while its registers are mapped.
THEOREM Mapped == Spec => RegistersMapped
  <1>1. Inv /\ [Next]_vars => [McEnable \/ McDisable => held["rmmio"] > 0]_vars
    <2> SUFFICES ASSUME Inv, McEnable \/ McDisable PROVE held["rmmio"] > 0
      OBVIOUS
    <2>1. drv # "unbound" /\ Depth(drv) >= 5
      BY DEF McEnable, McDisable, Depth
    <2> QED BY <2>1, HeldFacts DEF If1
  <1> QED BY <1>1, Invariance, PTL DEF Spec, RegistersMapped
=============================================================================
