---------------------------- MODULE DeviceLifecycle ----------------------------
(***************************************************************************)
(* One PCI device and the driver: probe with the chain of labels that      *)
(* undoes a probe that fails half way (pddgpu_drv.c, pddgpu_device.c,      *)
(* pddgpu_ttm.c, pddgpu_gmc.c), remove, another probe, and the leak        *)
(* monitor, which the setup starts early and the unwinding has to stop.    *)
(*                                                                         *)
(* The PCI core runs one probe, remove or power callback at a time.  Every *)
(* call that can fail may fail.  The tables below have one line per call   *)
(* of the code, in its order: what a setup call takes, what comes next and *)
(* the label a failure goes to; what an unwinding call gives back and what *)
(* comes next.  The managers are set up by ttm_init and again by           *)
(* device_init, and counted accordingly.                                   *)
(***************************************************************************)
EXTENDS Integers

CONSTANT MAX_PROBES     \* bound: how often the PCI core binds the driver

ASSUME ProbesAssumption == MAX_PROBES \in Nat

VARIABLES
  drv,             \* the call or label the driver has come to
  held,            \* per resource, how often it was taken and not given back
  before,          \* (history) held when the probe began
  probes,
  device_state,
  mc,              \* the memory controller registers are enabled
  monitor_enabled,
  work             \* leak_monitor_work: off, queued or running

vars == <<drv, held, before, probes, device_state, mc, monitor_enabled, work>>

-----------------------------------------------------------------------------
(* A name that ends in _fault is a plausible mistake in the operator after  *)
(* it and is used by no specification.                                      *)

Resource == {"pci", "regions", "drm", "pddgpu", "rmmio", "mtrr", "bdev", "vram", "gtt"}

\* The labels to which device_init goes when a call of it fails.
iomap_failed_fault    == "err_gmc_fini"
iomap_failed          == "err_exit"

gmc_init_failed       == "err_memory_stats_fini"

ttm_init_failed_fault == "err_memory_stats_fini"
ttm_init_failed       == "err_gmc_fini"

vram_init_failed_fault == "err_vram_mgr_fini"
vram_init_failed      == "err_ttm_fini"

\* Two tables as one.
Join(f, g) == [l \in DOMAIN f \cup DOMAIN g |-> IF l \in DOMAIN f THEN f[l] ELSE g[l]]

\* pddgpu_pci_probe
probe_calls == [
  enable   |-> [takes |-> {"pci"},     then |-> "dma_mask", fail |-> "failed"],
  dma_mask |-> [takes |-> {},          then |-> "regions",  fail |-> "err_disable_device"],
  regions  |-> [takes |-> {"regions"}, then |-> "drm",      fail |-> "err_disable_device"],
  drm      |-> [takes |-> {"drm"},     then |-> "kzalloc",  fail |-> "err_release_regions"],
  kzalloc  |-> [takes |-> {"pddgpu"},  then |-> "init",     fail |-> "err_free_drm"],
  register |-> [takes |-> {},          then |-> "bound",    fail |-> "device_fini"]]

\* pddgpu_device_init, which calls the next two
device_init_calls == [
  iomap    |-> [takes |-> {"rmmio"},   then |-> "stats",    fail |-> iomap_failed],
  vram     |-> [takes |-> {"vram"},    then |-> "gtt",      fail |-> vram_init_failed],
  gtt      |-> [takes |-> {"gtt"},     then |-> "ready",    fail |-> "err_vram_mgr_fini"]]

\* pddgpu_gmc_init: the sizes it reads must be valid, and the MTRR be set
gmc_init_calls == [
  gmc      |-> [takes |-> {"mtrr"},    then |-> "mc_enable", fail |-> gmc_init_failed]]

\* pddgpu_ttm_init
ttm_init_calls == [
  ttm      |-> [takes |-> {"bdev"},    then |-> "ttm_vram", fail |-> ttm_init_failed],
  ttm_vram |-> [takes |-> {"vram"},    then |-> "ttm_gtt",  fail |-> "ttm_err_ttm_fini"],
  ttm_gtt  |-> [takes |-> {"gtt"},     then |-> "vram",     fail |-> "ttm_err_vram_fini"]]

Setup == Join(Join(probe_calls, device_init_calls), Join(gmc_init_calls, ttm_init_calls))

\* pddgpu_device_fini and the labels of pddgpu_device_init
device_fini_calls == [
  fini_gtt           |-> [gives |-> {"gtt"},     then |-> "err_vram_mgr_fini"],
  err_vram_mgr_fini  |-> [gives |-> {"vram"},    then |-> "err_ttm_fini"],
  err_unmap_mmio     |-> [gives |-> {"rmmio"},   then |-> "err_exit"]]

\* pddgpu_ttm_fini
ttm_fini_calls == [
  err_ttm_fini       |-> [gives |-> {"gtt"},     then |-> "ttm_fini_vram"],
  ttm_fini_vram      |-> [gives |-> {"vram"},    then |-> "ttm_fini_bdev"],
  ttm_fini_bdev      |-> [gives |-> {"bdev"},    then |-> "err_gmc_fini"]]

\* the labels of pddgpu_ttm_init
ttm_init_labels == [
  ttm_err_vram_fini  |-> [gives |-> {"vram"},    then |-> "ttm_err_ttm_fini"],
  ttm_err_ttm_fini   |-> [gives |-> {"bdev"},    then |-> ttm_init_failed]]

\* the end of pddgpu_gmc_fini
gmc_fini_calls == [
  mtrr_del           |-> [gives |-> {"mtrr"},    then |-> "err_memory_stats_fini"]]

\* the labels of pddgpu_pci_probe
probe_labels == [
  err_free_pddgpu    |-> [gives |-> {"pddgpu"},  then |-> "err_free_drm"],
  err_free_drm       |-> [gives |-> {"drm"},     then |-> "err_release_regions"],
  err_release_regions |-> [gives |-> {"regions"}, then |-> "err_disable_device"],
  err_disable_device |-> [gives |-> {"pci"},     then |-> "failed"]]

Unwind == Join(Join(device_fini_calls, probe_labels),
               Join(Join(ttm_fini_calls, ttm_init_labels), gmc_fini_calls))

\* Only one driver can have the regions of a device.
Available(R) == "regions" \in R => held["regions"] = 0

Plus(R, n) == held' = [r \in Resource |-> IF r \in R THEN held[r] + n ELSE held[r]]

-----------------------------------------------------------------------------
Init ==
  /\ drv = "unbound"
  /\ held = [r \in Resource |-> 0] /\ before = held
  /\ probes = 0
  /\ device_state = "INITIALIZING"
  /\ mc = FALSE
  /\ monitor_enabled = FALSE /\ work = "off"

\* The PCI core calls probe.
Probe ==
  /\ drv \in {"unbound", "failed"} /\ probes < MAX_PROBES
  /\ drv' = "enable" /\ probes' = probes + 1 /\ before' = held
  /\ UNCHANGED <<held, device_state, mc, monitor_enabled, work>>

Take ==
  /\ drv \in DOMAIN Setup /\ Available(Setup[drv].takes)
  /\ Plus(Setup[drv].takes, 1)
  /\ drv' = Setup[drv].then
  /\ UNCHANGED <<before, probes, device_state, mc, monitor_enabled, work>>

Fail ==
  /\ drv \in DOMAIN Setup
  /\ drv' = Setup[drv].fail
  /\ UNCHANGED <<held, before, probes, device_state, mc, monitor_enabled, work>>

\* pddgpu_device_init begins.
DeviceInit ==
  /\ drv = "init"
  /\ device_state' = "INITIALIZING" /\ drv' = "iomap"
  /\ UNCHANGED <<held, before, probes, mc, monitor_enabled, work>>

\* pddgpu_memory_stats_init cannot fail: it starts the monitor and says READY.
StatsInit ==
  /\ drv = "stats"
  /\ work' = "queued" /\ monitor_enabled' = TRUE
  /\ device_state' = "READY"
  /\ drv' = "gmc"
  /\ UNCHANGED <<held, before, probes, mc>>

\* The end of pddgpu_gmc_init.
McEnable ==
  /\ drv = "mc_enable"
  /\ mc' = TRUE /\ drv' = "ttm"
  /\ UNCHANGED <<held, before, probes, device_state, monitor_enabled, work>>

Ready ==
  /\ drv = "ready"
  /\ device_state' = "READY" /\ drv' = "register"
  /\ UNCHANGED <<held, before, probes, mc, monitor_enabled, work>>

Give ==
  /\ drv \in DOMAIN Unwind
  /\ Plus(Unwind[drv].gives, -1)
  /\ drv' = Unwind[drv].then
  /\ UNCHANGED <<before, probes, device_state, mc, monitor_enabled, work>>

\* pddgpu_device_fini begins; at err_exit device_init ends with the same mark.
Mark ==
  /\ drv \in {"device_fini", "err_exit"}
  /\ device_state' = "SHUTDOWN"
  /\ drv' = IF drv = "device_fini" THEN "fini_gtt" ELSE "err_free_pddgpu"
  /\ UNCHANGED <<held, before, probes, mc, monitor_enabled, work>>

\* pddgpu_gmc_fini: the registers, then the MTRR.
McDisable ==
  /\ drv = "err_gmc_fini"
  /\ mc' = FALSE /\ drv' = "mtrr_del"
  /\ UNCHANGED <<held, before, probes, device_state, monitor_enabled, work>>

\* pddgpu_memory_stats_fini: the mark and the flag, then cancel_delayed_work_sync.
StatsFini ==
  /\ drv = "err_memory_stats_fini"
  /\ device_state' = "SHUTDOWN" /\ monitor_enabled' = FALSE
  /\ drv' = "cancel"
  /\ UNCHANGED <<held, before, probes, mc, work>>

CancelBegin ==
  /\ drv = "cancel"
  /\ drv' = "wait" /\ work' = IF work = "queued" THEN "off" ELSE work
  /\ UNCHANGED <<held, before, probes, device_state, mc, monitor_enabled>>

CancelEnd_fault ==
  /\ drv = "wait"
  /\ drv' = "err_unmap_mmio"
  /\ UNCHANGED <<held, before, probes, device_state, mc, monitor_enabled, work>>

\* ... which waits for the turn that is running.
CancelEnd ==
  /\ drv = "wait" /\ work = "off"
  /\ drv' = "err_unmap_mmio"
  /\ UNCHANGED <<held, before, probes, device_state, mc, monitor_enabled, work>>

\* pddgpu_pci_remove: nothing has set the driver data, so pci_get_drvdata finds
\* NULL and remove returns.  The PCI core takes the driver as unbound.
Remove ==
  /\ drv = "bound"
  /\ drv' = "unbound"
  /\ UNCHANGED <<held, before, probes, device_state, mc, monitor_enabled, work>>

\* pddgpu_pm_suspend or pddgpu_pm_resume follows the same NULL.
Power ==
  /\ drv = "bound"
  /\ drv' = "oops"
  /\ UNCHANGED <<held, before, probes, device_state, mc, monitor_enabled, work>>

\* The work function: a turn, and the next one unless the monitor was disabled
\* or the device shuts down; while the work is cancelled it cannot be queued.
Rearm == monitor_enabled /\ device_state # "SHUTDOWN" /\ drv # "wait"

MonitorStarts ==
  /\ work = "queued"
  /\ work' = "running"
  /\ UNCHANGED <<drv, held, before, probes, device_state, mc, monitor_enabled>>

MonitorEnds ==
  /\ work = "running"
  /\ work' = IF Rearm THEN "queued" ELSE "off"
  /\ UNCHANGED <<drv, held, before, probes, device_state, mc, monitor_enabled>>

DriverStep ==
  \/ Take \/ Fail \/ DeviceInit \/ StatsInit \/ McEnable \/ Ready
  \/ Give \/ Mark \/ McDisable \/ StatsFini \/ CancelBegin \/ CancelEnd

Next ==
  \/ DriverStep \/ Probe \/ Remove \/ Power
  \/ MonitorStarts \/ MonitorEnds

Spec == Init /\ [][Next]_vars

-----------------------------------------------------------------------------
Rest == {"unbound", "failed", "bound", "oops"}

\* Every variable has its type.
TypeOK ==
  /\ drv \in Rest \cup DOMAIN Setup \cup DOMAIN Unwind
         \cup {"init", "stats", "mc_enable", "ready", "device_fini", "err_exit",
               "err_gmc_fini", "err_memory_stats_fini", "cancel", "wait"}
  /\ held \in [Resource -> Nat] /\ before \in [Resource -> Nat]
  /\ probes \in 0 .. MAX_PROBES
  /\ device_state \in {"INITIALIZING", "READY", "SHUTDOWN"}
  /\ mc \in BOOLEAN /\ monitor_enabled \in BOOLEAN
  /\ work \in {"off", "queued", "running"}

\* A probe that fails, wherever it fails, has given back exactly what it took,
\* no more and no less, with the managers finished as often as they were set up
\* and, if the driver holds nothing, no register enabled and no monitor alive.
FailedProbeLeavesNothing ==
  drv = "failed" =>
    /\ held = before
    /\ held["pddgpu"] = 0 => ~mc /\ work = "off" /\ ~monitor_enabled

\* The monitor's work lies in the device structure: it is never queued or
\* running when the structure is not there.
WorkNeedsDevice == work # "off" => held["pddgpu"] > 0

\* The memory controller is turned on and off through mapped registers only,
\* whichever label the unwinding starts from.
RegistersMapped == [][McEnable \/ McDisable => held["rmmio"] > 0]_vars
=============================================================================
