------------------------------ MODULE UsageStats ------------------------------
(***************************************************************************)
(* The counters of pddgpu_memory_stats.c: what the managers and the        *)
(* buffer-object code add to them, and how get_info reads them without a   *)
(* lock.                                                                   *)
(*                                                                         *)
(* Every counter is an atomic64_t; a step is one access to one counter.    *)
(* A buffer object lives once and is driven as TTM drives it: a resource   *)
(* in one domain, now and then a move through a second one, a destruction  *)
(* that frees the resource before it calls the destroy callback.  The      *)
(* manager counts when the memory has already changed hands.  A timed      *)
(* operation takes one unit.  Left out: total_allocations and              *)
(* total_deallocations, the debug counters, and reset and batch_update,    *)
(* which nothing in src/ calls.                                            *)
(***************************************************************************)
EXTENDS Integers, Sequences, FiniteSetsExt

CONSTANTS
  Bo,          \* the buffer objects
  Size,        \* their sizes
  Reader,      \* the callers of get_info: the monitor and debug_print
  MAX_MOVES    \* bound: how many moves an instance has

ASSUME UsageAssumption ==
  Size \subseteq Nat \ {0} /\ IsFiniteSet(Bo) /\ MAX_MOVES \in Nat

VARIABLES
  device_state,
  ctr,                   \* the counters
  \* per buffer object: where it is in its life, its size, the domains it has
  \* a resource in, the domain at hand, and (history) where alloc_end counted it
  pc, size, hold, arg, born,
  moves,                 \* moves so far, up to the bound
  \* per caller of get_info: its place, the domain and cell it has come to, the
  \* values read, and (history) the counter of allocations when freed was read
  rpc, rd, ri, seen, there

bos     == <<pc, size, hold, arg, born, moves>>
readers == <<rpc, rd, ri, seen, there>>
vars    == <<device_state, ctr, bos, readers>>

-----------------------------------------------------------------------------
Domain == {"VRAM", "TT"}
Kind   == {"alloc", "dealloc", "move"}
Cell   == ({"allocated", "freed"} \X Domain) \cup ({"time", "count"} \X Kind)

\* The order in which get_info reads the performance counters.
PerfReads_fault == << <<"time", "alloc">>, <<"time", "dealloc">>,
                      <<"count", "alloc">>, <<"count", "dealloc">>,
                      <<"time", "move">>, <<"count", "move">> >>
PerfReads == << <<"count", "alloc">>, <<"count", "dealloc">>,
                <<"time", "alloc">>, <<"time", "dealloc">>,
                <<"time", "move">>, <<"count", "move">> >>

Shutdown == device_state = "SHUTDOWN"

Add(c, n) == ctr' = [ctr EXCEPT ![c] = @ + n]

\* update_usage: nothing is counted once the device shuts down.
UpdateUsage_fault(c, d, n) == Add(<<"allocated", d>>, IF c = "freed" THEN n ELSE -n)
UpdateUsage(c, d, n) == IF Shutdown THEN UNCHANGED ctr ELSE Add(<<c, d>>, n)

Unread == [c \in Cell |-> 0]

At(b, l)   == pc[b] = l
Goto(b, l) == pc' = [pc EXCEPT ![b] = l]

-----------------------------------------------------------------------------
Init ==
  /\ device_state = "READY"
  /\ ctr = [c \in Cell |-> 0]
  /\ pc = [b \in Bo |-> "none"]
  /\ size \in [Bo -> Size]
  /\ hold = [b \in Bo |-> {}]
  /\ arg = [b \in Bo |-> "VRAM"]
  /\ born = [b \in Bo |-> {}]
  /\ moves = 0
  /\ rpc = [r \in Reader |-> "idle"]
  /\ rd = [r \in Reader |-> "VRAM"]
  /\ ri = [r \in Reader |-> 1]
  /\ seen = [r \in Reader |-> Unread]
  /\ there = [r \in Reader |-> [d \in Domain |-> 0]]

-----------------------------------------------------------------------------
(* A buffer object *)

\* ttm_bo_init_reserved: the manager of a domain has given it memory.
Create(b) ==
  /\ At(b, "none") /\ ~Shutdown
  /\ \E d \in Domain :
       arg' = [arg EXCEPT ![b] = d] /\ hold' = [hold EXCEPT ![b] = {d}]
  /\ Goto(b, "book")
  /\ UNCHANGED <<device_state, ctr, size, born, moves, readers>>

\* The manager counts the memory it gave out, for a new buffer object or a move.
Book(b) ==
  /\ At(b, "book")
  /\ UpdateUsage("allocated", arg[b], size[b])
  /\ Goto(b, IF hold[b] = {arg[b]} THEN "end_time" ELSE "copy")
  /\ UNCHANGED <<device_state, size, hold, arg, born, moves, readers>>

\* The manager counts the memory it took back.
Unbook(b) ==
  /\ At(b, "unbook")
  /\ UpdateUsage("freed", arg[b], size[b])
  /\ Goto(b, IF hold[b] = {} THEN "destroy" ELSE "live")
  /\ UNCHANGED <<device_state, size, hold, arg, born, moves, readers>>

\* alloc_end: the time, then the number of allocations, then the usage of the
\* domain the resource is in, which the manager has counted already.
AllocEndTime(b) ==
  /\ At(b, "end_time")
  /\ IF Shutdown THEN Goto(b, "live") /\ UNCHANGED ctr
                 ELSE Goto(b, "end_count") /\ Add(<<"time", "alloc">>, 1)
  /\ UNCHANGED <<device_state, size, hold, arg, born, moves, readers>>

AllocEndCount(b) ==
  /\ At(b, "end_count")
  /\ Goto(b, "end_usage") /\ Add(<<"count", "alloc">>, 1)
  /\ UNCHANGED <<device_state, size, hold, arg, born, moves, readers>>

AllocEndUsage(b) ==
  /\ At(b, "end_usage")
  /\ \E d \in hold[b] : Add(<<"allocated", d>>, size[b])
  /\ born' = [born EXCEPT ![b] = hold[b]]
  /\ Goto(b, "live")
  /\ UNCHANGED <<device_state, size, hold, arg, moves, readers>>

\* TTM moves it: a resource in the other domain first.
Move(b) ==
  /\ At(b, "live") /\ moves < MAX_MOVES
  /\ moves' = moves + 1
  /\ \E d \in Domain \ hold[b] :
       arg' = [arg EXCEPT ![b] = d] /\ hold' = [hold EXCEPT ![b] = @ \cup {d}]
  /\ Goto(b, "book")
  /\ UNCHANGED <<device_state, ctr, size, born, readers>>

\* pddgpu_bo_move is turned away or the copy fails: the new resource goes back.
CopyFails(b) ==
  /\ At(b, "copy")
  /\ hold' = [hold EXCEPT ![b] = @ \ {arg[b]}]
  /\ Goto(b, "unbook")
  /\ UNCHANGED <<device_state, ctr, size, arg, born, moves, readers>>

Copy(b) ==
  /\ At(b, "copy") /\ ~Shutdown
  /\ Goto(b, "move_time")
  /\ UNCHANGED <<device_state, ctr, size, hold, arg, born, moves, readers>>

\* move_end: the time, then the number of moves.
MoveEndTime(b) ==
  /\ At(b, "move_time")
  /\ IF Shutdown THEN Goto(b, "moved") /\ UNCHANGED ctr
                 ELSE Goto(b, "move_count") /\ Add(<<"time", "move">>, 1)
  /\ UNCHANGED <<device_state, size, hold, arg, born, moves, readers>>

MoveEndCount(b) ==
  /\ At(b, "move_count")
  /\ Goto(b, "moved") /\ Add(<<"count", "move">>, 1)
  /\ UNCHANGED <<device_state, size, hold, arg, born, moves, readers>>

\* ... and TTM frees the old resource.
Moved(b) ==
  /\ At(b, "moved")
  /\ \E d \in hold[b] \ {arg[b]} : arg' = [arg EXCEPT ![b] = d]
  /\ hold' = [hold EXCEPT ![b] = {arg[b]}]
  /\ Goto(b, "unbook")
  /\ UNCHANGED <<device_state, ctr, size, born, moves, readers>>

\* The last reference goes: TTM frees the resource, the manager counts that,
\* and the destroy callback runs.
Release(b) ==
  /\ At(b, "live")
  /\ \E d \in hold[b] : arg' = [arg EXCEPT ![b] = d]
  /\ hold' = [hold EXCEPT ![b] = {}]
  /\ Goto(b, "unbook")
  /\ UNCHANGED <<device_state, ctr, size, born, moves, readers>>

\* pddgpu_bo_destroy: free_start notes the time.
Destroy(b) ==
  /\ At(b, "destroy")
  /\ Goto(b, IF Shutdown THEN "gone" ELSE "free_time")
  /\ UNCHANGED <<device_state, ctr, size, hold, arg, born, moves, readers>>

FreeEndTime(b) ==
  /\ At(b, "free_time")
  /\ IF Shutdown THEN Goto(b, "gone") /\ UNCHANGED ctr
                 ELSE Goto(b, "free_count") /\ Add(<<"time", "dealloc">>, 1)
  /\ UNCHANGED <<device_state, size, hold, arg, born, moves, readers>>

FreeEndCount(b) ==
  /\ At(b, "free_count")
  /\ Goto(b, "free_usage") /\ Add(<<"count", "dealloc">>, 1)
  /\ UNCHANGED <<device_state, size, hold, arg, born, moves, readers>>

\* free_end subtracts the size where the resource is: it has none any more, so
\* the domain reads 0, the system's.
FreeEndUsage_fault(b) ==
  /\ At(b, "free_usage")
  /\ Add(<<"freed", arg[b]>>, size[b])
  /\ Goto(b, "gone")
  /\ UNCHANGED <<device_state, size, hold, arg, born, moves, readers>>

FreeEndUsage(b) ==
  /\ At(b, "free_usage")
  /\ IF hold[b] = {} THEN UNCHANGED ctr
     ELSE \E d \in hold[b] : Add(<<"freed", d>>, size[b])
  /\ Goto(b, "gone")
  /\ UNCHANGED <<device_state, size, hold, arg, born, moves, readers>>

-----------------------------------------------------------------------------
(* pddgpu_memory_stats_get_info *)

RAt(r, l)   == rpc[r] = l
RGoto(r, l) == rpc' = [rpc EXCEPT ![r] = l]
See(r, c)   == seen' = [seen EXCEPT ![r][c] = ctr[c]]

\* The locals of a call are gone when it returns.
Forget(r) ==
  /\ seen' = [seen EXCEPT ![r] = Unread]
  /\ there' = [there EXCEPT ![r] = [d \in Domain |-> 0]]

GetInfo(r) ==
  /\ RAt(r, "idle") /\ ~Shutdown
  /\ RGoto(r, "allocated")
  /\ rd' = [rd EXCEPT ![r] = "VRAM"] /\ ri' = [ri EXCEPT ![r] = 1]
  /\ UNCHANGED <<device_state, ctr, bos, seen, there>>

ReadAllocated(r) ==
  /\ RAt(r, "allocated")
  /\ See(r, <<"allocated", rd[r]>>)
  /\ RGoto(r, "freed")
  /\ UNCHANGED <<device_state, ctr, bos, rd, ri, there>>

ReadFreed(r) ==
  /\ RAt(r, "freed")
  /\ See(r, <<"freed", rd[r]>>)
  /\ there' = [there EXCEPT ![r][rd[r]] = ctr[<<"allocated", rd[r]>>]]
  /\ RGoto(r, "again")
  /\ UNCHANGED <<device_state, ctr, bos, rd, ri>>

\* The loop's condition: round again if the first counter has changed.
Stable_fault(r) == TRUE
Stable(r) == ctr[<<"allocated", rd[r]>>] = seen[r][<<"allocated", rd[r]>>]

ReadAgain(r) ==
  /\ RAt(r, "again")
  /\ IF ~Stable(r) THEN RGoto(r, "allocated") /\ UNCHANGED rd
     ELSE IF rd[r] = "VRAM"
     THEN RGoto(r, "allocated") /\ rd' = [rd EXCEPT ![r] = "TT"]
     ELSE RGoto(r, "perf") /\ UNCHANGED rd
  /\ UNCHANGED <<device_state, ctr, bos, ri, seen, there>>

ReadPerf(r) ==
  /\ RAt(r, "perf")
  /\ IF ri[r] = Len(PerfReads)
     THEN RGoto(r, "idle") /\ Forget(r) /\ UNCHANGED ri
     ELSE /\ See(r, PerfReads[ri[r]]) /\ ri' = [ri EXCEPT ![r] = @ + 1]
          /\ UNCHANGED <<rpc, there>>
  /\ UNCHANGED <<device_state, ctr, bos, rd>>

-----------------------------------------------------------------------------
\* memory_stats_fini or device_fini: the end of all counting.
Shut ==
  /\ ~Shutdown
  /\ device_state' = "SHUTDOWN"
  /\ UNCHANGED <<ctr, bos, readers>>

BoStep(b) ==
  \/ Create(b) \/ Book(b) \/ Unbook(b)
  \/ AllocEndTime(b) \/ AllocEndCount(b) \/ AllocEndUsage(b)
  \/ Move(b) \/ Copy(b) \/ CopyFails(b)
  \/ MoveEndTime(b) \/ MoveEndCount(b) \/ Moved(b)
  \/ Release(b) \/ Destroy(b)
  \/ FreeEndTime(b) \/ FreeEndCount(b) \/ FreeEndUsage(b)

ReaderStep(r) ==
  GetInfo(r) \/ ReadAllocated(r) \/ ReadFreed(r) \/ ReadAgain(r) \/ ReadPerf(r)

Next ==
  \/ \E b \in Bo : BoStep(b)
  \/ \E r \in Reader : ReaderStep(r)
  \/ Shut

Spec == Init /\ [][Next]_vars

-----------------------------------------------------------------------------
Label == {"none", "book", "unbook", "end_time", "end_count", "end_usage", "live",
          "copy", "move_time", "move_count", "moved", "destroy",
          "free_time", "free_count", "free_usage", "gone"}

\* Every variable has its type.
TypeOK ==
  /\ device_state \in {"READY", "SHUTDOWN"}
  /\ ctr \in [Cell -> Nat]
  /\ pc \in [Bo -> Label]
  /\ size \in [Bo -> Size]
  /\ hold \in [Bo -> SUBSET Domain]
  /\ arg \in [Bo -> Domain]
  /\ born \in [Bo -> SUBSET Domain]
  /\ rpc \in [Reader -> {"idle", "allocated", "freed", "again", "perf"}]
  /\ rd \in [Reader -> Domain]
  /\ ri \in [Reader -> 1 .. Len(PerfReads)]
  /\ seen \in [Reader -> [Cell -> Nat]]
  /\ there \in [Reader -> [Domain -> Nat]]
  /\ moves \in 0 .. MAX_MOVES

\* The domains the managers have counted a buffer object in.
Booked(b) ==
  IF At(b, "book") THEN hold[b] \ {arg[b]}
  ELSE IF At(b, "unbook") THEN hold[b] \cup {arg[b]}
  ELSE hold[b]

SizeOf(B) == MapThenSumSet(LAMBDA b : size[b], B)

\* What get_info would report as used in a domain is the memory the managers
\* count there plus every buffer object alloc_end ever saw there, dead or
\* alive: bookings, moves and destructions interleaved, no other drift.
UsageLaw ==
  ~Shutdown =>
    \A d \in Domain :
      ctr[<<"allocated", d>>] - ctr[<<"freed", d>>]
        = SizeOf({b \in Bo : d \in Booked(b)}) + SizeOf({b \in Bo : d \in born[b]})

\* The pair of a domain that get_info goes on with belongs to one moment, the
\* one at which it read the second counter, however many allocations and
\* releases ran meanwhile: the counters only grow, so the loop suffices.
PastLoop(r, d) ==
  \/ RAt(r, "perf")
  \/ rpc[r] \in {"allocated", "freed", "again"} /\ d = "VRAM" /\ rd[r] = "TT"

SnapshotWasTrue ==
  \A r \in Reader, d \in Domain :
    PastLoop(r, d) => seen[r][<<"allocated", d>>] = there[r][d]

\* The average times of allocations and deallocations cover every operation
\* they are divided by: writers add the time before the count and get_info
\* reads the count before the time.  (For moves it reads them the other way.)
AverageCoversCounted ==
  \A r \in Reader, k \in {"alloc", "dealloc"} :
    RAt(r, "perf") /\ ri[r] = Len(PerfReads)
      => seen[r][<<"time", k>>] >= seen[r][<<"count", k>>]
=============================================================================
