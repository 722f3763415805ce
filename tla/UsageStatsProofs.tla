--------------------------- MODULE UsageStatsProofs ---------------------------
(***************************************************************************)
(* Theorems about UsageStats, for every set of buffer objects and readers  *)
(* and all sizes.                                                          *)
(*                                                                         *)
(* What carries them is that no counter ever decreases (CountersGrow): a   *)
(* value read earlier is at most the value at any later moment.  SeenInv   *)
(* says so of the locals of get_info, SnapInv of the pair it is about to   *)
(* compare, and CountInv relates the time counter to the number of the     *)
(* writers that are between their two additions.                           *)
(*                                                                         *)
(* UsageLaw is about sums: LifeInv tells which resources a buffer object   *)
(* has from where it is in its life, so that a step moves the net usage of *)
(* a domain by what it does to the booking of one buffer object (Moves),   *)
(* and SumMove says that the two sums move by the same.                    *)
(***************************************************************************)
EXTENDS UsageStats, SumTheorems

Usage(d) == <<"allocated", d>>

LEMMA Cells ==
  /\ \A d \in Domain : <<"allocated", d>> \in Cell /\ <<"freed", d>> \in Cell
  /\ \A k \in Kind : <<"time", k>> \in Cell /\ <<"count", k>> \in Cell
  BY DEF Cell

LEMMA ReadOrder ==
  /\ Len(PerfReads) = 6
  /\ \A i \in 1 .. 6 : PerfReads[i] \in {"time", "count"} \X Kind
  /\ PerfReads[1] = <<"count", "alloc">> /\ PerfReads[2] = <<"count", "dealloc">>
  /\ PerfReads[3] = <<"time", "alloc">>  /\ PerfReads[4] = <<"time", "dealloc">>
  /\ PerfReads[5] = <<"time", "move">>   /\ PerfReads[6] = <<"count", "move">>
  BY DEF PerfReads, Kind

-----------------------------------------------------------------------------
(* Types *)

LEMMA AddType ==
  ASSUME ctr \in [Cell -> Nat], NEW c \in Cell, NEW n \in Nat, Add(c, n)
  PROVE  /\ ctr' \in [Cell -> Nat]
         /\ ctr'[c] = ctr[c] + n
         /\ \A x \in Cell \ {c} : ctr'[x] = ctr[x]
  BY DEF Add

\* A step of a buffer object adds to one counter or to none.
LEMMA BoCounts ==
  ASSUME TypeOK, NEW b \in Bo, BoStep(b)
  PROVE  ctr' = ctr \/ \E c \in Cell, n \in Nat : Add(c, n)
  <1>1. size[b] \in Nat /\ arg[b] \in Domain /\ hold[b] \in SUBSET Domain
    BY UsageAssumption DEF TypeOK
  <1>2. CASE \/ Create(b) \/ Move(b) \/ Copy(b) \/ CopyFails(b) \/ Moved(b)
             \/ Release(b) \/ Destroy(b)
    BY <1>2 DEF Create, Move, Copy, CopyFails, Moved, Release, Destroy
  <1>3. CASE Book(b)
    BY <1>1, <1>3, Cells DEF Book, UpdateUsage
  <1>4. CASE Unbook(b)
    BY <1>1, <1>4, Cells DEF Unbook, UpdateUsage
  <1>5. CASE AllocEndTime(b) \/ AllocEndCount(b)
    BY <1>5, Cells DEF AllocEndTime, AllocEndCount, Kind
  <1>6. CASE MoveEndTime(b) \/ MoveEndCount(b)
    BY <1>6, Cells DEF MoveEndTime, MoveEndCount, Kind
  <1>7. CASE FreeEndTime(b) \/ FreeEndCount(b)
    BY <1>7, Cells DEF FreeEndTime, FreeEndCount, Kind
  <1>8. CASE AllocEndUsage(b)
    BY <1>1, <1>8, Cells DEF AllocEndUsage
  <1>9. CASE FreeEndUsage(b)
    BY <1>1, <1>9, Cells DEF FreeEndUsage
  <1> QED BY <1>2, <1>3, <1>4, <1>5, <1>6, <1>7, <1>8, <1>9 DEF BoStep

\* No step ever decreases a counter.
LEMMA CountersGrow ==
  ASSUME TypeOK, [Next]_vars
  PROVE  /\ ctr' \in [Cell -> Nat]
         /\ \A c \in Cell : ctr[c] <= ctr'[c]
  <1>0. ctr \in [Cell -> Nat]
    BY DEF TypeOK
  <1>1. ASSUME NEW b \in Bo, BoStep(b)
        PROVE  ctr' = ctr \/ \E c \in Cell, n \in Nat : Add(c, n)
    BY <1>1, BoCounts
  <1>2. ASSUME NEW r \in Reader, ReaderStep(r) PROVE ctr' = ctr
    BY <1>2 DEF ReaderStep, GetInfo, ReadAllocated, ReadFreed, ReadAgain, ReadPerf
  <1>3. ctr' = ctr \/ \E c \in Cell, n \in Nat : Add(c, n)
    BY <1>1, <1>2 DEF Next, Shut, vars
  <1>4. ASSUME NEW c \in Cell, NEW n \in Nat, Add(c, n)
        PROVE  ctr' \in [Cell -> Nat] /\ \A x \in Cell : ctr[x] <= ctr'[x]
    BY <1>0, <1>4, AddType
  <1> QED BY <1>0, <1>3, <1>4

\* The variables of buffer objects.
BoType ==
  /\ pc \in [Bo -> Label] /\ size \in [Bo -> Size]
  /\ hold \in [Bo -> SUBSET Domain] /\ arg \in [Bo -> Domain]
  /\ born \in [Bo -> SUBSET Domain] /\ moves \in 0 .. MAX_MOVES

LEMMA TypeBo ==
  ASSUME TypeOK, NEW b \in Bo, BoStep(b)
  PROVE  BoType' /\ UNCHANGED <<device_state, readers>>
  <1>1. BoType /\ hold[b] \subseteq Domain /\ size[b] \in Size
    BY DEF TypeOK, BoType
  <1>2. UNCHANGED <<device_state, readers>>
    BY DEF BoStep, Create, Book, Unbook, AllocEndTime, AllocEndCount, AllocEndUsage,
           Move, Copy, CopyFails, MoveEndTime, MoveEndCount, Moved, Release,
           Destroy, FreeEndTime, FreeEndCount, FreeEndUsage
  <1>3. /\ \E l \in Label : Goto(b, l)
        /\ size' = size
    BY DEF BoStep, Create, Book, Unbook, AllocEndTime, AllocEndCount, AllocEndUsage,
           Move, Copy, CopyFails, MoveEndTime, MoveEndCount, Moved, Release,
           Destroy, FreeEndTime, FreeEndCount, FreeEndUsage, Label
  <1>4. /\ hold' = hold \/ \E D \in SUBSET Domain : hold' = [hold EXCEPT ![b] = D]
        /\ arg' = arg \/ \E d \in Domain : arg' = [arg EXCEPT ![b] = d]
    BY <1>1
    DEF BoType, BoStep, Create, Book, Unbook, AllocEndTime, AllocEndCount,
        AllocEndUsage, Move, Copy, CopyFails, MoveEndTime, MoveEndCount, Moved,
        Release, Destroy, FreeEndTime, FreeEndCount, FreeEndUsage
  <1>5. born' = born \/ born' = [born EXCEPT ![b] = hold[b]]
    BY DEF BoStep, Create, Book, Unbook, AllocEndTime, AllocEndCount,
        AllocEndUsage, Move, Copy, CopyFails, MoveEndTime, MoveEndCount, Moved,
        Release, Destroy, FreeEndTime, FreeEndCount, FreeEndUsage
  <1>6. moves' = moves \/ (moves < MAX_MOVES /\ moves' = moves + 1)
    BY DEF BoStep, Create, Book, Unbook, AllocEndTime, AllocEndCount,
        AllocEndUsage, Move, Copy, CopyFails, MoveEndTime, MoveEndCount, Moved,
        Release, Destroy, FreeEndTime, FreeEndCount, FreeEndUsage
  <1>7. moves' \in 0 .. MAX_MOVES
    BY <1>1, <1>6, UsageAssumption DEF BoType
  <1>8. pc' \in [Bo -> Label]
    BY <1>1, <1>3 DEF BoType, Goto
  <1>9. hold' \in [Bo -> SUBSET Domain] /\ arg' \in [Bo -> Domain]
    BY <1>1, <1>4 DEF BoType
  <1>10. born' \in [Bo -> SUBSET Domain]
    BY <1>1, <1>5 DEF BoType
  <1> QED BY <1>1, <1>2, <1>3, <1>7, <1>8, <1>9, <1>10 DEF BoType

ReaderLabel == {"idle", "allocated", "freed", "again", "perf"}

ReaderType ==
  /\ rpc \in [Reader -> ReaderLabel] /\ rd \in [Reader -> Domain]
  /\ ri \in [Reader -> 1 .. 6]
  /\ seen \in [Reader -> [Cell -> Nat]] /\ there \in [Reader -> [Domain -> Nat]]

LEMMA TypeReader ==
  ASSUME TypeOK, NEW r \in Reader, ReaderStep(r)
  PROVE  ReaderType' /\ UNCHANGED <<device_state, ctr, bos>>
  <1>1. ReaderType /\ ctr \in [Cell -> Nat] /\ rd[r] \in Domain /\ ri[r] \in 1 .. 6
    BY ReadOrder DEF TypeOK, ReaderType, ReaderLabel
  <1>2. CASE GetInfo(r)
    BY <1>1, <1>2 DEF GetInfo, RGoto, ReaderType, ReaderLabel, Domain
  <1>3. CASE ReadAllocated(r)
    BY <1>1, <1>3, Cells DEF ReadAllocated, See, RGoto, ReaderType, ReaderLabel
  <1>4. CASE ReadFreed(r)
    BY <1>1, <1>4, Cells DEF ReadFreed, See, RGoto, ReaderType, ReaderLabel
  <1>5. CASE ReadAgain(r)
    BY <1>1, <1>5 DEF ReadAgain, RGoto, ReaderType, ReaderLabel, Domain
  <1>6. CASE ReadPerf(r)
    <2>1. UNCHANGED <<device_state, ctr, bos, rd>>
      BY <1>6 DEF ReadPerf
    <2>2. CASE ri[r] = Len(PerfReads)
      <3>1. Unread \in [Cell -> Nat] /\ [d \in Domain |-> 0] \in [Domain -> Nat]
        BY DEF Unread
      <3>2. /\ rpc' = [rpc EXCEPT ![r] = "idle"] /\ ri' = ri
            /\ seen' = [seen EXCEPT ![r] = Unread]
            /\ there' = [there EXCEPT ![r] = [d \in Domain |-> 0]]
        BY <1>6, <2>2 DEF ReadPerf, Forget, RGoto
      <3>3. /\ seen' \in [Reader -> [Cell -> Nat]]
            /\ there' \in [Reader -> [Domain -> Nat]]
        BY <1>1, <3>1, <3>2 DEF ReaderType
      <3>4. rpc' \in [Reader -> ReaderLabel] /\ ri' \in [Reader -> 1 .. 6]
        BY <1>1, <3>2 DEF ReaderType, ReaderLabel
      <3> QED BY <1>1, <2>1, <3>3, <3>4 DEF ReaderType
    <2>3. CASE ri[r] # Len(PerfReads)
      <3> DEFINE c == PerfReads[ri[r]]
      <3>1. ri[r] + 1 \in 1 .. 6 /\ c \in Cell
        BY <1>1, <2>3, ReadOrder DEF Cell
      <3>2. /\ seen' = [seen EXCEPT ![r][c] = ctr[c]]
            /\ ri' = [ri EXCEPT ![r] = ri[r] + 1]
            /\ UNCHANGED <<rpc, there>>
        BY <1>6, <2>3 DEF ReadPerf, See
      <3> HIDE DEF c
      <3>3. seen' \in [Reader -> [Cell -> Nat]] /\ ri' \in [Reader -> 1 .. 6]
        BY <1>1, <3>1, <3>2 DEF ReaderType
      <3> QED BY <1>1, <2>1, <3>2, <3>3 DEF ReaderType
    <2> QED BY <2>2, <2>3
  <1> QED BY <1>2, <1>3, <1>4, <1>5, <1>6 DEF ReaderStep

LEMMA TypeInit == Init => TypeOK
  BY ReadOrder, UsageAssumption
  DEF Init, TypeOK, Unread, Label, Domain

LEMMA TypeStep == TypeOK /\ [Next]_vars => TypeOK'
  <1> SUFFICES ASSUME TypeOK, [Next]_vars PROVE TypeOK'
    OBVIOUS
  <1>1. ctr' \in [Cell -> Nat]
    BY CountersGrow
  <1>2. ASSUME NEW b \in Bo, BoStep(b) PROVE TypeOK'
    BY <1>1, <1>2, TypeBo DEF TypeOK, BoType, readers
  <1>3. ASSUME NEW r \in Reader, ReaderStep(r) PROVE TypeOK'
    BY <1>1, <1>3, TypeReader, ReadOrder
    DEF TypeOK, ReaderType, ReaderLabel, bos
  <1>4. CASE Shut
    BY <1>4 DEF Shut, TypeOK, bos, readers
  <1>5. CASE UNCHANGED vars
    BY <1>5 DEF vars, TypeOK, bos, readers
  <1> QED BY <1>2, <1>3, <1>4, <1>5 DEF Next

\* Every variable keeps its type, the counters their range.
THEOREM TypeCorrect == Spec => []TypeOK
  BY TypeInit, TypeStep, PTL DEF Spec

-----------------------------------------------------------------------------
(* What get_info has read *)

\* A value read is at most the counter's value now.
SeenInv ==
  \A r \in Reader :
    /\ \A c \in Cell : seen[r][c] <= ctr[c]
    /\ \A d \in Domain : there[r][d] <= ctr[Usage(d)]

\* Between the second and the third read the pair is in order; behind the loop
\* it is of one moment.
SnapInv ==
  \A r \in Reader :
    /\ rpc[r] = "again" => seen[r][Usage(rd[r])] <= there[r][rd[r]]
    /\ rpc[r] = "perf" => rd[r] = "TT"

ReadInv == TypeOK /\ SeenInv /\ SnapInv /\ SnapshotWasTrue

LEMMA ReadInit == Init => ReadInv
  <1> SUFFICES ASSUME Init PROVE ReadInv
    OBVIOUS
  <1>1. \A d \in Domain : Usage(d) \in Cell
    BY Cells DEF Usage
  <1>2. /\ \A c \in Cell : ctr[c] = 0
        /\ \A r \in Reader : rpc[r] = "idle"
        /\ \A r \in Reader, c \in Cell : seen[r][c] = 0
        /\ \A r \in Reader, d \in Domain : there[r][d] = 0
    BY DEF Init, Unread
  <1>3. SeenInv
    BY <1>1, <1>2 DEF SeenInv
  <1>4. SnapInv /\ SnapshotWasTrue
    BY <1>2 DEF SnapInv, SnapshotWasTrue, PastLoop, RAt
  <1> QED BY <1>3, <1>4, TypeInit DEF ReadInv

LEMMA SeenStep ==
  ASSUME ReadInv, [Next]_vars
  PROVE  SeenInv'
  <1>1. TypeOK /\ TypeOK' /\ SeenInv
    BY TypeStep DEF ReadInv
  <1>2. \A c \in Cell : ctr[c] <= ctr'[c] /\ ctr[c] \in Nat /\ ctr'[c] \in Nat
    BY <1>1, CountersGrow DEF TypeOK
  <1>3. \A d \in Domain : Usage(d) \in Cell
    BY Cells DEF Usage
  <1>4. CASE UNCHANGED <<seen, there>>
    <2> SUFFICES ASSUME NEW r \in Reader
                 PROVE  /\ \A c \in Cell : seen[r][c] <= ctr'[c]
                        /\ \A d \in Domain : there[r][d] <= ctr'[Usage(d)]
      BY <1>4 DEF SeenInv
    <2>1. /\ \A c \in Cell : seen[r][c] \in Nat /\ seen[r][c] <= ctr[c]
          /\ \A d \in Domain : there[r][d] \in Nat /\ there[r][d] <= ctr[Usage(d)]
      BY <1>1 DEF TypeOK, SeenInv
    <2> QED BY <1>2, <1>3, <2>1
  <1>5. ASSUME NEW r \in Reader, ReadAllocated(r) \/ ReadFreed(r) \/ ReadPerf(r)
        PROVE  SeenInv'
    <2>1. ctr' = ctr
      BY <1>5 DEF ReadAllocated, ReadFreed, ReadPerf
    <2>2. /\ \/ seen' = [seen EXCEPT ![r] = Unread]
             \/ \E c \in Cell : seen' = [seen EXCEPT ![r][c] = ctr[c]]
          /\ \/ there' = there
             \/ there' = [there EXCEPT ![r] = [d \in Domain |-> 0]]
             \/ \E d \in Domain : there' = [there EXCEPT ![r][d] = ctr[Usage(d)]]
      <3>1. rd[r] \in Domain /\ <<"allocated", rd[r]>> \in Cell
            /\ <<"freed", rd[r]>> \in Cell
        BY <1>1, Cells DEF TypeOK
      <3>2. CASE ReadAllocated(r)
        BY <3>1, <3>2 DEF ReadAllocated, See
      <3>3. CASE ReadFreed(r)
        BY <3>1, <3>3 DEF ReadFreed, See, Usage
      <3>4. CASE ReadPerf(r)
        <4>1. ri[r] \in 1 .. 6
          BY <1>1, ReadOrder DEF TypeOK
        <4>2. PerfReads[ri[r]] \in Cell
          BY <4>1, ReadOrder DEF Cell
        <4> QED BY <3>4, <4>2 DEF ReadPerf, See, Forget
      <3> QED BY <1>5, <3>2, <3>3, <3>4
    <2>3. ASSUME NEW q \in Reader, NEW c \in Cell PROVE seen'[q][c] <= ctr[c]
      <3>1. /\ seen \in [Reader -> [Cell -> Nat]] /\ seen[q][c] <= ctr[c]
            /\ ctr[c] \in Nat /\ Unread[c] = 0
        BY <1>1, <1>2 DEF TypeOK, SeenInv, Unread
      <3>2. seen'[q][c] \in {seen[q][c], ctr[c], Unread[c]}
        BY <2>2, <3>1
      <3> QED BY <3>1, <3>2
    <2>4. ASSUME NEW q \in Reader, NEW d \in Domain
          PROVE  there'[q][d] <= ctr[Usage(d)]
      <3>1. /\ there \in [Reader -> [Domain -> Nat]] /\ there[q][d] <= ctr[Usage(d)]
            /\ ctr[Usage(d)] \in Nat
        BY <1>1, <1>2, <1>3 DEF TypeOK, SeenInv
      <3>2. there'[q][d] \in {there[q][d], ctr[Usage(d)], 0}
        BY <2>2, <3>1
      <3> QED BY <3>1, <3>2
    <2> QED BY <2>1, <2>3, <2>4 DEF SeenInv
  <1>6. UNCHANGED <<seen, there>>
          \/ \E r \in Reader : ReadAllocated(r) \/ ReadFreed(r) \/ ReadPerf(r)
    <2>1. ASSUME NEW b \in Bo, BoStep(b) PROVE UNCHANGED <<seen, there>>
      BY <1>1, <2>1, TypeBo DEF readers
    <2> QED BY <2>1
      DEF Next, Shut, vars, readers, ReaderStep, GetInfo, ReadAgain
  <1> QED BY <1>4, <1>5, <1>6

LEMMA SnapStep ==
  ASSUME ReadInv, [Next]_vars
  PROVE  SnapInv' /\ SnapshotWasTrue'
  <1>1. TypeOK /\ TypeOK' /\ SeenInv /\ SnapInv /\ SnapshotWasTrue
    BY TypeStep DEF ReadInv
  <1>2. \A d \in Domain : Usage(d) \in Cell
    BY Cells DEF Usage
  <1>3. CASE UNCHANGED <<rpc, rd, seen, there>>
    BY <1>1, <1>3 DEF SnapInv, SnapshotWasTrue, PastLoop, RAt
  <1>4. ASSUME NEW r \in Reader, ReaderStep(r) PROVE SnapInv' /\ SnapshotWasTrue'
    <2> DEFINE Others == \A q \in Reader \ {r} :
          /\ rpc'[q] = rpc[q] /\ rd'[q] = rd[q]
          /\ seen'[q] = seen[q] /\ there'[q] = there[q]
    <2> DEFINE Here ==
          /\ rpc'[r] = "again" => seen'[r][Usage(rd'[r])] <= there'[r][rd'[r]]
          /\ rpc'[r] = "perf" => rd'[r] = "TT"
          /\ \A d \in Domain :
               \/ rpc'[r] = "perf"
               \/ rpc'[r] \in {"allocated", "freed", "again"} /\ d = "VRAM" /\ rd'[r] = "TT"
               => seen'[r][<<"allocated", d>>] = there'[r][d]
    <2>1. SUFFICES Others /\ Here
      <3>1. ASSUME NEW q \in Reader \ {r}
            PROVE  /\ rpc'[q] = "again" => seen'[q][Usage(rd'[q])] <= there'[q][rd'[q]]
                   /\ rpc'[q] = "perf" => rd'[q] = "TT"
                   /\ \A d \in Domain :
                        PastLoop(q, d)' => seen'[q][<<"allocated", d>>] = there'[q][d]
        BY <1>1, <2>1, <3>1 DEF SnapInv, SnapshotWasTrue, PastLoop, RAt
      <3> QED BY <2>1, <3>1 DEF SnapInv, SnapshotWasTrue, PastLoop, RAt
    <2>2. /\ rpc \in [Reader -> ReaderLabel] /\ rd \in [Reader -> Domain]
          /\ ri \in [Reader -> 1 .. 6] /\ ctr \in [Cell -> Nat]
          /\ seen \in [Reader -> [Cell -> Nat]]
          /\ there \in [Reader -> [Domain -> Nat]]
          /\ rd[r] \in Domain
      BY <1>1, ReadOrder DEF TypeOK, ReaderLabel
    <2>3. /\ <<"allocated", rd[r]>> \in Cell /\ <<"freed", rd[r]>> \in Cell
          /\ \A d \in Domain : <<"allocated", d>> # <<"freed", rd[r]>>
          /\ <<"allocated", "VRAM">> \in Cell /\ <<"allocated", "TT">> \in Cell
          /\ <<"allocated", "VRAM">> # <<"allocated", "TT">>
      BY <2>2, Cells DEF Domain
    <2>4. CASE GetInfo(r)
      BY <2>2, <2>4 DEF GetInfo, RGoto, Domain
    <2>5. CASE ReadAllocated(r)
      <3>1. /\ rpc' = [rpc EXCEPT ![r] = "freed"] /\ rd' = rd /\ there' = there
            /\ seen' = [seen EXCEPT ![r][<<"allocated", rd[r]>>]
                                    = ctr[<<"allocated", rd[r]>>]]
            /\ rpc[r] = "allocated"
        BY <2>5 DEF ReadAllocated, See, RGoto, RAt
      <3>2. rd[r] = "TT" => seen[r][<<"allocated", "VRAM">>] = there[r]["VRAM"]
        BY <1>1, <3>1 DEF SnapshotWasTrue, PastLoop, RAt, Domain
      <3>3. Others
        BY <2>2, <3>1
      <3>4. rpc'[r] = "freed" /\ rd'[r] = rd[r] /\ there'[r] = there[r]
        BY <2>2, <3>1
      <3>5. rd[r] = "TT" => seen'[r][<<"allocated", "VRAM">>] = there'[r]["VRAM"]
        BY <2>2, <2>3, <3>1, <3>2, <3>4
      <3> QED BY <3>3, <3>4, <3>5 DEF Domain
    <2>6. CASE ReadFreed(r)
      <3>1. /\ rpc' = [rpc EXCEPT ![r] = "again"] /\ rd' = rd
            /\ there' = [there EXCEPT ![r][rd[r]] = ctr[<<"allocated", rd[r]>>]]
            /\ seen' = [seen EXCEPT ![r][<<"freed", rd[r]>>]
                                    = ctr[<<"freed", rd[r]>>]]
            /\ rpc[r] = "freed"
        BY <2>6 DEF ReadFreed, See, RGoto, RAt
      <3>2. rd[r] = "TT" => seen[r][<<"allocated", "VRAM">>] = there[r]["VRAM"]
        BY <1>1, <3>1 DEF SnapshotWasTrue, PastLoop, RAt, Domain
      <3>3. \A d \in Domain : seen'[r][<<"allocated", d>>] = seen[r][<<"allocated", d>>]
        BY <2>2, <2>3, <3>1
      <3>4. /\ there'[r][rd[r]] = ctr[<<"allocated", rd[r]>>]
            /\ rd[r] = "TT" => there'[r]["VRAM"] = there[r]["VRAM"]
        BY <2>2, <3>1 DEF Domain
      <3>5. seen[r][<<"allocated", rd[r]>>] <= ctr[<<"allocated", rd[r]>>]
        BY <1>1, <2>3 DEF SeenInv
      <3>6. Others
        BY <2>2, <3>1
      <3>7. rpc'[r] = "again" /\ rd'[r] = rd[r]
        BY <2>2, <3>1
      <3> QED BY <2>2, <2>3, <3>2, <3>3, <3>4, <3>5, <3>6, <3>7 DEF Domain, Usage
    <2>7. CASE ReadAgain(r)
      <3>1. rpc[r] = "again" /\ seen' = seen /\ there' = there
        BY <2>7 DEF ReadAgain, RAt
      <3>2. /\ seen[r][<<"allocated", rd[r]>>] <= there[r][rd[r]]
            /\ there[r][rd[r]] <= ctr[<<"allocated", rd[r]>>]
            /\ rd[r] = "TT" => seen[r][<<"allocated", "VRAM">>] = there[r]["VRAM"]
        BY <1>1, <2>2, <3>1
        DEF SeenInv, SnapInv, SnapshotWasTrue, PastLoop, RAt, Usage, Domain
      <3>3. Stable(r) => seen[r][<<"allocated", rd[r]>>] = there[r][rd[r]]
        <4>1. /\ seen[r][<<"allocated", rd[r]>>] \in Nat /\ there[r][rd[r]] \in Nat
              /\ ctr[<<"allocated", rd[r]>>] \in Nat
          BY <2>2, <2>3
        <4> QED BY <3>2, <4>1 DEF Stable
      <3>4. Others
        BY <2>2, <2>7 DEF ReadAgain, RGoto
      <3>5. \/ ~Stable(r) /\ rpc'[r] = "allocated" /\ rd'[r] = rd[r]
            \/ Stable(r) /\ rd[r] = "VRAM" /\ rpc'[r] = "allocated" /\ rd'[r] = "TT"
            \/ Stable(r) /\ rd[r] = "TT" /\ rpc'[r] = "perf" /\ rd'[r] = rd[r]
        BY <2>2, <2>7 DEF ReadAgain, RGoto, Domain
      <3> QED BY <3>1, <3>2, <3>3, <3>4, <3>5 DEF Domain
    <2>8. CASE ReadPerf(r)
      <3>1. rpc[r] = "perf" /\ rd' = rd
        BY <2>8 DEF ReadPerf, RAt
      <3>2. CASE ri[r] = Len(PerfReads)
        BY <2>2, <2>8, <3>1, <3>2 DEF ReadPerf, RGoto, Forget
      <3>3. CASE ri[r] # Len(PerfReads)
        <4> DEFINE c == PerfReads[ri[r]]
        <4>1. c \in Cell /\ \A d \in Domain : c # <<"allocated", d>>
          BY <2>2, ReadOrder DEF Cell
        <4>2. seen' = [seen EXCEPT ![r][c] = ctr[c]] /\ UNCHANGED <<rpc, there>>
          BY <2>8, <3>3 DEF ReadPerf, See
        <4> HIDE DEF c
        <4>3. Others
          BY <2>2, <3>1, <4>2
        <4>4. \A d \in Domain : seen'[r][<<"allocated", d>>] = seen[r][<<"allocated", d>>]
          BY <2>2, <4>1, <4>2, Cells
        <4>5. \A d \in Domain : seen[r][<<"allocated", d>>] = there[r][d]
          BY <1>1, <3>1 DEF SnapshotWasTrue, PastLoop, RAt
        <4> QED BY <1>1, <3>1, <4>2, <4>3, <4>4, <4>5 DEF SnapInv
      <3> QED BY <3>2, <3>3
    <2> QED BY <1>4, <2>4, <2>5, <2>6, <2>7, <2>8 DEF ReaderStep
  <1>5. UNCHANGED <<rpc, rd, seen, there>> \/ \E r \in Reader : ReaderStep(r)
    <2>1. ASSUME NEW b \in Bo, BoStep(b) PROVE UNCHANGED <<rpc, rd, seen, there>>
      BY <1>1, <2>1, TypeBo DEF readers
    <2> QED BY <2>1 DEF Next, Shut, vars, readers
  <1> QED BY <1>3, <1>4, <1>5

LEMMA ReadStep == ReadInv /\ [Next]_vars => ReadInv'
  BY TypeStep, SeenStep, SnapStep DEF ReadInv

\* Every pair of counters get_info goes on with was true at one moment, for any
\* number of readers and of buffer objects that come and go meanwhile.
THEOREM SnapshotTrue == Spec => []SnapshotWasTrue
  <1>1. ReadInv => SnapshotWasTrue
    BY DEF ReadInv
  <1> QED BY <1>1, ReadInit, ReadStep, PTL DEF Spec

-----------------------------------------------------------------------------
(* Times and numbers of operations *)

Timed == {"alloc", "dealloc"}

\* The buffer objects whose operation has its time added, not yet its number.
Between(k) == {b \in Bo : pc[b] = IF k = "alloc" THEN "end_count" ELSE "free_count"}

CountInv ==
  \A k \in Timed : ctr[<<"time", k>>] = ctr[<<"count", k>>] + Cardinality(Between(k))

\* get_info has come past the times: they cover the numbers it read before.
AverageInv ==
  \A r \in Reader : rpc[r] = "perf" =>
    /\ ri[r] > 3 => seen[r][<<"time", "alloc">>] >= seen[r][<<"count", "alloc">>]
    /\ ri[r] > 4 => seen[r][<<"time", "dealloc">>] >= seen[r][<<"count", "dealloc">>]

\* It begins with the first of them.
FirstInv == \A r \in Reader : rpc[r] \in {"allocated", "freed", "again"} => ri[r] = 1

TimeInv == ReadInv /\ CountInv /\ FirstInv /\ AverageInv

LEMMA FewBetween ==
  ASSUME NEW k
  PROVE  IsFiniteSet(Between(k)) /\ Cardinality(Between(k)) \in Nat
  <1>1. Between(k) \subseteq Bo
    BY DEF Between
  <1> QED BY <1>1, UsageAssumption, FS_Subset, FS_CardinalityType

LEMMA TimeInit == Init => TimeInv
  <1> SUFFICES ASSUME Init PROVE TimeInv
    OBVIOUS
  <1>1. \A k \in Timed : Between(k) = {}
    BY DEF Init, Between
  <1>2. \A k \in Timed : ctr[<<"time", k>>] = 0 /\ ctr[<<"count", k>>] = 0
    BY Cells DEF Init, Timed, Kind
  <1>3. CountInv
    <2>1. Cardinality({}) = 0
      BY FS_EmptySet
    <2> SUFFICES ASSUME NEW k \in Timed
                 PROVE  ctr[<<"time", k>>] = ctr[<<"count", k>>] + Cardinality(Between(k))
      BY Zenon DEF CountInv
    <2>2. Cardinality(Between(k)) = 0
      BY <1>1, <2>1, Zenon
    <2> QED BY <1>2, <2>2
  <1>4. FirstInv /\ AverageInv
    BY DEF Init, FirstInv, AverageInv
  <1> QED BY <1>3, <1>4, ReadInit DEF TimeInv

\* A step that neither touches the two counters nor who is between them.
LEMMA CountSame ==
  ASSUME CountInv, NEW k \in Timed,
         ctr'[<<"time", k>>] = ctr[<<"time", k>>],
         ctr'[<<"count", k>>] = ctr[<<"count", k>>],
         Between(k)' = Between(k)
  PROVE  ctr'[<<"time", k>>] = ctr'[<<"count", k>>] + Cardinality(Between(k)')
  BY DEF CountInv

\* A timed operation adds its time ...
LEMMA CountBegins ==
  ASSUME TypeOK, CountInv, NEW k \in Timed, NEW b \in Bo \ Between(k),
         Add(<<"time", k>>, 1), Between(k)' = Between(k) \cup {b}
  PROVE  ctr'[<<"time", k>>] = ctr'[<<"count", k>>] + Cardinality(Between(k)')
  <1>1. /\ <<"time", k>> \in Cell /\ <<"count", k>> \in Cell
        /\ <<"time", k>> # <<"count", k>> /\ ctr \in [Cell -> Nat]
    BY Cells DEF TypeOK, Timed, Kind
  <1>2. ctr'[<<"time", k>>] = ctr[<<"time", k>>] + 1
        /\ ctr'[<<"count", k>>] = ctr[<<"count", k>>]
    BY <1>1, AddType
  <1>3. Cardinality(Between(k)') = Cardinality(Between(k)) + 1
    BY FewBetween, FS_AddElement
  <1> QED BY <1>1, <1>2, <1>3, FewBetween DEF CountInv

\* ... and then itself.
LEMMA CountEnds ==
  ASSUME TypeOK, CountInv, NEW k \in Timed, NEW b \in Between(k),
         Add(<<"count", k>>, 1), Between(k)' = Between(k) \ {b}
  PROVE  ctr'[<<"time", k>>] = ctr'[<<"count", k>>] + Cardinality(Between(k)')
  <1>1. /\ <<"time", k>> \in Cell /\ <<"count", k>> \in Cell
        /\ <<"time", k>> # <<"count", k>> /\ ctr \in [Cell -> Nat]
    BY Cells DEF TypeOK, Timed, Kind
  <1>2. ctr'[<<"time", k>>] = ctr[<<"time", k>>]
        /\ ctr'[<<"count", k>>] = ctr[<<"count", k>>] + 1
    BY <1>1, AddType
  <1>3. Cardinality(Between(k)') = Cardinality(Between(k)) - 1
    BY FewBetween, FS_RemoveElement
  <1> QED BY <1>1, <1>2, <1>3, FewBetween DEF CountInv

LEMMA CountStep ==
  ASSUME TypeOK, CountInv, [Next]_vars
  PROVE  CountInv'
  <1> SUFFICES ASSUME NEW k \in Timed
               PROVE  ctr'[<<"time", k>>]
                        = ctr'[<<"count", k>>] + Cardinality(Between(k)')
    BY DEF CountInv
  <1>0. /\ pc \in [Bo -> Label] /\ ctr \in [Cell -> Nat]
        /\ <<"time", k>> \in Cell /\ <<"count", k>> \in Cell
        /\ k \in Kind
    BY Cells DEF TypeOK, Timed, Kind
  <1>1. CASE UNCHANGED <<ctr, pc>>
    BY <1>1, CountSame DEF Between
  <1>2. ASSUME NEW b \in Bo, BoStep(b)
        PROVE  ctr'[<<"time", k>>]
                 = ctr'[<<"count", k>>] + Cardinality(Between(k)')
    <2> DEFINE Place == IF k = "alloc" THEN "end_count" ELSE "free_count"
               Apart(l) == pc' = [pc EXCEPT ![b] = l] /\ pc[b] # Place /\ l # Place
               Quiet == \A x \in {<<"time", k>>, <<"count", k>>} : ctr'[x] = ctr[x]
    <2>1. ASSUME NEW l, Apart(l), Quiet
          PROVE  ctr'[<<"time", k>>]
                   = ctr'[<<"count", k>>] + Cardinality(Between(k)')
      <3>1. Between(k)' = Between(k)
        BY <1>0, <2>1 DEF Between
      <3> QED BY <2>1, <3>1, CountSame
    <2>2. ASSUME NEW c \in Cell, NEW n \in Nat, Add(c, n),
                 c \notin {<<"time", k>>, <<"count", k>>}
          PROVE  Quiet
      BY <1>0, <2>2, AddType
    <2>3. size[b] \in Nat /\ arg[b] \in Domain /\ hold[b] \in SUBSET Domain
      BY UsageAssumption DEF TypeOK
    <2>4. /\ \A d \in Domain : /\ <<"allocated", d>> \in Cell
                              /\ <<"freed", d>> \in Cell
                              /\ <<"allocated", d>> \notin {<<"time", k>>, <<"count", k>>}
                              /\ <<"freed", d>> \notin {<<"time", k>>, <<"count", k>>}
          /\ \A j \in Kind \ {k} :
               /\ <<"time", j>> \in Cell /\ <<"count", j>> \in Cell
               /\ <<"time", j>> \notin {<<"time", k>>, <<"count", k>>}
               /\ <<"count", j>> \notin {<<"time", k>>, <<"count", k>>}
      BY Cells
    <2>5. CASE Create(b) \/ Move(b) \/ Copy(b) \/ CopyFails(b) \/ Moved(b)
               \/ Release(b) \/ Destroy(b)
      <3>1. Quiet
        BY <2>5 DEF Create, Move, Copy, CopyFails, Moved, Release, Destroy
      <3>2. \E l \in Label : Apart(l)
        BY <2>5
        DEF Create, Move, Copy, CopyFails, Moved, Release, Destroy, At, Goto, Label
      <3> QED BY <2>1, <3>1, <3>2
    <2>6. CASE Book(b) \/ Unbook(b)
      <3>1. Quiet
        <4>1. Shutdown => Quiet
          BY <2>6 DEF Book, Unbook, UpdateUsage
        <4>2. ~Shutdown => \/ Add(<<"allocated", arg[b]>>, size[b])
                           \/ Add(<<"freed", arg[b]>>, size[b])
          BY <2>6 DEF Book, Unbook, UpdateUsage
        <4> QED BY <2>2, <2>3, <2>4, <4>1, <4>2
      <3>2. \E l \in Label : Apart(l)
        BY <2>6 DEF Book, Unbook, At, Goto, Label
      <3> QED BY <2>1, <3>1, <3>2
    <2>7. CASE AllocEndUsage(b) \/ FreeEndUsage(b)
      <3>1. Quiet
        <4>1. \/ ctr' = ctr
              \/ \E d \in hold[b] : \/ Add(<<"allocated", d>>, size[b])
                                    \/ Add(<<"freed", d>>, size[b])
          BY <2>7 DEF AllocEndUsage, FreeEndUsage
        <4> QED BY <2>2, <2>3, <2>4, <4>1
      <3>2. \E l \in Label : Apart(l)
        BY <2>7 DEF AllocEndUsage, FreeEndUsage, At, Goto, Label
      <3> QED BY <2>1, <3>1, <3>2
    <2>8. CASE MoveEndTime(b) \/ MoveEndCount(b)
      <3>1. Quiet
        <4>1. ctr' = ctr \/ Add(<<"time", "move">>, 1) \/ Add(<<"count", "move">>, 1)
          BY <2>8 DEF MoveEndTime, MoveEndCount
        <4>2. "move" \in Kind \ {k}
          BY DEF Timed, Kind
        <4> QED BY <2>2, <2>4, <4>1, <4>2
      <3>2. \E l \in Label : Apart(l)
        BY <2>8 DEF MoveEndTime, MoveEndCount, At, Goto, Label
      <3> QED BY <2>1, <3>1, <3>2
    <2>9. ASSUME NEW j \in Timed,
                 \/ j = "alloc" /\ AllocEndTime(b)
                 \/ j = "dealloc" /\ FreeEndTime(b)
          PROVE  ctr'[<<"time", k>>]
                   = ctr'[<<"count", k>>] + Cardinality(Between(k)')
      <3>1. CASE Shutdown
        <4>1. Quiet
          BY <2>9, <3>1 DEF AllocEndTime, FreeEndTime
        <4>2. \E l \in Label : Apart(l)
          BY <2>9, <3>1 DEF AllocEndTime, FreeEndTime, At, Goto, Label
        <4> QED BY <2>1, <4>1, <4>2
      <3>2. CASE ~Shutdown /\ j = k
        <4>1. /\ Add(<<"time", k>>, 1) /\ pc' = [pc EXCEPT ![b] = Place]
              /\ pc[b] # Place
          BY <2>9, <3>2 DEF AllocEndTime, FreeEndTime, At, Goto
        <4>2. b \in Bo \ Between(k) /\ Between(k)' = Between(k) \cup {b}
          BY <1>0, <4>1 DEF Between
        <4> QED BY <4>1, <4>2, CountBegins
      <3>3. CASE ~Shutdown /\ j # k
        <4>1. Add(<<"time", j>>, 1) /\ j \in Kind \ {k}
          BY <2>9, <3>3 DEF AllocEndTime, FreeEndTime, Timed, Kind
        <4>2. \E l \in Label : Apart(l)
          BY <2>9, <3>3 DEF AllocEndTime, FreeEndTime, At, Goto, Label, Timed
        <4> QED BY <2>1, <2>2, <2>4, <4>1, <4>2
      <3> QED BY <3>1, <3>2, <3>3
    <2>10. ASSUME NEW j \in Timed,
                  \/ j = "alloc" /\ AllocEndCount(b)
                  \/ j = "dealloc" /\ FreeEndCount(b)
           PROVE  ctr'[<<"time", k>>]
                    = ctr'[<<"count", k>>] + Cardinality(Between(k)')
      <3>1. CASE j = k
        <4>1. /\ Add(<<"count", k>>, 1) /\ pc[b] = Place
              /\ \E l \in Label \ {Place} : pc' = [pc EXCEPT ![b] = l]
          BY <2>10, <3>1 DEF AllocEndCount, FreeEndCount, At, Goto, Label
        <4>2. b \in Between(k) /\ Between(k)' = Between(k) \ {b}
          BY <1>0, <4>1 DEF Between
        <4> QED BY <4>1, <4>2, CountEnds
      <3>2. CASE j # k
        <4>1. Add(<<"count", j>>, 1) /\ j \in Kind \ {k}
          BY <2>10, <3>2 DEF AllocEndCount, FreeEndCount, Timed, Kind
        <4>2. \E l \in Label : Apart(l)
          BY <2>10, <3>2 DEF AllocEndCount, FreeEndCount, At, Goto, Label, Timed
        <4> QED BY <2>1, <2>2, <2>4, <4>1, <4>2
      <3> QED BY <3>1, <3>2
    <2> QED BY <1>2, <2>5, <2>6, <2>7, <2>8, <2>9, <2>10 DEF BoStep, Timed
  <1>3. UNCHANGED <<ctr, pc>> \/ \E b \in Bo : BoStep(b)
    <2>1. ASSUME NEW r \in Reader, ReaderStep(r) PROVE UNCHANGED <<ctr, pc>>
      BY <2>1, TypeReader DEF bos
    <2> QED BY <2>1 DEF Next, Shut, vars, bos
  <1> QED BY <1>1, <1>2, <1>3

LEMMA AverageStep ==
  ASSUME TimeInv, [Next]_vars
  PROVE  FirstInv' /\ AverageInv'
  <1>1. TypeOK /\ SeenInv /\ CountInv /\ FirstInv /\ AverageInv
    BY DEF TimeInv, ReadInv
  <1>2. CASE UNCHANGED <<rpc, ri, seen>>
    BY <1>1, <1>2 DEF FirstInv, AverageInv
  <1>3. ASSUME NEW r \in Reader, ReaderStep(r) PROVE FirstInv' /\ AverageInv'
    <2> DEFINE Others == \A q \in Reader \ {r} :
                 rpc'[q] = rpc[q] /\ ri'[q] = ri[q] /\ seen'[q] = seen[q]
               First == rpc'[r] \in {"allocated", "freed", "again"} => ri'[r] = 1
               Covered == rpc'[r] = "perf" =>
                 /\ ri'[r] > 3 => seen'[r][<<"time", "alloc">>]
                                    >= seen'[r][<<"count", "alloc">>]
                 /\ ri'[r] > 4 => seen'[r][<<"time", "dealloc">>]
                                    >= seen'[r][<<"count", "dealloc">>]
    <2>1. SUFFICES Others /\ First /\ Covered
      <3>1. ASSUME NEW q \in Reader \ {r}
            PROVE  /\ rpc'[q] \in {"allocated", "freed", "again"} => ri'[q] = 1
                   /\ rpc'[q] = "perf" =>
                        /\ ri'[q] > 3 => seen'[q][<<"time", "alloc">>]
                                           >= seen'[q][<<"count", "alloc">>]
                        /\ ri'[q] > 4 => seen'[q][<<"time", "dealloc">>]
                                           >= seen'[q][<<"count", "dealloc">>]
        BY <1>1, <2>1, <3>1 DEF FirstInv, AverageInv
      <3> QED BY <2>1, <3>1 DEF FirstInv, AverageInv
    <2>2. /\ rpc \in [Reader -> ReaderLabel] /\ ri \in [Reader -> 1 .. 6]
          /\ ctr \in [Cell -> Nat] /\ seen \in [Reader -> [Cell -> Nat]]
      BY <1>1, ReadOrder DEF TypeOK, ReaderLabel
    <2>3. /\ rpc[r] \in {"allocated", "freed", "again"} => ri[r] = 1
          /\ rpc[r] = "perf" =>
               /\ ri[r] > 3 => seen[r][<<"time", "alloc">>]
                                 >= seen[r][<<"count", "alloc">>]
               /\ ri[r] > 4 => seen[r][<<"time", "dealloc">>]
                                 >= seen[r][<<"count", "dealloc">>]
      BY <1>1 DEF FirstInv, AverageInv
    <2>4. CASE GetInfo(r)
      BY <2>2, <2>4 DEF GetInfo, RGoto
    <2>5. CASE ReadAllocated(r) \/ ReadFreed(r) \/ ReadAgain(r)
      <3>1. ri[r] = 1 /\ ri' = ri
        BY <2>3, <2>5 DEF ReadAllocated, ReadFreed, ReadAgain, RAt
      <3>2. Others
        BY <2>2, <2>5 DEF ReadAllocated, ReadFreed, ReadAgain, RGoto, See
      <3> QED BY <3>1, <3>2
    <2>6. CASE ReadPerf(r)
      <3>1. CASE ri[r] = Len(PerfReads)
        BY <2>2, <2>6, <3>1 DEF ReadPerf, RGoto, Forget
      <3>2. CASE ri[r] # Len(PerfReads)
        <4> DEFINE c == PerfReads[ri[r]]
        <4>1. /\ seen' = [seen EXCEPT ![r][c] = ctr[c]]
              /\ ri' = [ri EXCEPT ![r] = ri[r] + 1]
              /\ rpc' = rpc /\ rpc[r] = "perf" /\ ri[r] \in 1 .. 5
          BY <2>2, <2>6, <3>2, ReadOrder DEF ReadPerf, See, RAt
        <4>2. /\ c \in Cell
              /\ ri[r] = 1 => c = <<"count", "alloc">>
              /\ ri[r] = 2 => c = <<"count", "dealloc">>
              /\ ri[r] = 3 => c = <<"time", "alloc">>
              /\ ri[r] = 4 => c = <<"time", "dealloc">>
              /\ ri[r] = 5 => c = <<"time", "move">>
          BY <4>1, ReadOrder DEF Cell
        <4>3. /\ <<"time", "alloc">> \in Cell /\ <<"count", "alloc">> \in Cell
              /\ <<"time", "dealloc">> \in Cell /\ <<"count", "dealloc">> \in Cell
          BY Cells DEF Kind
        <4>4. /\ ctr[<<"time", "alloc">>] >= ctr[<<"count", "alloc">>]
              /\ ctr[<<"time", "dealloc">>] >= ctr[<<"count", "dealloc">>]
          BY <1>1, <2>2, <4>3, FewBetween DEF CountInv, Timed
        <4>5. /\ seen[r][<<"count", "alloc">>] <= ctr[<<"count", "alloc">>]
              /\ seen[r][<<"count", "dealloc">>] <= ctr[<<"count", "dealloc">>]
          BY <1>1, <4>3 DEF SeenInv
        <4> HIDE DEF c
        <4>6. Others
          BY <2>2, <4>1
        <4>7. /\ ri'[r] = ri[r] + 1 /\ rpc'[r] = "perf"
              /\ \A x \in Cell : seen'[r][x] = IF x = c THEN ctr[x] ELSE seen[r][x]
          BY <2>2, <4>1, <4>2
        <4>8. \A x \in Cell : ctr[x] \in Nat /\ seen[r][x] \in Nat
          BY <2>2
        <4>9. ASSUME ri[r] + 1 > 3
              PROVE  seen'[r][<<"time", "alloc">>] >= seen'[r][<<"count", "alloc">>]
          <5>1. c # <<"count", "alloc">>
            BY <4>1, <4>2, <4>9
          <5>2. CASE c = <<"time", "alloc">>
            BY <4>3, <4>4, <4>5, <4>7, <4>8, <5>1, <5>2
          <5>3. CASE c # <<"time", "alloc">>
            <6>1. ri[r] > 3
              BY <4>1, <4>2, <4>9, <5>3
            <6> QED BY <2>3, <4>1, <4>3, <4>7, <5>1, <5>3, <6>1
          <5> QED BY <5>2, <5>3
        <4>10. ASSUME ri[r] + 1 > 4
               PROVE  seen'[r][<<"time", "dealloc">>]
                        >= seen'[r][<<"count", "dealloc">>]
          <5>1. c # <<"count", "dealloc">>
            BY <4>1, <4>2, <4>10
          <5>2. CASE c = <<"time", "dealloc">>
            BY <4>3, <4>4, <4>5, <4>7, <4>8, <5>1, <5>2
          <5>3. CASE c # <<"time", "dealloc">>
            <6>1. ri[r] > 4
              BY <4>1, <4>2, <4>10, <5>3
            <6> QED BY <2>3, <4>1, <4>3, <4>7, <5>1, <5>3, <6>1
          <5> QED BY <5>2, <5>3
        <4> QED BY <4>6, <4>7, <4>9, <4>10
      <3> QED BY <3>1, <3>2
    <2> QED BY <1>3, <2>4, <2>5, <2>6 DEF ReaderStep
  <1>4. UNCHANGED <<rpc, ri, seen>> \/ \E r \in Reader : ReaderStep(r)
    <2>1. ASSUME NEW b \in Bo, BoStep(b) PROVE UNCHANGED <<rpc, ri, seen>>
      BY <1>1, <2>1, TypeBo DEF readers
    <2> QED BY <2>1 DEF Next, Shut, vars, readers
  <1> QED BY <1>2, <1>3, <1>4

LEMMA TimeStep == TimeInv /\ [Next]_vars => TimeInv'
  BY ReadStep, CountStep, AverageStep DEF TimeInv, ReadInv

\* The average times get_info computes cover every allocation and deallocation
\* they are divided by, for any number of writers and readers.
THEOREM AverageCovers == Spec => []AverageCoversCounted
  <1>1. TimeInv => AverageCoversCounted
    <2> SUFFICES ASSUME TimeInv, NEW r \in Reader,
                        rpc[r] = "perf", ri[r] = Len(PerfReads),
                        NEW k \in {"alloc", "dealloc"}
                 PROVE  seen[r][<<"time", k>>] >= seen[r][<<"count", k>>]
      BY DEF AverageCoversCounted, RAt
    <2> QED BY ReadOrder DEF TimeInv, AverageInv
  <1> QED BY <1>1, TimeInit, TimeStep, PTL DEF Spec

-----------------------------------------------------------------------------
(* The usage of a domain *)

\* Where a buffer object is in its life tells which resources it has.
Life(b) ==
  /\ pc[b] = "none" => hold[b] = {} /\ born[b] = {}
  /\ pc[b] = "book" => (hold[b] = {arg[b]} /\ born[b] = {}) \/ hold[b] = Domain
  /\ pc[b] \in {"end_time", "end_count", "end_usage"}
       => hold[b] = {arg[b]} /\ born[b] = {}
  /\ pc[b] = "live" => \E d \in Domain : hold[b] = {d}
  /\ pc[b] \in {"copy", "move_time", "move_count", "moved"} => hold[b] = Domain
  /\ pc[b] = "unbook" => arg[b] \notin hold[b]
  /\ pc[b] \in {"destroy", "free_time", "free_count", "free_usage", "gone"}
       => hold[b] = {}

LifeInv == \A b \in Bo : Life(b)

BookedIn(d) == {b \in Bo : d \in Booked(b)}
BornIn(d)   == {b \in Bo : d \in born[b]}
Net(d)      == ctr[<<"allocated", d>>] - ctr[<<"freed", d>>]

\* A step of b leaves the other buffer objects alone.
LEMMA OthersStay ==
  ASSUME TypeOK, NEW b \in Bo, BoStep(b)
  PROVE  \A a \in Bo \ {b} : /\ pc'[a] = pc[a] /\ hold'[a] = hold[a]
                             /\ arg'[a] = arg[a] /\ born'[a] = born[a]
<1>1. /\ pc \in [Bo -> Label] /\ hold \in [Bo -> SUBSET Domain]
      /\ arg \in [Bo -> Domain] /\ born \in [Bo -> SUBSET Domain]
  BY DEF TypeOK
<1> QED
  BY <1>1
  DEF BoStep, Create, Book, Unbook, AllocEndTime, AllocEndCount, AllocEndUsage,
      Move, Copy, CopyFails, MoveEndTime, MoveEndCount, Moved, Release, Destroy,
      FreeEndTime, FreeEndCount, FreeEndUsage, Goto

\* What a step of b does to the usage of d is what it does to the booking of b
\* and, in alloc_end, to its second count.
Moves(b, d) ==
  Net(d)' = Net(d) + (IF d \in Booked(b)' THEN size[b] ELSE 0)
                   - (IF d \in Booked(b) THEN size[b] ELSE 0)
                   + (IF d \in born'[b] THEN size[b] ELSE 0)
                   - (IF d \in born[b] THEN size[b] ELSE 0)

\* A step that counts nothing and books nothing.
LEMMA StepQuiet ==
  ASSUME TypeOK, LifeInv, NEW b \in Bo,
         \/ Create(b) \/ Move(b) \/ Copy(b) \/ CopyFails(b) \/ Moved(b)
         \/ Release(b) \/ Destroy(b) \/ AllocEndTime(b) \/ AllocEndCount(b)
         \/ MoveEndTime(b) \/ MoveEndCount(b) \/ FreeEndTime(b)
         \/ FreeEndCount(b) \/ FreeEndUsage(b)
  PROVE  /\ Life(b)' /\ Booked(b)' = Booked(b) /\ born' = born
         /\ \A d \in Domain : Net(d)' = Net(d)
<1>1. /\ pc \in [Bo -> Label] /\ hold \in [Bo -> SUBSET Domain]
      /\ arg \in [Bo -> Domain] /\ born \in [Bo -> SUBSET Domain]
      /\ ctr \in [Cell -> Nat] /\ Life(b)
  BY DEF TypeOK, LifeInv
<1>2. arg[b] \in Domain /\ hold[b] \subseteq Domain
  BY <1>1
<1> USE <1>1, <1>2 DEF At, Goto
<1>3. CASE \/ Create(b) \/ Move(b) \/ Copy(b) \/ CopyFails(b) \/ Moved(b)
           \/ Release(b) \/ Destroy(b)
  <2>1. \A d \in Domain : Net(d)' = Net(d)
    BY <1>3 DEF Create, Move, Copy, CopyFails, Moved, Release, Destroy, Net
  <2> SUFFICES Life(b)' /\ Booked(b)' = Booked(b) /\ born' = born
    BY <2>1
  <2>2. CASE Create(b)
    BY <2>2 DEF Create, Life, Booked, Label
  <2>3. CASE Move(b)
    BY <2>3 DEF Move, Life, Booked, Label, Domain
  <2>4. CASE Copy(b)
    BY <2>4 DEF Copy, Life, Booked, Label
  <2>5. CASE CopyFails(b)
    <3>1. /\ pc[b] = "copy" /\ pc'[b] = "unbook" /\ arg' = arg /\ born' = born
          /\ hold[b] = Domain /\ hold'[b] = Domain \ {arg[b]}
      BY <2>5 DEF CopyFails, Life
    <3>2. Booked(b) = Domain /\ Booked(b)' = (Domain \ {arg[b]}) \cup {arg[b]}
      BY <3>1 DEF Booked
    <3>3. Life(b)'
      BY <3>1 DEF Life
    <3> QED BY <3>1, <3>2, <3>3
  <2>6. CASE Moved(b)
    <3>1. PICK d \in Domain \ {arg[b]} : arg' = [arg EXCEPT ![b] = d]
      BY <2>6 DEF Moved, Life
    <3>2. /\ pc[b] = "moved" /\ pc'[b] = "unbook" /\ arg'[b] = d /\ born' = born
          /\ hold[b] = Domain /\ hold'[b] = {arg[b]}
      BY <2>6, <3>1 DEF Moved, Life
    <3>3. Booked(b) = Domain /\ Booked(b)' = {arg[b]} \cup {d}
      BY <3>2 DEF Booked
    <3>4. {arg[b]} \cup {d} = Domain
      BY <3>1 DEF Domain
    <3>5. Life(b)'
      BY <3>1, <3>2 DEF Life
    <3> QED BY <3>2, <3>3, <3>4, <3>5
  <2>7. CASE Release(b)
    BY <2>7 DEF Release, Life, Booked, Label
  <2>8. CASE Destroy(b)
    BY <2>8 DEF Destroy, Life, Booked, Label
  <2> QED BY <1>3, <2>2, <2>3, <2>4, <2>5, <2>6, <2>7, <2>8
<1>4. CASE \/ AllocEndTime(b) \/ AllocEndCount(b) \/ MoveEndTime(b)
           \/ MoveEndCount(b) \/ FreeEndTime(b) \/ FreeEndCount(b)
           \/ FreeEndUsage(b)
  <2>1. UNCHANGED <<hold, arg, born>>
    BY <1>4 DEF AllocEndTime, AllocEndCount, MoveEndTime, MoveEndCount,
                FreeEndTime, FreeEndCount, FreeEndUsage
  <2>2. \A d \in Domain : Net(d)' = Net(d)
    <3>1. \/ ctr' = ctr
          \/ \E k \in Kind : Add(<<"time", k>>, 1) \/ Add(<<"count", k>>, 1)
      BY <1>4 DEF AllocEndTime, AllocEndCount, MoveEndTime, MoveEndCount,
                  FreeEndTime, FreeEndCount, FreeEndUsage, Kind, Life
    <3> QED BY <3>1, Cells DEF Add, Net
  <2>3. Life(b)' /\ Booked(b)' = Booked(b)
    <3>1. CASE AllocEndTime(b) \/ AllocEndCount(b)
      BY <2>1, <3>1 DEF AllocEndTime, AllocEndCount, Life, Booked, Label
    <3>2. CASE MoveEndTime(b) \/ MoveEndCount(b)
      BY <2>1, <3>2 DEF MoveEndTime, MoveEndCount, Life, Booked, Label
    <3>3. CASE FreeEndTime(b) \/ FreeEndCount(b) \/ FreeEndUsage(b)
      BY <2>1, <3>3 DEF FreeEndTime, FreeEndCount, FreeEndUsage, Life, Booked, Label
    <3> QED BY <1>4, <3>1, <3>2, <3>3
  <2> QED BY <2>1, <2>2, <2>3
<1> QED BY <1>3, <1>4

\* Every step of a buffer object moves the usage as Moves says until shutdown.
LEMMA StepMoves ==
  ASSUME TypeOK, LifeInv, NEW b \in Bo, BoStep(b)
  PROVE  Life(b)' /\ (~Shutdown => \A d \in Domain : Moves(b, d))
<1>1. /\ pc \in [Bo -> Label] /\ hold \in [Bo -> SUBSET Domain]
      /\ arg \in [Bo -> Domain] /\ born \in [Bo -> SUBSET Domain]
      /\ ctr \in [Cell -> Nat] /\ Life(b)
  BY DEF TypeOK, LifeInv
<1>2. arg[b] \in Domain /\ hold[b] \subseteq Domain /\ size[b] \in Nat
  BY <1>1, UsageAssumption DEF TypeOK
<1>3. \A d \in Domain : /\ <<"allocated", d>> \in Cell /\ <<"freed", d>> \in Cell
                        /\ ctr[<<"allocated", d>>] \in Nat
                        /\ ctr[<<"freed", d>>] \in Nat
  BY <1>1, Cells
<1>4. CASE Book(b)
  <2>1. /\ hold' = hold /\ arg' = arg /\ born' = born /\ pc[b] = "book"
        /\ pc'[b] = IF hold[b] = {arg[b]} THEN "end_time" ELSE "copy"
    BY <1>1, <1>4 DEF Book, At, Goto
  <2>2. Booked(b) = hold[b] \ {arg[b]} /\ Booked(b)' = hold[b] /\ arg[b] \in hold[b]
    <3>1. arg[b] \in hold[b]
      BY <1>1, <1>2, <2>1 DEF Life
    <3>2. Booked(b) = hold[b] \ {arg[b]}
      BY <2>1 DEF Booked, At
    <3>3. pc'[b] # "book" /\ pc'[b] # "unbook"
      BY <2>1
    <3>4. Booked(b)' = hold'[b]
      BY <3>3 DEF Booked, At
    <3> QED BY <2>1, <3>1, <3>2, <3>4
  <2>4. Life(b)'
    <3>1. CASE hold[b] = {arg[b]}
      <4>1. hold[b] # Domain
        BY <3>1 DEF Domain
      <4>2. born[b] = {}
        BY <1>1, <2>1, <4>1 DEF Life
      <4> QED BY <2>1, <3>1, <4>2 DEF Life
    <3>2. CASE hold[b] # {arg[b]}
      <4>1. hold[b] = Domain
        BY <1>1, <2>1, <3>2 DEF Life
      <4> QED BY <2>1, <3>2, <4>1 DEF Life
    <3> QED BY <3>1, <3>2
  <2>3. ASSUME ~Shutdown, NEW d \in Domain PROVE Moves(b, d)
    <3>1. ctr' = [ctr EXCEPT ![<<"allocated", arg[b]>>] = @ + size[b]]
      BY <1>4, <2>3 DEF Book, UpdateUsage, Add
    <3>2. Net(d)' = IF d = arg[b] THEN Net(d) + size[b] ELSE Net(d)
      BY <1>1, <1>2, <1>3, <3>1 DEF Net
    <3>3. Net(d) \in Int
      BY <1>3 DEF Net
    <3>4. /\ d \in Booked(b)' <=> d \in hold[b]
          /\ d \in Booked(b) <=> d \in hold[b] /\ d # arg[b]
          /\ d \in born'[b] <=> d \in born[b]
      BY <2>1, <2>2
    <3> QED BY <1>2, <2>2, <3>2, <3>3, <3>4 DEF Moves
  <2> QED BY <2>3, <2>4
<1>5. CASE Unbook(b)
  <2>1. /\ hold' = hold /\ arg' = arg /\ born' = born /\ pc[b] = "unbook"
        /\ pc'[b] = IF hold[b] = {} THEN "destroy" ELSE "live"
    BY <1>1, <1>5 DEF Unbook, At, Goto
  <2>2. Life(b)' /\ Booked(b) = hold[b] \cup {arg[b]} /\ Booked(b)' = hold[b]
        /\ arg[b] \notin hold[b]
    BY <1>1, <1>2, <2>1 DEF Life, Booked, At, Domain
  <2>3. ASSUME ~Shutdown, NEW d \in Domain PROVE Moves(b, d)
    <3>1. ctr' = [ctr EXCEPT ![<<"freed", arg[b]>>] = @ + size[b]]
      BY <1>5, <2>3 DEF Unbook, UpdateUsage, Add
    <3>2. Net(d)' = IF d = arg[b] THEN Net(d) - size[b] ELSE Net(d)
      BY <1>1, <1>2, <1>3, <3>1 DEF Net
    <3>3. Net(d) \in Int
      BY <1>3 DEF Net
    <3>4. /\ d \in Booked(b)' <=> d \in hold[b]
          /\ d \in Booked(b) <=> d \in hold[b] \/ d = arg[b]
          /\ d \in born'[b] <=> d \in born[b]
      BY <2>1, <2>2
    <3> QED BY <1>2, <2>2, <3>2, <3>3, <3>4 DEF Moves
  <2> QED BY <2>2, <2>3
<1>6. CASE AllocEndUsage(b)
  <2>1. /\ hold' = hold /\ arg' = arg /\ pc[b] = "end_usage" /\ pc'[b] = "live"
        /\ born'[b] = hold[b] /\ hold[b] = {arg[b]} /\ born[b] = {}
    BY <1>1, <1>6 DEF AllocEndUsage, At, Goto, Life
  <2>2. Life(b)' /\ Booked(b)' = Booked(b)
    BY <1>2, <2>1 DEF Life, Booked, At
  <2>3. ASSUME NEW d \in Domain PROVE Moves(b, d)
    <3>1. ctr' = [ctr EXCEPT ![<<"allocated", arg[b]>>] = @ + size[b]]
      BY <1>6, <2>1 DEF AllocEndUsage, Add
    <3>2. Net(d)' = IF d = arg[b] THEN Net(d) + size[b] ELSE Net(d)
      BY <1>1, <1>2, <1>3, <3>1 DEF Net
    <3>3. Net(d) \in Int
      BY <1>3 DEF Net
    <3>4. /\ d \in Booked(b)' <=> d \in Booked(b)
          /\ d \in born'[b] <=> d = arg[b]
          /\ d \notin born[b]
      BY <2>1, <2>2
    <3> QED BY <1>2, <3>2, <3>3, <3>4 DEF Moves
  <2> QED BY <2>2, <2>3
<1>7. CASE ~(Book(b) \/ Unbook(b) \/ AllocEndUsage(b))
  <2>1. /\ Life(b)' /\ Booked(b)' = Booked(b) /\ born' = born
        /\ \A d \in Domain : Net(d)' = Net(d)
    BY <1>7, StepQuiet DEF BoStep
  <2>2. ASSUME NEW d \in Domain PROVE Moves(b, d)
    <3>1. Net(d) \in Int
      BY <1>3 DEF Net
    <3>2. /\ d \in Booked(b)' <=> d \in Booked(b)
          /\ d \in born'[b] <=> d \in born[b]
          /\ Net(d)' = Net(d)
      BY <2>1
    <3> QED BY <1>2, <3>1, <3>2 DEF Moves
  <2> QED BY <2>1, <2>2
<1> QED BY <1>4, <1>5, <1>6, <1>7

-----------------------------------------------------------------------------
(* The law *)

\* The law as SumTheorems speaks of sums.
LEMMA LawForm ==
  UsageLaw <=> (~Shutdown => \A d \in Domain :
                  Net(d) = SumOver(size, BookedIn(d)) + SumOver(size, BornIn(d)))
  BY DEF UsageLaw, SizeOf, SumOver, BookedIn, BornIn, Net

\* The same after a step.
LEMMA LawFormNext ==
  (UsageLaw <=> (~Shutdown => \A d \in Domain :
                   Net(d) = SumOver(size, BookedIn(d)) + SumOver(size, BornIn(d))))'
  BY LawForm, PTL

\* A step of a buffer object moves the two sums as it moves the usage.
LEMMA LawBo ==
  ASSUME TypeOK, LifeInv, UsageLaw, ~Shutdown, NEW b \in Bo, BoStep(b),
         NEW d \in Domain
  PROVE  Net(d)' = SumOver(size, BookedIn(d)') + SumOver(size, BornIn(d)')
<1> DEFINE B == BookedIn(d)  C == BookedIn(d)'  E == BornIn(d)  F == BornIn(d)'
<1>1. /\ IsFiniteSet(B) /\ IsFiniteSet(C) /\ IsFiniteSet(E) /\ IsFiniteSet(F)
      /\ B \subseteq Bo /\ C \subseteq Bo /\ E \subseteq Bo /\ F \subseteq Bo
  BY UsageAssumption, FS_Subset DEF BookedIn, BornIn
<1>2. \A a \in Bo : size[a] \in Int
  <2>1. \A s \in Size : s \in Int
    BY UsageAssumption
  <2> QED BY <2>1 DEF TypeOK
<1>3. /\ C \ {b} = B \ {b} /\ F \ {b} = E \ {b}
      /\ b \in B <=> d \in Booked(b)
      /\ b \in C <=> d \in Booked(b)'
      /\ b \in E <=> d \in born[b]
      /\ b \in F <=> d \in born'[b]
  BY OthersStay DEF BookedIn, BornIn, Booked, At
<1>4. Net(d) = SumOver(size, B) + SumOver(size, E)
  BY LawForm
<1>5. Net(d)' = Net(d) + (IF b \in C THEN size[b] ELSE 0)
                       - (IF b \in B THEN size[b] ELSE 0)
                       + (IF b \in F THEN size[b] ELSE 0)
                       - (IF b \in E THEN size[b] ELSE 0)
  BY <1>3, StepMoves DEF Moves
<1> HIDE DEF B, C, E, F
<1>6. ASSUME NEW X, NEW Y, IsFiniteSet(X), IsFiniteSet(Y), X \subseteq Bo,
             Y \subseteq Bo, Y \ {b} = X \ {b}
      PROVE  /\ SumOver(size, X) \in Int /\ SumOver(size, Y) \in Int
             /\ SumOver(size, Y) - (IF b \in Y THEN size[b] ELSE 0)
                  = SumOver(size, X) - (IF b \in X THEN size[b] ELSE 0)
  <2>1. /\ \A a \in X : size[a] \in Int
        /\ \A a \in Y : size[a] \in Int
        /\ \A a \in X \ {b} : size[a] = size[a]
        /\ X \ {b} = Y \ {b}
    BY <1>2, <1>6
  <2> QED BY ONLY <1>6, <2>1, SumMove
<1>7. /\ SumOver(size, B) \in Int /\ SumOver(size, C) \in Int
      /\ SumOver(size, C) - (IF b \in C THEN size[b] ELSE 0)
           = SumOver(size, B) - (IF b \in B THEN size[b] ELSE 0)
  BY ONLY <1>1, <1>3, <1>6
<1>8. /\ SumOver(size, E) \in Int /\ SumOver(size, F) \in Int
      /\ SumOver(size, F) - (IF b \in F THEN size[b] ELSE 0)
           = SumOver(size, E) - (IF b \in E THEN size[b] ELSE 0)
  BY ONLY <1>1, <1>3, <1>6
<1>9. Net(d)' = SumOver(size, C) + SumOver(size, F)
  BY <1>2, <1>4, <1>5, <1>7, <1>8
<1> QED BY <1>9 DEF C, F

LawInv == TypeOK /\ LifeInv /\ UsageLaw

LEMMA LawInit == Init => LawInv
<1> SUFFICES ASSUME Init PROVE LawInv
  OBVIOUS
<1>1. TypeOK /\ LifeInv
  BY TypeInit DEF Init, LifeInv, Life
<1>2. ASSUME NEW d \in Domain PROVE BookedIn(d) = {} /\ BornIn(d) = {} /\ Net(d) = 0
  BY Cells DEF Init, BookedIn, BornIn, Booked, At, Net
<1>3. SumOver(size, {}) = 0
  BY SumEmpty
<1>4. UsageLaw
  BY <1>2, <1>3, LawForm
<1> QED BY <1>1, <1>4 DEF LawInv

LEMMA LawStep == LawInv /\ [Next]_vars => LawInv'
<1> SUFFICES ASSUME LawInv, [Next]_vars PROVE LawInv'
  OBVIOUS
<1>1. TypeOK /\ LifeInv /\ UsageLaw /\ TypeOK'
  BY TypeStep DEF LawInv
<1>2. ASSUME NEW b \in Bo, BoStep(b) PROVE LawInv'
  <2>1. LifeInv'
    BY <1>1, <1>2, StepMoves, OthersStay DEF LifeInv, Life
  <2>2. device_state' = device_state /\ size' = size
    <3>1. device_state' = device_state
      BY <1>1, <1>2, TypeBo
    <3>2. size' = size
      BY <1>2
      DEF BoStep, Create, Book, Unbook, AllocEndTime, AllocEndCount,
          AllocEndUsage, Move, Copy, CopyFails, MoveEndTime, MoveEndCount,
          Moved, Release, Destroy, FreeEndTime, FreeEndCount, FreeEndUsage
    <3> QED BY <3>1, <3>2
  <2>3. Shutdown' <=> Shutdown
    BY <2>2 DEF Shutdown
  <2>4. UsageLaw'
    BY <1>1, <1>2, <2>2, <2>3, LawBo, LawFormNext
  <2> QED BY <1>1, <2>1, <2>4 DEF LawInv
<1>3. CASE UNCHANGED <<ctr, bos>> /\ (Shutdown => Shutdown')
  <2>1. LifeInv'
    BY <1>1, <1>3 DEF LifeInv, Life, bos
  <2>2. /\ \A d \in Domain : BookedIn(d)' = BookedIn(d) /\ BornIn(d)' = BornIn(d)
        /\ \A d \in Domain : Net(d)' = Net(d)
        /\ size' = size
    BY <1>3 DEF BookedIn, BornIn, Net, Booked, At, bos
  <2>3. UsageLaw'
    BY <1>1, <1>3, <2>2, LawForm, LawFormNext
  <2> QED BY <1>1, <2>1, <2>3 DEF LawInv
<1>4. ASSUME NEW r \in Reader, ReaderStep(r)
      PROVE  UNCHANGED <<ctr, bos>> /\ (Shutdown => Shutdown')
  BY <1>1, <1>4, TypeReader DEF Shutdown
<1>5. CASE Shut \/ UNCHANGED vars
  BY <1>3, <1>5 DEF Shut, vars, Shutdown
<1> QED BY <1>2, <1>3, <1>4, <1>5 DEF Next

\* What get_info reports as used in a domain is what the managers have booked
\* there plus every buffer object alloc_end ever counted there: for any number
\* of buffer objects, whatever their moves and destructions interleave.
THEOREM UsageIsLawful == Spec => []UsageLaw
<1>1. LawInv => UsageLaw
  BY DEF LawInv
<1> QED BY <1>1, LawInit, LawStep, PTL DEF Spec
=============================================================================
