------------------------ MODULE ThreadSampler_proofs ------------------------
(***************************************************************************)
(* Proofs about ThreadSampler, for every number of slots: the reader owns  *)
(* what it reads, and the ring implements the log of SampleLog.            *)
(*                                                                         *)
(* In a session without an old signal the two indexes are two counters     *)
(* taken modulo the size of the ring: the snapshots taken and the slots    *)
(* taken over by the reader.  The invariant says of each of the N places   *)
(* from the reader's counter on what its slot holds.                       *)
(***************************************************************************)
EXTENDS ThreadSampler, TLAPS

N == SAMPLER_MAX_BUFFER_SZ

(* The slot of the k-th snapshot of a session, counted from 0. *)
Pos(k) == k % N

-----------------------------------------------------------------------------
(* There is a slot. *)
LEMMA NType == N \in Nat \ {0}
BY BufferAssumption DEF N

(* Division by the size of the ring. *)
LEMMA DivMod ==
  ASSUME NEW k \in Nat
  PROVE  /\ k \div N \in Nat
         /\ k % N \in 0 .. N - 1
         /\ k = N * (k \div N) + (k % N)
BY NType

(* The remainder is the only one. *)
LEMMA ModUnique ==
  ASSUME NEW k \in Nat, NEW q \in Nat, NEW r \in 0 .. N - 1, k = N * q + r
  PROVE  k % N = r
BY NType, DivMod

(* A place is a slot. *)
LEMMA PosType ==
  ASSUME NEW k \in Nat
  PROVE  Pos(k) \in Index
BY DivMod DEF Pos, Index, N

(* The slot after the k-th is the one of k + 1. *)
LEMMA PosAfter ==
  ASSUME NEW k \in Nat
  PROVE  After(Pos(k)) = Pos(k + 1)
<1>1. After(Pos(k)) = ((k % N) + 1) % N
  BY DEF After, Pos, N
<1> DEFINE q == k \div N
           r == k % N
<1>2. q \in Nat /\ r \in 0 .. N - 1 /\ k = N * q + r
  BY DivMod
<1> HIDE DEF q, r
<1>3. CASE r + 1 < N
  <2>1. r + 1 \in 0 .. N - 1 /\ k + 1 = N * q + (r + 1) /\ r + 1 = N * 0 + (r + 1)
    BY <1>2, <1>3, NType
  <2>2. (k + 1) % N = r + 1
    BY <2>1, <1>2, ModUnique
  <2>3. (r + 1) % N = r + 1
    BY <2>1, <1>2, ModUnique
  <2> QED BY <1>1, <2>2, <2>3 DEF Pos, r
<1>4. CASE r + 1 = N
  <2>1. 0 \in 0 .. N - 1 /\ k + 1 = N * (q + 1) + 0 /\ r + 1 = N * 1 + 0
    BY <1>2, <1>4, NType
  <2>2. (k + 1) % N = 0
    BY <2>1, <1>2, ModUnique
  <2>3. (r + 1) % N = 0
    BY <2>1, <1>2, ModUnique
  <2> QED BY <1>1, <2>2, <2>3 DEF Pos, r
<1> QED BY <1>2, <1>3, <1>4, NType

(* After N places the ring begins anew. *)
LEMMA PosWraps ==
  ASSUME NEW k \in Nat
  PROVE  Pos(k + N) = Pos(k)
<1> DEFINE q == k \div N
           r == k % N
<1>1. q \in Nat /\ r \in 0 .. N - 1 /\ k = N * q + r
  BY DivMod
<1> HIDE DEF q, r
<1>2. k + N \in Nat /\ q + 1 \in Nat /\ k + N = N * (q + 1) + r
  BY <1>1, NType
<1>3. (k + N) % N = r
  BY <1>1, <1>2, ModUnique
<1> QED BY <1>3 DEF Pos, r

(* Fewer than N places apart are different slots. *)
LEMMA PosDiffers ==
  ASSUME NEW a \in Nat, NEW b \in Nat, a # b, a - b < N, b - a < N
  PROVE  Pos(a) # Pos(b)
<1> SUFFICES ASSUME a % N = b % N PROVE FALSE
  BY DEF Pos
<1> DEFINE q == a \div N - b \div N
<1>1. q \in Int /\ a - b = N * q
  BY DivMod, NType
<1> HIDE DEF q
<1>2. CASE q = 0
  BY <1>1, <1>2, NType
<1>3. CASE q >= 1
  BY <1>1, <1>3, NType
<1>4. CASE q <= -1
  BY <1>1, <1>4, NType
<1> QED BY <1>1, <1>2, <1>3, <1>4

-----------------------------------------------------------------------------
Slot == [requestTime : BOOLEAN, snapshotTime : BOOLEAN, processTime : BOOLEAN,
         buffer : Nat]

Types ==
  /\ init \in BOOLEAN
  /\ slots \in [Index -> Slot]
  /\ writeIndex \in Index
  /\ readIndex \in Index
  /\ signals \in Nat
  /\ handler \in {"idle", "copy", "publish"}
  /\ filling \in Index
  /\ pc \in {"idle", "process", "unwind", "clearRequest", "clearSnapshot",
             "setProcess"}
  /\ reading \in Index
  /\ stray \in BOOLEAN
  /\ taken \in Nat
  /\ base \in Nat
  /\ base <= taken
  /\ list \in Seq(Nat)

(* Between two sessions nothing is under way. *)
BetweenSessions ==
  /\ pc = "idle"
  /\ handler = "idle"
  /\ base = taken
  /\ list = <<>>
  /\ writeIndex = 0
  /\ readIndex = 0

(* Snapshots taken in this session, and slots the reader has taken over. *)
T == taken - base
R == Len(list) + (IF pc = "unwind" THEN 1 ELSE 0)

(* The reader holds the slot of place R - 1, which is that of R + N - 1. *)
Holding == pc \in {"unwind", "clearRequest", "clearSnapshot", "setProcess"}
Held(k) == Holding /\ k = R + N - 1

HeldSlot(s) ==
  /\ s.requestTime <=> pc \in {"unwind", "clearRequest"}
  /\ s.snapshotTime <=> pc # "setProcess"
  /\ pc \in {"unwind", "clearRequest"} => ~s.processTime
  /\ pc = "unwind" => s.buffer = base + R

(* A snapshot that waits for the reader, its publication perhaps pending. *)
FilledSlot(k, s) ==
  /\ s.requestTime
  /\ s.buffer = base + k + 1
  /\ s.snapshotTime <=> ~(handler = "publish" /\ k = T - 1)
  /\ s.snapshotTime => ~s.processTime

(* The slot to be written next: a signal or a copy is for a request. *)
NextSlot(s) ==
  /\ ~s.snapshotTime
  /\ (signals # 0 \/ handler = "copy") => s.requestTime

FreeSlot(s) == ~s.requestTime /\ ~s.snapshotTime

SlotOK(k) ==
  LET s == slots[Pos(k)]
  IN /\ Held(k) => HeldSlot(s)
     /\ ~Held(k) /\ k < T => FilledSlot(k, s)
     /\ ~Held(k) /\ k = T => NextSlot(s)
     /\ ~Held(k) /\ k > T => FreeSlot(s)

(* The session, if it began without an old signal. *)
Indexes ==
  /\ R <= T /\ T <= R + N
  /\ writeIndex = Pos(T)
  /\ readIndex = Pos(R)
  /\ Holding => T <= R + N - 1 /\ R >= 1 /\ reading = Pos(R + N - 1)

Signals ==
  /\ signals <= 1
  /\ signals # 0 \/ handler = "copy" => T < R + N /\ ~Held(T)
  /\ handler = "copy" => signals = 0 /\ filling = Pos(T)
  /\ handler = "publish" => R < T /\ filling = Pos(T - 1)

Session == Indexes /\ Signals /\ \A k \in R .. R + N - 1 : SlotOK(k)

IInv ==
  /\ Types
  /\ ~init => BetweenSessions
  /\ init /\ ~stray => Session

-----------------------------------------------------------------------------
(* The slot after a slot is a slot. *)
LEMMA AfterType ==
  ASSUME NEW i \in Index
  PROVE  After(i) \in Index
<1>1. i + 1 \in Nat
  BY NType DEF Index, N
<1> QED BY <1>1, DivMod DEF After, Index, N

(* A store to a buffer leaves slots. *)
LEMMA BufferStored ==
  ASSUME NEW f \in [Index -> Slot], NEW i \in Index, NEW b \in Nat
  PROVE  [f EXCEPT ![i].buffer = b] \in [Index -> Slot]
<1>1. [f[i] EXCEPT !.buffer = b] \in Slot
  <2>1. f[i] \in Slot
    OBVIOUS
  <2> QED BY <2>1 DEF Slot
<1> QED BY <1>1

(* A store to a flag leaves slots. *)
LEMMA FlagStored ==
  ASSUME NEW f \in [Index -> Slot], NEW i \in Index, NEW b \in BOOLEAN
  PROVE  /\ [f EXCEPT ![i].requestTime = b] \in [Index -> Slot]
         /\ [f EXCEPT ![i].snapshotTime = b] \in [Index -> Slot]
         /\ [f EXCEPT ![i].processTime = b] \in [Index -> Slot]
<1>1. f[i] \in Slot
  OBVIOUS
<1>2. [f[i] EXCEPT !.requestTime = b] \in Slot
  BY <1>1 DEF Slot
<1>3. [f[i] EXCEPT !.snapshotTime = b] \in Slot
  BY <1>1 DEF Slot
<1>4. [f[i] EXCEPT !.processTime = b] \in Slot
  BY <1>1 DEF Slot
<1>5. [f EXCEPT ![i].requestTime = b] \in [Index -> Slot]
  BY <1>2
<1>6. [f EXCEPT ![i].snapshotTime = b] \in [Index -> Slot]
  BY <1>3
<1>7. [f EXCEPT ![i].processTime = b] \in [Index -> Slot]
  BY <1>4
<1> QED BY <1>5, <1>6, <1>7

(* Types are kept, also in a session with an old signal. *)
LEMMA TypesInductive == Types /\ [Next]_vars => Types'
<1> SUFFICES ASSUME Types, [Next]_vars PROVE Types'
  OBVIOUS
<1> USE DEF Types
<1>0. 0 \in Index
  BY NType DEF Index, N
<1>1. CASE InitSampler
  BY <1>1 DEF InitSampler, EmptySlot, Slot, Torn, handlerVars, readerVars, logVars
<1>2. CASE SendSampleRequest
  <2>1. [slots EXCEPT ![writeIndex].requestTime = TRUE] \in [Index -> Slot]
    BY FlagStored
  <2>2. slots' \in [Index -> Slot]
    BY <1>2, <2>1, Zenon DEF SendSampleRequest
  <2>3. signals' \in Nat
    <3>1. signals' \in {signals, signals + 1} \/ signals' = signals
      BY <1>2, Zenon DEF SendSampleRequest
    <3> QED BY <3>1
  <2> QED BY <1>2, <2>2, <2>3 DEF SendSampleRequest, logVars
<1>3. CASE CollectStack
  BY <1>3 DEF CollectStack, handlerVars, logVars
<1>4. CASE GetReadContext
  BY <1>4, AfterType DEF GetReadContext, handlerVars, logVars
<1>5. CASE DoUnwind
  <2>1. list' \in Seq(Nat)
    <3>1. slots[reading] \in Slot
      OBVIOUS
    <3>2. slots[reading].buffer \in Nat
      BY <3>1 DEF Slot
    <3> QED BY <1>5, <3>2 DEF DoUnwind
  <2> QED BY <1>5, <2>1 DEF DoUnwind, handlerVars
<1>6. CASE ReleaseSlot
  <2>1. slots' \in [Index -> Slot]
    <3>1. /\ [slots EXCEPT ![reading].requestTime = FALSE] \in [Index -> Slot]
          /\ [slots EXCEPT ![reading].snapshotTime = FALSE] \in [Index -> Slot]
          /\ [slots EXCEPT ![reading].processTime = TRUE] \in [Index -> Slot]
      BY FlagStored
    <3> QED BY <1>6, <3>1 DEF ReleaseSlot, Release
  <2> QED BY <1>6, <2>1 DEF ReleaseSlot, Release, handlerVars, logVars
<1>7. CASE Deinit
  <2>1. /\ init' \in BOOLEAN /\ slots' = slots /\ writeIndex' \in Index
        /\ readIndex' \in Index /\ stray' = stray
    BY <1>7, <1>0 DEF Deinit
  <2>2. /\ signals' = signals /\ handler' = handler /\ filling' = filling
        /\ pc' = pc /\ reading' = reading
    BY <1>7 DEF Deinit, handlerVars, readerVars
  <2>3. /\ taken' \in Nat /\ base' \in Nat /\ base' <= taken'
        /\ list' \in Seq(Nat)
    BY <1>7 DEF Deinit
  <2> QED BY <2>1, <2>2, <2>3
<1>8. CASE WriteContext
  <2>1. slots' \in [Index -> Slot]
    <3>1. [slots EXCEPT ![writeIndex].buffer = Torn] \in [Index -> Slot]
      BY BufferStored DEF Torn
    <3> QED BY <1>8, <3>1 DEF WriteContext
  <2>2. signals' \in Nat
    BY <1>8 DEF WriteContext
  <2> QED BY <1>8, <2>1, <2>2 DEF WriteContext, readerVars, logVars
<1>9. CASE EndCopy
  <2>1. slots' \in [Index -> Slot]
    <3>0. taken + 1 \in Nat
      OBVIOUS
    <3>1. [slots EXCEPT ![filling].buffer = taken + 1] \in [Index -> Slot]
      BY <3>0, BufferStored
    <3> QED BY <1>9, <3>1 DEF EndCopy
  <2> QED BY <1>9, <2>1, AfterType DEF EndCopy, readerVars
<1>10. CASE PublishSnapshot
  BY <1>10 DEF PublishSnapshot, readerVars, logVars, Slot
<1>11. CASE UNCHANGED vars
  BY <1>11 DEF vars, handlerVars, readerVars, logVars
<1> QED BY <1>1, <1>2, <1>3, <1>4, <1>5, <1>6, <1>7, <1>8, <1>9, <1>10, <1>11
        DEF Next, Library

-----------------------------------------------------------------------------
(* The counters are numbers and the places are slots. *)
LEMMA Counters ==
  ASSUME Types
  PROVE  /\ N \in Nat \ {0}
         /\ T \in Nat
         /\ R \in Nat
         /\ \A k \in Nat : Pos(k) \in Index
BY NType, PosType DEF Types, T, R

(* A new session begins with a ring of free slots. *)
LEMMA InitSession ==
  ASSUME Types, ~init, BetweenSessions, InitSampler, ~stray'
  PROVE  Session'
<1>c. N \in Nat \ {0} /\ Pos(0) = 0
  BY NType, ModUnique DEF Pos
<1>1. /\ T' = 0 /\ R' = 0 /\ ~Holding' /\ signals' = 0 /\ handler' = "idle"
      /\ writeIndex' = 0 /\ readIndex' = 0
  BY DEF InitSampler, BetweenSessions, T, R, Holding, Types, handlerVars,
         readerVars, logVars
<1>2. Indexes' /\ Signals'
  BY <1>1, <1>c DEF Indexes, Signals, Held
<1>3. ASSUME NEW k \in R' .. R' + N - 1
      PROVE  SlotOK(k)'
  <2>1. k \in Nat /\ k >= 0
    BY <1>1, <1>3, <1>c
  <2>2. slots'[Pos(k)] = EmptySlot
    BY <2>1, PosType DEF InitSampler
  <2> QED BY <1>1, <2>1, <2>2
          DEF SlotOK, Held, NextSlot, FreeSlot, EmptySlot
<1> QED BY <1>2, <1>3 DEF Session

(* A request is made for the slot to be written next, which is free. *)
LEMMA RequestSession ==
  ASSUME Types, Session, SendSampleRequest
  PROVE  Session'
<1>c. /\ N \in Nat \ {0} /\ T \in Nat /\ R \in Nat
      /\ R <= T /\ T <= R + N
  BY Counters DEF Session, Indexes
<1>1. /\ T' = T /\ R' = R /\ ~Holding /\ ~Holding'
      /\ UNCHANGED <<writeIndex, readIndex, handler, filling>>
  BY DEF SendSampleRequest, T, R, Holding, logVars
<1>2. CASE UNCHANGED <<slots, signals>>
  <2>1. Indexes' /\ Signals'
    BY <1>1, <1>2 DEF Session, Indexes, Signals, Held
  <2>2. ASSUME NEW k \in R' .. R' + N - 1
        PROVE  SlotOK(k)'
    BY <1>1, <1>2, <2>2
       DEF Session, SlotOK, Held, FilledSlot, NextSlot, FreeSlot,
           SendSampleRequest, logVars
  <2> QED BY <2>1, <2>2 DEF Session
<1>3. CASE /\ GetWriteContext
           /\ slots' = [slots EXCEPT ![writeIndex].requestTime = TRUE]
           /\ signals' \in {signals, signals + 1}
  <2>1. T < R + N
    <3> SUFFICES ASSUME T = R + N PROVE FALSE
      BY <1>c
    <3>1. SlotOK(R) /\ R < T /\ ~Held(R) /\ Pos(T) = Pos(R)
      BY <1>c, <1>1, PosWraps DEF Session, Held
    <3> QED BY <3>1, <1>3 DEF SlotOK, FilledSlot, GetWriteContext, Session, Indexes
  <2>2. NextSlot(slots[Pos(T)]) /\ writeIndex = Pos(T)
    BY <1>c, <1>1, <2>1 DEF Session, SlotOK, Held, Indexes
  <2>3. ~slots[Pos(T)].requestTime
    BY <2>2, <1>3 DEF NextSlot, GetWriteContext
  <2>4. signals = 0 /\ handler # "copy"
    BY <2>2, <2>3 DEF NextSlot
  <2>5. Indexes' /\ Signals'
    BY <1>1, <1>3, <1>c, <2>1, <2>4 DEF Session, Indexes, Signals, Held
  <2>6. ASSUME NEW k \in R' .. R' + N - 1
        PROVE  SlotOK(k)'
    <3>1. k \in Nat /\ SlotOK(k) /\ Pos(k) \in Index
      BY <1>c, <1>1, <2>6, PosType DEF Session
    <3>2. CASE k = T
      <4>1. slots'[Pos(k)] = [slots[Pos(k)] EXCEPT !.requestTime = TRUE]
        BY <1>3, <2>2, <3>1, <3>2 DEF Types
      <4>2. slots[Pos(k)] \in Slot
        BY <3>1 DEF Types
      <4>3. slots'[Pos(k)].requestTime /\ ~slots'[Pos(k)].snapshotTime
        BY <4>1, <4>2, <2>2, <3>2 DEF Slot, NextSlot
      <4> QED BY <4>3, <1>1, <3>2, <1>c DEF SlotOK, Held, NextSlot
    <3>3. CASE k # T
      <4>1. Pos(k) # Pos(T)
        BY <1>c, <1>1, <2>1, <2>6, <3>1, <3>3, PosDiffers
      <4>2. slots'[Pos(k)] = slots[Pos(k)]
        BY <1>3, <2>2, <3>1, <4>1 DEF Types
      <4> QED BY <1>1, <1>c, <3>1, <3>3, <4>2
              DEF SlotOK, Held, FilledSlot, FreeSlot, SendSampleRequest, logVars
    <3> QED BY <3>2, <3>3
  <2> QED BY <2>5, <2>6 DEF Session
<1> QED BY <1>2, <1>3 DEF SendSampleRequest

(* GetReadContext takes over the next slot if it is filled. *)
LEMMA ReadSession ==
  ASSUME Types, Session, GetReadContext
  PROVE  Session'
<1>c. /\ N \in Nat \ {0} /\ T \in Nat /\ R \in Nat
      /\ R <= T /\ T <= R + N /\ Len(list) \in Nat
  BY Counters DEF Session, Indexes, Types
<1>1. /\ T' = T /\ pc = "process" /\ ~Holding /\ R = Len(list)
      /\ UNCHANGED <<slots, writeIndex, signals, handler, filling, base, list>>
  BY <1>c DEF GetReadContext, T, R, Holding, logVars, handlerVars
<1>2. CASE pc' = "idle" /\ UNCHANGED <<reading, readIndex>>
  <2>1. R' = R /\ ~Holding'
    BY <1>1, <1>2, <1>c DEF R, Holding
  <2>2. Indexes' /\ Signals'
    BY <1>1, <1>2, <2>1 DEF Session, Indexes, Signals, Held
  <2>3. ASSUME NEW k \in R' .. R' + N - 1
        PROVE  SlotOK(k)'
    BY <1>1, <2>1, <2>3 DEF Session, SlotOK, Held, FilledSlot, NextSlot, FreeSlot
  <2> QED BY <2>2, <2>3 DEF Session
<1>3. CASE /\ slots[readIndex].requestTime
           /\ slots[readIndex].snapshotTime
           /\ reading' = readIndex
           /\ readIndex' = After(readIndex)
           /\ pc' = "unwind"
  <2>0. readIndex = Pos(R) /\ SlotOK(R) /\ ~Held(R)
    BY <1>c, <1>1 DEF Session, Indexes, Held
  <2>1. R < T
    BY <1>c, <1>3, <2>0 DEF SlotOK, NextSlot
  <2>2. FilledSlot(R, slots[Pos(R)])
    BY <2>0, <2>1 DEF SlotOK
  <2>3. R' = R + 1 /\ Holding'
    BY <1>1, <1>3, <1>c DEF R, Holding
  <2>4. Pos(R' + N - 1) = Pos(R) /\ readIndex' = Pos(R')
    <3>1. R' + N - 1 = R + N
      BY <1>c, <2>3
    <3> QED BY <3>1, <2>0, <2>3, <1>3, <1>c, PosWraps, PosAfter
  <2>5. ~(handler = "publish" /\ R = T - 1)
    BY <2>0, <2>2, <1>3 DEF FilledSlot
  <2>6. Indexes'
    BY <1>1, <1>3, <1>c, <2>0, <2>1, <2>3, <2>4 DEF Session, Indexes
  <2>7. Signals'
    <3>1. T < R + N => ~Held(T)'
      BY <1>1, <1>c, <2>3 DEF Held
    <3> QED BY <3>1, <1>1, <1>c, <2>1, <2>3, <2>5 DEF Session, Signals, Held
  <2>8. ASSUME NEW k \in R' .. R' + N - 1
        PROVE  SlotOK(k)'
    <3>1. CASE k = R' + N - 1
      <4>1. slots'[Pos(k)] = slots[Pos(R)] /\ Held(k)'
        BY <1>1, <2>3, <2>4, <3>1 DEF Held
      <4>2. /\ slots'[Pos(k)].requestTime
            /\ slots'[Pos(k)].snapshotTime
            /\ ~slots'[Pos(k)].processTime
            /\ slots'[Pos(k)].buffer = base' + R'
        BY <1>1, <1>3, <1>c, <2>0, <2>2, <2>3, <4>1, PosType
           DEF FilledSlot, Types, Slot
      <4> QED BY <4>1, <4>2, <1>3 DEF SlotOK, HeldSlot
    <3>2. CASE k # R' + N - 1
      <4>1. k \in R .. R + N - 1 /\ ~Held(k)'
        BY <1>c, <2>3, <2>8, <3>2 DEF Held
      <4>2. SlotOK(k) /\ ~Held(k)
        BY <1>1, <4>1 DEF Session, Held
      <4> QED BY <1>1, <4>1, <4>2 DEF SlotOK, FilledSlot, NextSlot, FreeSlot
    <3> QED BY <3>1, <3>2
  <2> QED BY <2>6, <2>7, <2>8 DEF Session
<1> QED BY <1>2, <1>3 DEF GetReadContext

(* The reader unwinds the slot it holds: its number is the next in the list. *)
LEMMA UnwindSession ==
  ASSUME Types, Session, DoUnwind
  PROVE  /\ Session'
         /\ list' = Append(list, base + Len(list) + 1)
         /\ base + Len(list) < taken
<1>c. /\ N \in Nat \ {0} /\ T \in Nat /\ R \in Nat
      /\ R <= T /\ T <= R + N /\ Len(list) \in Nat /\ base \in Nat /\ taken \in Nat
  BY Counters DEF Session, Indexes, Types
<1>1. /\ pc = "unwind" /\ pc' = "clearRequest" /\ Holding /\ Holding'
      /\ R = Len(list) + 1
      /\ UNCHANGED <<slots, writeIndex, readIndex, signals, handler, filling,
                     reading, taken, base>>
  BY DEF DoUnwind, R, Holding, handlerVars
<1>2. HeldSlot(slots[Pos(R + N - 1)]) /\ reading = Pos(R + N - 1)
  <2>1. R + N - 1 \in R .. R + N - 1 /\ Held(R + N - 1)
    BY <1>1, <1>c DEF Held
  <2> QED BY <2>1, <1>1 DEF Session, SlotOK, Indexes
<1>3. slots[reading].buffer = base + Len(list) + 1
  BY <1>1, <1>2, <1>c DEF HeldSlot
<1>4. list' = Append(list, base + Len(list) + 1)
  BY <1>3 DEF DoUnwind
<1>5. Len(list') = Len(list) + 1
  BY <1>4, <1>c DEF Types
<1>6. R' = R /\ T' = T
  BY <1>1, <1>5, <1>c DEF R, T
<1>7. Indexes' /\ Signals'
  BY <1>1, <1>6 DEF Session, Indexes, Signals, Held
<1>8. ASSUME NEW k \in R' .. R' + N - 1
      PROVE  SlotOK(k)'
  BY <1>1, <1>6, <1>8
     DEF Session, SlotOK, Held, HeldSlot, FilledSlot, NextSlot, FreeSlot
<1> QED BY <1>1, <1>4, <1>7, <1>8, <1>c DEF Session, T

(* The stores of the reader touch the slot it holds. *)
LEMMA ReleaseSession ==
  ASSUME Types, Session, ReleaseSlot
  PROVE  Session'
<1>c. /\ N \in Nat \ {0} /\ T \in Nat /\ R \in Nat
      /\ R <= T /\ T <= R + N /\ Len(list) \in Nat
  BY Counters DEF Session, Indexes, Types
<1> DEFINE h == R + N - 1
<1>1. /\ Holding /\ T' = T /\ R' = R
      /\ UNCHANGED <<writeIndex, readIndex, signals, handler, filling, reading,
                     base, list>>
  BY <1>c DEF ReleaseSlot, Release, T, R, Holding, handlerVars, logVars
<1>2. h \in Nat /\ h \in R .. R + N - 1 /\ Held(h) /\ reading = Pos(h) /\ T <= h
  BY <1>c, <1>1 DEF Held, Session, Indexes
<1>3. HeldSlot(slots[Pos(h)]) /\ slots[Pos(h)] \in Slot /\ Pos(h) \in Index
  BY <1>2, PosType DEF Session, SlotOK, Types
<1>4. Signals'
  BY <1>1, <1>2, <1>c DEF Session, Signals, Held
<1>5. Indexes'
  BY <1>1 DEF Session, Indexes
<1>6. ASSUME NEW k \in R .. R + N - 1, k # h
      PROVE  slots'[Pos(k)] = slots[Pos(k)]
  <2>1. k \in Nat /\ Pos(k) \in Index /\ Pos(k) # Pos(h)
    BY <1>6, <1>2, <1>c, PosType, PosDiffers
  <2> QED BY <2>1, <1>2, <1>3 DEF ReleaseSlot, Release, Types
<1>7. ASSUME NEW k \in R' .. R' + N - 1, k # h
      PROVE  SlotOK(k)'
  <2>1. slots'[Pos(k)] = slots[Pos(k)] /\ SlotOK(k) /\ ~Held(k) /\ ~Held(k)'
    BY <1>1, <1>6, <1>7 DEF Session, Held
  <2> QED BY <2>1, <1>1 DEF SlotOK, FilledSlot, NextSlot, FreeSlot
<1>8. ASSUME NEW k \in R' .. R' + N - 1, k = h
      PROVE  SlotOK(k)'
  <2> DEFINE s == slots[Pos(k)]
  <2>1. CASE Release("clearRequest", "requestTime", FALSE, "clearSnapshot")
    <3>1. slots'[Pos(k)] = [s EXCEPT !.requestTime = FALSE]
      BY <2>1, <1>2, <1>3, <1>8 DEF Release, Types
    <3>2. /\ ~slots'[Pos(k)].requestTime /\ slots'[Pos(k)].snapshotTime
          /\ pc' = "clearSnapshot" /\ Held(k)'
      BY <3>1, <2>1, <1>1, <1>2, <1>3, <1>8 DEF Release, HeldSlot, Slot, Held, Holding
    <3> QED BY <3>2 DEF SlotOK, HeldSlot
  <2>2. CASE Release("clearSnapshot", "snapshotTime", FALSE, "setProcess")
    <3>1. slots'[Pos(k)] = [s EXCEPT !.snapshotTime = FALSE]
      BY <2>2, <1>2, <1>3, <1>8 DEF Release, Types
    <3>2. /\ ~slots'[Pos(k)].requestTime
          /\ ~slots'[Pos(k)].snapshotTime
          /\ pc' = "setProcess" /\ Held(k)'
      BY <3>1, <2>2, <1>1, <1>2, <1>3, <1>8 DEF Release, HeldSlot, Slot, Held, Holding
    <3> QED BY <3>2 DEF SlotOK, HeldSlot
  <2>3. CASE Release("setProcess", "processTime", TRUE, "process")
    <3>1. slots'[Pos(k)] = [s EXCEPT !.processTime = TRUE]
      BY <2>3, <1>2, <1>3, <1>8 DEF Release, Types
    <3>2. /\ ~slots'[Pos(k)].requestTime
          /\ ~slots'[Pos(k)].snapshotTime
          /\ ~Held(k)'
      BY <3>1, <2>3, <1>1, <1>2, <1>3, <1>8 DEF Release, HeldSlot, Slot, Held, Holding
    <3>3. T = k => signals = 0 /\ handler # "copy"
      BY <1>2, <1>c, <1>8 DEF Session, Signals
    <3> QED BY <3>2, <3>3, <1>1, <1>2, <1>c, <1>8 DEF SlotOK, NextSlot, FreeSlot
  <2> QED BY <2>1, <2>2, <2>3 DEF ReleaseSlot
<1> QED BY <1>1, <1>4, <1>5, <1>7, <1>8 DEF Session

(* The signal is for the slot to be written next, and the handler begins to
   copy there or does nothing. *)
LEMMA SignalSession ==
  ASSUME Types, Session, WriteContext
  PROVE  Session'
<1>c. /\ N \in Nat \ {0} /\ T \in Nat /\ R \in Nat /\ R <= T /\ T <= R + N
  BY Counters DEF Session, Indexes
<1>1. /\ T' = T /\ R' = R /\ Holding' = Holding /\ signals = 1 /\ signals' = 0
      /\ handler = "idle"
      /\ UNCHANGED <<writeIndex, readIndex, pc, reading, base, list>>
  BY DEF WriteContext, T, R, Holding, readerVars, logVars, Session, Signals,
         Types
<1>2. T < R + N /\ ~Held(T) /\ writeIndex = Pos(T) /\ Pos(T) \in Index
  BY <1>1, <1>c, PosType DEF Session, Signals, Indexes
<1>3. NextSlot(slots[Pos(T)]) /\ slots[Pos(T)].requestTime
  BY <1>1, <1>2, <1>c DEF Session, SlotOK, NextSlot
<1>4. Indexes'
  BY <1>1 DEF Session, Indexes
<1>5. CASE UNCHANGED <<handler, filling, slots>>
  <2>1. Signals'
    BY <1>1, <1>5 DEF Session, Signals, Held
  <2>2. ASSUME NEW k \in R' .. R' + N - 1
        PROVE  SlotOK(k)'
    BY <1>1, <1>5, <2>2
       DEF Session, SlotOK, Held, HeldSlot, FilledSlot, NextSlot, FreeSlot
  <2> QED BY <1>4, <2>1, <2>2 DEF Session
<1>6. CASE /\ handler' = "copy" /\ filling' = writeIndex
           /\ slots' = [slots EXCEPT ![writeIndex].buffer = Torn]
  <2>1. Signals'
    BY <1>1, <1>2, <1>6 DEF Session, Signals, Held
  <2>2. ASSUME NEW k \in R' .. R' + N - 1
        PROVE  SlotOK(k)'
    <3>1. k \in Nat /\ SlotOK(k) /\ Pos(k) \in Index
      BY <1>c, <1>1, <2>2, PosType DEF Session
    <3>2. CASE k = T
      <4>1. slots'[Pos(k)] = [slots[Pos(k)] EXCEPT !.buffer = Torn]
        BY <1>6, <1>2, <3>2 DEF Types
      <4>2. slots[Pos(k)] \in Slot
        BY <3>1 DEF Types
      <4>3. slots'[Pos(k)].requestTime /\ ~slots'[Pos(k)].snapshotTime
        BY <4>1, <4>2, <1>3, <3>2 DEF Slot, NextSlot
      <4> QED BY <4>3, <1>1, <1>2, <3>2, <1>c DEF SlotOK, Held, NextSlot
    <3>3. CASE k # T
      <4>1. Pos(k) # Pos(T)
        BY <1>c, <1>1, <1>2, <2>2, <3>1, <3>3, PosDiffers
      <4>2. slots'[Pos(k)] = slots[Pos(k)]
        BY <1>6, <1>2, <3>1, <4>1 DEF Types
      <4> QED BY <1>1, <1>6, <1>c, <3>1, <3>3, <4>2
              DEF SlotOK, Held, HeldSlot, FilledSlot, FreeSlot
    <3> QED BY <3>2, <3>3
  <2> QED BY <1>4, <2>1, <2>2 DEF Session
<1> QED BY <1>5, <1>6 DEF WriteContext

(* The end of the copy makes the slot one that waits for the reader. *)
LEMMA CopySession ==
  ASSUME Types, Session, EndCopy
  PROVE  Session'
<1>c. /\ N \in Nat \ {0} /\ T \in Nat /\ R \in Nat /\ R <= T /\ T <= R + N
      /\ base \in Nat /\ taken \in Nat
  BY Counters DEF Session, Indexes, Types
<1>1. /\ T' = T + 1 /\ R' = R /\ Holding' = Holding
      /\ handler = "copy" /\ handler' = "publish" /\ signals = 0 /\ signals' = 0
      /\ UNCHANGED <<readIndex, filling, pc, reading, base, list>>
  BY <1>c DEF EndCopy, T, R, Holding, readerVars, Session, Signals
<1>2. T < R + N /\ ~Held(T) /\ filling = Pos(T) /\ Pos(T) \in Index
  BY <1>1, <1>c, PosType DEF Session, Signals
<1>3. NextSlot(slots[Pos(T)]) /\ slots[Pos(T)].requestTime
  BY <1>1, <1>2, <1>c DEF Session, SlotOK, NextSlot
<1>4. Indexes'
  <2>1. writeIndex' = Pos(T')
    BY <1>1, <1>2, <1>c, PosAfter DEF EndCopy
  <2>2. Holding => T + 1 <= R + N - 1
    BY <1>2, <1>c DEF Held
  <2> QED BY <2>1, <2>2, <1>1, <1>2, <1>c DEF Session, Indexes
<1>5. Signals'
  <2>1. T' - 1 = T
    BY <1>1, <1>c
  <2> QED BY <2>1, <1>1, <1>2, <1>c DEF Signals
<1>6. ASSUME NEW k \in R' .. R' + N - 1
      PROVE  SlotOK(k)'
  <2>1. k \in Nat /\ SlotOK(k) /\ Pos(k) \in Index
    BY <1>c, <1>1, <1>6, PosType DEF Session
  <2>2. CASE k = T
    <3>1. slots'[Pos(k)] = [slots[Pos(k)] EXCEPT !.buffer = taken + 1]
      BY <1>2, <2>2 DEF Types, EndCopy
    <3>2. slots[Pos(k)] \in Slot
      BY <2>1 DEF Types
    <3>3. /\ slots'[Pos(k)].requestTime /\ ~slots'[Pos(k)].snapshotTime
          /\ slots'[Pos(k)].buffer = taken + 1
      BY <3>1, <3>2, <1>3, <2>2 DEF Slot, NextSlot
    <3>4. taken + 1 = base' + k + 1 /\ k < T' /\ k = T' - 1 /\ ~Held(k)'
      BY <1>1, <1>2, <1>c, <2>2 DEF T, Held
    <3> QED BY <3>3, <3>4, <1>1, <1>c, <2>1 DEF SlotOK, FilledSlot
  <2>3. CASE k # T
    <3>1. Pos(k) # Pos(T)
      BY <1>c, <1>1, <1>2, <1>6, <2>1, <2>3, PosDiffers
    <3>2. slots'[Pos(k)] = slots[Pos(k)]
      BY <1>2, <2>1, <3>1 DEF Types, EndCopy
    <3> QED BY <1>1, <1>c, <2>1, <2>3, <3>2
            DEF SlotOK, Held, HeldSlot, FilledSlot, NextSlot, FreeSlot
  <2> QED BY <2>2, <2>3
<1> QED BY <1>4, <1>5, <1>6 DEF Session

(* The publication completes the slot that was filled last. *)
LEMMA PublishSession ==
  ASSUME Types, Session, PublishSnapshot
  PROVE  Session'
<1>c. /\ N \in Nat \ {0} /\ T \in Nat /\ R \in Nat /\ R <= T /\ T <= R + N
  BY Counters DEF Session, Indexes
<1>1. /\ T' = T /\ R' = R /\ Holding' = Holding
      /\ handler = "publish" /\ handler' = "idle"
      /\ UNCHANGED <<writeIndex, readIndex, signals, filling, pc, reading,
                     base, list>>
  BY DEF PublishSnapshot, T, R, Holding, readerVars, logVars
<1>2. /\ R < T /\ filling = Pos(T - 1) /\ T - 1 \in Nat /\ Pos(T - 1) \in Index
      /\ T - 1 \in R .. R + N - 1 /\ ~Held(T - 1)
  BY <1>1, <1>c, PosType DEF Session, Signals, Indexes, Held
<1>3. FilledSlot(T - 1, slots[Pos(T - 1)])
  BY <1>2, <1>c DEF Session, SlotOK
<1>4. Indexes' /\ Signals'
  BY <1>1 DEF Session, Indexes, Signals, Held
<1>5. ASSUME NEW k \in R' .. R' + N - 1
      PROVE  SlotOK(k)'
  <2>1. k \in Nat /\ SlotOK(k) /\ Pos(k) \in Index
    BY <1>c, <1>1, <1>5, PosType DEF Session
  <2>2. CASE k = T - 1
    <3>1. slots'[Pos(k)] = [slots[Pos(k)] EXCEPT !.snapshotTime = TRUE,
                                                 !.processTime = FALSE]
      BY <1>2, <2>2 DEF Types, PublishSnapshot
    <3>2. slots[Pos(k)] \in Slot
      BY <2>1 DEF Types
    <3>3. /\ slots'[Pos(k)].requestTime /\ slots'[Pos(k)].snapshotTime
          /\ ~slots'[Pos(k)].processTime
          /\ slots'[Pos(k)].buffer = base + k + 1
      BY <3>1, <3>2, <1>3, <2>2 DEF Slot, FilledSlot
    <3>4. k < T' /\ ~Held(k)'
      BY <1>1, <1>2, <1>c, <2>2 DEF Held
    <3> QED BY <3>3, <3>4, <1>1, <1>c, <2>1 DEF SlotOK, FilledSlot
  <2>3. CASE k # T - 1
    <3>1. Pos(k) # Pos(T - 1)
      BY <1>c, <1>1, <1>2, <1>5, <2>1, <2>3, PosDiffers
    <3>2. slots'[Pos(k)] = slots[Pos(k)]
      BY <1>2, <2>1, <3>1 DEF Types, PublishSnapshot
    <3> QED BY <1>1, <1>c, <2>1, <2>3, <3>2
            DEF SlotOK, Held, HeldSlot, FilledSlot, NextSlot, FreeSlot
  <2> QED BY <2>2, <2>3
<1> QED BY <1>4, <1>5 DEF Session

(* Entering the loop of ProcessStackBuffer, or no step at all. *)
LEMMA QuietSession ==
  ASSUME Types, Session, CollectStack \/ UNCHANGED vars
  PROVE  Session'
<1>1. /\ T' = T /\ R' = R /\ Holding' = Holding
      /\ Holding => pc' = pc
      /\ UNCHANGED <<slots, writeIndex, readIndex, signals, handler, filling,
                     reading, base, list>>
  BY DEF CollectStack, vars, T, R, Holding, handlerVars, readerVars, logVars
<1>2. Indexes' /\ Signals'
  BY <1>1 DEF Session, Indexes, Signals, Held
<1>3. ASSUME NEW k \in R' .. R' + N - 1
      PROVE  SlotOK(k)'
  BY <1>1, <1>3
     DEF Session, SlotOK, Held, HeldSlot, FilledSlot, NextSlot, FreeSlot
<1> QED BY <1>2, <1>3 DEF Session

-----------------------------------------------------------------------------
(* The invariant holds before the first session. *)
LEMMA InitIInv == Init => IInv
<1> SUFFICES ASSUME Init PROVE IInv
  OBVIOUS
<1>1. Types
  <2>1. 0 \in Index
    BY NType DEF Index, N
  <2>2. slots \in [Index -> Slot]
    BY DEF Init, EmptySlot, Slot, Torn
  <2> QED BY <2>1, <2>2 DEF Init, Types
<1>2. ~init /\ BetweenSessions
  BY DEF Init, BetweenSessions
<1> QED BY <1>1, <1>2 DEF IInv

(* A session without an old signal stays as Session says. *)
LEMMA SessionStep ==
  ASSUME Types, init, ~stray, Session, [Next]_vars, init'
  PROVE  Session'
<1>1. ~InitSampler /\ ~Deinit
  BY DEF InitSampler, Deinit
<1> QED BY <1>1, RequestSession, ReadSession, UnwindSession, ReleaseSession,
           SignalSession, CopySession, PublishSession, QuietSession
        DEF Next, Library

(* Between two sessions only a leftover signal comes, or a session begins. *)
LEMMA StepBetween ==
  ASSUME Types, ~init, BetweenSessions, [Next]_vars
  PROVE  InitSampler \/ (BetweenSessions' /\ UNCHANGED <<init, stray, logVars>>)
<1>1. /\ ~SendSampleRequest /\ ~CollectStack /\ ~GetReadContext /\ ~DoUnwind
      /\ ~ReleaseSlot /\ ~Deinit /\ ~EndCopy /\ ~PublishSnapshot
  BY DEF BetweenSessions, SendSampleRequest, CollectStack, GetReadContext,
         DoUnwind, ReleaseSlot, Release, Deinit, EndCopy, PublishSnapshot
<1>2. CASE WriteContext
  BY <1>2 DEF WriteContext, BetweenSessions, readerVars, logVars
<1>3. CASE UNCHANGED vars
  BY <1>3 DEF vars, BetweenSessions, handlerVars, readerVars, logVars
<1> QED BY <1>1, <1>2, <1>3 DEF Next, Library

(* Every step keeps the invariant. *)
LEMMA NextIInv == IInv /\ [Next]_vars => IInv'
<1> SUFFICES ASSUME IInv, [Next]_vars PROVE IInv'
  OBVIOUS
<1>t. Types /\ Types'
  BY TypesInductive DEF IInv
<1>1. CASE ~init
  <2>1. CASE InitSampler
    <3>1. init'
      BY <2>1 DEF InitSampler
    <3>2. ~stray' => Session'
      BY <1>t, <1>1, <2>1, InitSession DEF IInv
    <3> QED BY <1>t, <3>1, <3>2 DEF IInv
  <2>2. CASE BetweenSessions' /\ UNCHANGED <<init, stray, logVars>>
    BY <1>t, <1>1, <2>2 DEF IInv
  <2> QED BY <1>t, <1>1, <2>1, <2>2, StepBetween DEF IInv
<1>2. CASE Deinit
  BY <1>t, <1>2 DEF Deinit, BetweenSessions, handlerVars, readerVars, IInv
<1>3. CASE init /\ ~Deinit
  <2>1. init' /\ stray' = stray
    BY <1>3 DEF Next, Library, InitSampler, SendSampleRequest, CollectStack,
       GetReadContext, DoUnwind, ReleaseSlot, Release, WriteContext, EndCopy,
       PublishSnapshot, vars, IInv, Types
  <2>2. ~stray => Session'
    BY <1>t, <1>3, <2>1, SessionStep DEF IInv
  <2> QED BY <1>t, <2>1, <2>2 DEF IInv
<1> QED BY <1>1, <1>2, <1>3

(* The invariant is one of the specification. *)
LEMMA Invariant == Spec => []IInv
<1>1. Init => IInv
  BY InitIInv
<1>2. IInv /\ [Next]_vars => IInv'
  BY NextIInv
<1> QED BY <1>1, <1>2, PTL DEF Spec

(* ReaderOwnsSlot, for every number of slots: while the watchdog thread
   unwinds a slot the signal handler does not write there, however late the
   signals are, if the session began with none pending. *)
THEOREM ReaderOwns == Spec => []ReaderOwnsSlot
<1>1. IInv => ReaderOwnsSlot
  <2> SUFFICES ASSUME IInv, ~stray, pc \in {"unwind", "clearRequest"},
                      handler # "idle", filling = reading
               PROVE  FALSE
    BY DEF ReaderOwnsSlot
  <2>1. Types /\ Session /\ Holding
    BY DEF IInv, BetweenSessions, Holding
  <2>2. /\ N \in Nat \ {0} /\ T \in Nat /\ R \in Nat /\ R <= T
        /\ T <= R + N - 1 /\ reading = Pos(R + N - 1)
    BY <2>1, Counters DEF Session, Indexes
  <2>3. CASE handler = "copy"
    <3>1. filling = Pos(T) /\ T # R + N - 1
      BY <2>1, <2>2, <2>3 DEF Session, Signals, Held
    <3> QED BY <2>2, <3>1, PosDiffers
  <2>4. CASE handler = "publish"
    <3>1. filling = Pos(T - 1) /\ T - 1 \in Nat /\ R <= T - 1
      BY <2>1, <2>2, <2>4 DEF Session, Signals
    <3> QED BY <2>2, <3>1, PosDiffers
  <2> QED BY <2>1, <2>3, <2>4 DEF Types
<1> QED BY <1>1, Invariant, PTL

-----------------------------------------------------------------------------
(* Every step of the ring is one of the log, or leaves it alone. *)
LEMMA StepIsLogged ==
  IInv /\ [Next]_vars => [stray \/ Log!Next]_logVars
<1> SUFFICES ASSUME IInv, [Next]_vars, ~stray PROVE [Log!Next]_logVars
  OBVIOUS
<1>t. Types
  BY DEF IInv
<1>1. CASE EndCopy
  BY <1>1 DEF EndCopy, Log!Next, Log!Take
<1>2. CASE DoUnwind
  <2>1. Session
    BY <1>2 DEF DoUnwind, IInv, BetweenSessions
  <2>2. list' = Append(list, base + Len(list) + 1) /\ base + Len(list) < taken
    BY <1>t, <1>2, <2>1, UnwindSession
  <2>3. UNCHANGED <<taken, base>>
    BY <1>2 DEF DoUnwind
  <2> QED BY <2>2, <2>3 DEF Log!Next, Log!Unwind
<1>3. CASE Deinit
  BY <1>3 DEF Deinit, Log!Next, Log!NewSession
<1>4. CASE ~(EndCopy \/ DoUnwind \/ Deinit)
  BY <1>4 DEF Next, Library, InitSampler, SendSampleRequest, CollectStack,
     GetReadContext, ReleaseSlot, Release, WriteContext, PublishSnapshot, vars,
     logVars
<1> QED BY <1>1, <1>2, <1>3, <1>4

(* LogSpec, for every number of slots: the lock-free ring implements the log
   of SampleLog, each snapshot unwound whole, once and in its order. *)
THEOREM RingImplementsLog == Spec => LogSpec
<1>1. Init => Log!Init
  BY DEF Init, Log!Init
<1>2. IInv /\ [Next]_vars => [stray \/ Log!Next]_logVars
  BY StepIsLogged
<1> QED BY <1>1, <1>2, Invariant, PTL DEF Spec, LogSpec

=============================================================================
