--------------------------- MODULE StreamQ_proofs ---------------------------
(***************************************************************************)
(* Proofs about the stream queue, for every set of threads and every       *)
(* capacity, and about the deadlines of its waits, for every width of the  *)
(* two types.                                                              *)
(***************************************************************************)
EXTENDS Deadline, FiniteSetTheorems, SequenceTheorems, TLAPS

States == {"idle"} \cup PushStates \cup PopStates \cup SizeStates

(* A thread holds the mutex exactly while its statement is inside the lock.*)
MutexInv == \A t \in Threads : pc[t] \in Locked <=> mutex = t

(* The write index is nentries slots ahead of the read index. *)
RingInv == write_idx = (read_idx + nentries) % Capacity

EmptyHanded == {"idle", "pop_wait", "pop_lock", "pop_fetch", "size_lock", "size_read"}

(* What a thread carries: a pusher its message, which is in the ring once  *)
(* it is stored; a popper inside the lock the oldest message of the ring.  *)
CarryInv == \A t \in Threads : /\ pc[t] \in PushStates => arg[t] \in Msgs
                               /\ pc[t] \in EmptyHanded => arg[t] = NoMsg
                               /\ pc[t] = "push_advance" => arg[t] = msg[write_idx]
                               /\ pc[t] = "pop_advance" => arg[t] = msg[read_idx]

(* The inductive invariant: the accounting of the semaphores needs to know *)
(* that one thread at a time is between the lock and the unlock.           *)
IInv == TypeOK /\ MutexInv /\ RingInv /\ CarryInv /\ SlotAccounting /\ EntryAccounting

-----------------------------------------------------------------------------
(* The indices advance around the ring (advance_idx, streamq.c:48). *)
LEMMA AdvanceIdx ==
  ASSUME NEW i \in Slots
  PROVE  /\ advance_idx(i) \in Slots
         /\ advance_idx(i) = IF i + 1 = Capacity THEN 0 ELSE i + 1
BY StreamQAssumption, SMT DEF Slots, advance_idx

(* Remainders near the ring: a number of at most one turn and a bit.       *)
LEMMA Wrap ==
  ASSUME NEW k \in Nat, k < 2 * Capacity
  PROVE  k % Capacity = IF k < Capacity THEN k ELSE k - Capacity
<1>1. Capacity \in Nat /\ Capacity > 0
  BY StreamQAssumption
<1>2. CASE k < Capacity
  BY <1>1, <1>2
<1>3. CASE k >= Capacity
  <2>1. k - Capacity \in 0 .. Capacity - 1  BY <1>1, <1>3
  <2> QED  BY <1>1, <1>3, <2>1
<1> QED  BY <1>1, <1>2, <1>3

(* Advancing the far end, or the near end, of n consecutive slots. *)
LEMMA RingMoves ==
  ASSUME NEW r \in Slots, NEW n \in 0 .. Capacity
  PROVE  /\ n < Capacity => advance_idx((r + n) % Capacity) = (r + (n + 1)) % Capacity
         /\ n > 0 => (advance_idx(r) + (n - 1)) % Capacity = (r + n) % Capacity
         /\ (r + n) % Capacity \in Slots
<1>1. Capacity \in Nat /\ Capacity > 0 /\ r \in Nat /\ r < Capacity /\ n \in Nat /\ n <= Capacity
  BY StreamQAssumption DEF Slots
<1>2. (r + n) % Capacity = IF r + n < Capacity THEN r + n ELSE r + n - Capacity
  BY <1>1, Wrap
<1>3. (r + n) % Capacity \in Slots
  BY <1>1, <1>2 DEF Slots
<1>4. ASSUME n < Capacity
      PROVE  advance_idx((r + n) % Capacity) = (r + (n + 1)) % Capacity
  <2>1. (r + (n + 1)) % Capacity = IF r + (n + 1) < Capacity THEN r + (n + 1) ELSE r + (n + 1) - Capacity
    BY <1>1, <1>4, Wrap
  <2> QED  BY <1>1, <1>2, <1>3, <1>4, <2>1, AdvanceIdx
<1>5. ASSUME n > 0
      PROVE  (advance_idx(r) + (n - 1)) % Capacity = (r + n) % Capacity
  <2>1. advance_idx(r) = IF r + 1 = Capacity THEN 0 ELSE r + 1
    BY AdvanceIdx
  <2>2. CASE r + 1 = Capacity
    <3>1. (n - 1) % Capacity = n - 1  BY <1>1, <1>5, Wrap
    <3> QED  BY <1>1, <1>2, <1>5, <2>1, <2>2, <3>1
  <2>3. CASE r + 1 # Capacity
    BY <1>1, <1>5, <2>1, <2>3
  <2> QED  BY <2>2, <2>3
<1> QED  BY <1>3, <1>4, <1>5

(* Only finitely many threads are at any statement. *)
LEMMA AtFinite ==
  ASSUME NEW S
  PROVE  IsFiniteSet(At(S)) /\ Cardinality(At(S)) \in Nat
<1>1. At(S) \in SUBSET Threads  BY DEF At
<1>2. IsFiniteSet(At(S))  BY <1>1, StreamQAssumption, FS_Subset
<1> QED  BY <1>2, FS_CardinalityType

LEMMA AtPositive ==
  ASSUME NEW S, NEW t \in Threads, pc[t] \in S
  PROVE  Cardinality(At(S)) >= 1
<1>1. At(S) # {} /\ IsFiniteSet(At(S)) /\ Cardinality(At(S)) \in Nat
  BY AtFinite DEF At
<1> QED  BY <1>1, FS_EmptySet

(* A thread that moves from one statement to another leaves the sets of    *)
(* statements it was in and enters those it goes to, and no other thread   *)
(* moves with it.                                                          *)
LEMMA MoveCardinality ==
  ASSUME TypeOK, NEW t \in Threads, NEW from, NEW to, Goto(t, from, to), NEW S
  PROVE  /\ Cardinality(At(S)) \in Nat /\ Cardinality(At(S)') \in Nat
         /\ Cardinality(At(S)') =
              IF from \in S THEN IF to \in S THEN Cardinality(At(S)) ELSE Cardinality(At(S)) - 1
                            ELSE IF to \in S THEN Cardinality(At(S)) + 1 ELSE Cardinality(At(S))
<1>1. pc[t] = from /\ pc' = [pc EXCEPT ![t] = to] /\ pc \in [Threads -> States]
  BY DEF Goto, TypeOK, States
<1>2. IsFiniteSet(At(S)) /\ Cardinality(At(S)) \in Nat
  BY AtFinite
<1>3. CASE (from \in S) <=> (to \in S)
  <2>1. At(S)' = At(S)  BY <1>1, <1>3 DEF At
  <2> QED  BY <2>1, <1>2, <1>3
<1>4. CASE from \in S /\ to \notin S
  <2>1. At(S)' = At(S) \ {t} /\ t \in At(S)  BY <1>1, <1>4 DEF At
  <2>2. /\ Cardinality(At(S) \ {t}) = Cardinality(At(S)) - 1
        /\ Cardinality(At(S) \ {t}) \in Nat
    BY <2>1, <1>2, FS_RemoveElement, FS_CardinalityType
  <2> QED  BY <2>1, <2>2, <1>2, <1>4
<1>5. CASE from \notin S /\ to \in S
  <2>1. At(S)' = At(S) \cup {t} /\ t \notin At(S)  BY <1>1, <1>5 DEF At
  <2>2. Cardinality(At(S) \cup {t}) = Cardinality(At(S)) + 1
    BY <2>1, <1>2, FS_AddElement
  <2> QED  BY <2>1, <2>2, <1>2, <1>5
<1> QED  BY <1>3, <1>4, <1>5

-----------------------------------------------------------------------------
LEMMA InitInv == Init => IInv
<1> SUFFICES ASSUME Init PROVE IInv
  OBVIOUS
<1>1. 0 \in Slots /\ Capacity \in Nat
  BY StreamQAssumption DEF Slots
<1>2. TypeOK
  BY <1>1 DEF Init, TypeOK
<1>3. MutexInv
  BY StreamQAssumption DEF Init, MutexInv, Locked
<1>4. \A S : "idle" \notin S => Cardinality(At(S)) = 0
  <2>1. \A S : "idle" \notin S => At(S) = {}
    BY DEF Init, At
  <2> QED  BY <2>1, FS_EmptySet
<1>5. /\ Cardinality(Reserved) = 0 /\ Cardinality(Owed) = 0
      /\ Cardinality(Unannounced) = 0 /\ Cardinality(Promised) = 0
  BY <1>4 DEF Reserved, Owed, Unannounced, Promised
<1>6. SlotAccounting /\ EntryAccounting
  BY <1>1, <1>5 DEF Init, SlotAccounting, EntryAccounting
<1>7. RingInv /\ CarryInv
  BY <1>1, StreamQAssumption DEF Init, RingInv, CarryInv, PushStates, EmptyHanded
<1> QED  BY <1>2, <1>3, <1>6, <1>7 DEF IInv

(* How each move between statements changes the four sets of threads that  *)
(* the accounting counts: one instance of MoveCardinality for each.        *)
LEMMA MoveCounts ==
  ASSUME TypeOK, NEW t \in Threads, NEW from, NEW to, Goto(t, from, to)
  PROVE  LET R == {"push_lock", "push_store", "push_advance"}
             O == {"pop_post"}
             U == {"push_post"}
             P == {"pop_lock", "pop_fetch", "pop_advance"}
             Moved(c, cc, S) == /\ c \in Nat /\ cc \in Nat
                                /\ cc = IF from \in S THEN IF to \in S THEN c ELSE c - 1
                                                      ELSE IF to \in S THEN c + 1 ELSE c
         IN  /\ Moved(Cardinality(Reserved), Cardinality(Reserved'), R)
             /\ Moved(Cardinality(Owed), Cardinality(Owed'), O)
             /\ Moved(Cardinality(Unannounced), Cardinality(Unannounced'), U)
             /\ Moved(Cardinality(Promised), Cardinality(Promised'), P)
BY MoveCardinality DEF Reserved, Owed, Unannounced, Promised

(* A step of any thread preserves the invariant. *)
LEMMA StepInv == IInv /\ [Next]_vars => IInv'
<1> SUFFICES ASSUME IInv, [Next]_vars PROVE IInv'
  OBVIOUS
<1> USE DEF IInv
<1>0. CASE UNCHANGED vars
  BY <1>0 DEF vars, ring, sems, TypeOK, MutexInv, RingInv, CarryInv, SlotAccounting,
              EntryAccounting, Reserved, Owed, Unannounced, Promised, At
<1>1. ASSUME NEW t \in Threads, PushCall(t) PROVE IInv'
  <2>1. Goto(t, "idle", "push_wait")  BY <1>1 DEF PushCall
  <2>3. SlotAccounting' /\ EntryAccounting'
    BY <1>1, <2>1, MoveCounts DEF PushCall, ring, sems, SlotAccounting, EntryAccounting, TypeOK
  <2>4. TypeOK'
    BY <1>1 DEF PushCall, Goto, Carry, ring, sems, TypeOK, PushStates, PopStates, SizeStates
  <2>5. MutexInv'
    BY <1>1, StreamQAssumption DEF PushCall, Goto, ring, sems, MutexInv, TypeOK, Locked
  <2>6. RingInv'
    BY <1>1 DEF PushCall, ring, sems, RingInv, TypeOK
  <2>7. CarryInv'
    BY <1>1 DEF PushCall, Goto, ring, sems, CarryInv, MutexInv, TypeOK, PushStates, EmptyHanded, Locked, Carry
  <2> QED  BY <2>3, <2>4, <2>5, <2>6, <2>7
<1>2. ASSUME NEW t \in Threads, PushWait(t) PROVE IInv'
  <2>1. Goto(t, "push_wait", "push_lock")  BY <1>2 DEF PushWait
  <2>3. SlotAccounting' /\ EntryAccounting'
    BY <1>2, <2>1, MoveCounts DEF PushWait, ring, sems, SlotAccounting, EntryAccounting, TypeOK
  <2>4. TypeOK'
    BY <1>2 DEF PushWait, Goto, ring, sems, TypeOK, PushStates, PopStates, SizeStates
  <2>5. MutexInv'
    BY <1>2, StreamQAssumption DEF PushWait, Goto, ring, sems, MutexInv, TypeOK, Locked
  <2>6. RingInv'
    BY <1>2 DEF PushWait, ring, sems, RingInv, TypeOK
  <2>7. CarryInv'
    BY <1>2 DEF PushWait, Goto, ring, sems, CarryInv, MutexInv, TypeOK, PushStates, EmptyHanded, Locked
  <2> QED  BY <2>3, <2>4, <2>5, <2>6, <2>7
<1>3. ASSUME NEW t \in Threads, PushTimeout(t) PROVE IInv'
  <2>1. Goto(t, "push_wait", "idle")  BY <1>3 DEF PushTimeout
  <2>3. SlotAccounting' /\ EntryAccounting'
    BY <1>3, <2>1, MoveCounts DEF PushTimeout, ring, sems, SlotAccounting, EntryAccounting, TypeOK
  <2>4. TypeOK'
    BY <1>3 DEF PushTimeout, Goto, Carry, ring, sems, TypeOK, PushStates, PopStates, SizeStates
  <2>5. MutexInv'
    BY <1>3, StreamQAssumption DEF PushTimeout, Goto, ring, sems, MutexInv, TypeOK, Locked
  <2>6. RingInv'
    BY <1>3 DEF PushTimeout, ring, sems, RingInv, TypeOK
  <2>7. CarryInv'
    BY <1>3 DEF PushTimeout, Goto, ring, sems, CarryInv, MutexInv, TypeOK, PushStates, EmptyHanded, Locked, Carry
  <2> QED  BY <2>3, <2>4, <2>5, <2>6, <2>7
<1>4. ASSUME NEW t \in Threads, PushStore(t) PROVE IInv'
  <2>1. Goto(t, "push_store", "push_advance")  BY <1>4 DEF PushStore
  <2>3. SlotAccounting' /\ EntryAccounting'
    BY <1>4, <2>1, MoveCounts DEF PushStore, ring, sems, SlotAccounting, EntryAccounting, TypeOK
  <2>4. TypeOK'
    BY <1>4, <2>1 DEF PushStore, Goto, CarryInv, ring, sems, TypeOK, PushStates, PopStates, SizeStates
  <2>5. MutexInv'
    BY <1>4, StreamQAssumption DEF PushStore, Goto, ring, sems, MutexInv, TypeOK, Locked
  <2>6. RingInv'
    BY <1>4 DEF PushStore, ring, sems, RingInv, TypeOK
  <2>7. CarryInv'
    BY <1>4 DEF PushStore, Goto, ring, sems, CarryInv, MutexInv, TypeOK, PushStates, EmptyHanded, Locked, CarryInv
  <2> QED  BY <2>3, <2>4, <2>5, <2>6, <2>7
<1>5. ASSUME NEW t \in Threads, PushAdvance(t) PROVE IInv'
  <2>1. Goto(t, "push_advance", "push_post")  BY <1>5 DEF PushAdvance
  <2>3. SlotAccounting' /\ EntryAccounting'
    BY <1>5, <2>1, MoveCounts DEF PushAdvance, ring, sems, SlotAccounting, EntryAccounting, TypeOK
  <2>4. TypeOK'
    BY <1>5, AdvanceIdx DEF PushAdvance, Goto, ring, sems, TypeOK, PushStates, PopStates, SizeStates
  <2>5. MutexInv'
    BY <1>5, StreamQAssumption DEF PushAdvance, Goto, ring, sems, MutexInv, TypeOK, Locked
  <2>6. RingInv'
    <3>1. nentries < Capacity /\ nentries \in 0 .. Capacity
      BY <1>5, <2>1, MoveCounts, StreamQAssumption DEF SlotAccounting, TypeOK
    <3>2. advance_idx((read_idx + nentries) % Capacity) = (read_idx + (nentries + 1)) % Capacity
      BY <3>1, RingMoves DEF TypeOK
    <3> QED  BY <1>5, <3>2 DEF PushAdvance, sems, RingInv
  <2>7. CarryInv'
    BY <1>5 DEF PushAdvance, Goto, ring, sems, CarryInv, MutexInv, TypeOK, PushStates, EmptyHanded, Locked
  <2> QED  BY <2>3, <2>4, <2>5, <2>6, <2>7
<1>6. ASSUME NEW t \in Threads, PushPost(t) PROVE IInv'
  <2>1. Goto(t, "push_post", "idle")  BY <1>6 DEF PushPost
  <2>3. SlotAccounting' /\ EntryAccounting'
    BY <1>6, <2>1, MoveCounts DEF PushPost, ring, sems, SlotAccounting, EntryAccounting, TypeOK
  <2>4. TypeOK'
    BY <1>6 DEF PushPost, Goto, Carry, ring, sems, TypeOK, PushStates, PopStates, SizeStates
  <2>5. MutexInv'
    BY <1>6, StreamQAssumption DEF PushPost, Goto, ring, sems, MutexInv, TypeOK, Locked
  <2>6. RingInv'
    BY <1>6 DEF PushPost, ring, sems, RingInv, TypeOK
  <2>7. CarryInv'
    BY <1>6 DEF PushPost, Goto, ring, sems, CarryInv, MutexInv, TypeOK, PushStates, EmptyHanded, Locked, Carry
  <2> QED  BY <2>3, <2>4, <2>5, <2>6, <2>7
<1>7. ASSUME NEW t \in Threads, Lock(t, "push_lock", "push_store") PROVE IInv'
  <2>1. Goto(t, "push_lock", "push_store")  BY <1>7 DEF Lock
  <2>3. SlotAccounting' /\ EntryAccounting'
    BY <1>7, <2>1, MoveCounts DEF Lock, ring, sems, SlotAccounting, EntryAccounting, TypeOK
  <2>4. TypeOK'
    BY <1>7 DEF Lock, Goto, ring, sems, TypeOK, PushStates, PopStates, SizeStates
  <2>5. MutexInv'
    BY <1>7, StreamQAssumption DEF Lock, Goto, ring, sems, MutexInv, TypeOK, Locked
  <2>6. RingInv'
    BY <1>7 DEF Lock, ring, sems, RingInv, TypeOK
  <2>7. CarryInv'
    BY <1>7 DEF Lock, Goto, ring, sems, CarryInv, MutexInv, TypeOK, PushStates, EmptyHanded, Locked
  <2> QED  BY <2>3, <2>4, <2>5, <2>6, <2>7
<1>8. ASSUME NEW t \in Threads, PopCall(t) PROVE IInv'
  <2>1. Goto(t, "idle", "pop_wait")  BY <1>8 DEF PopCall
  <2>3. SlotAccounting' /\ EntryAccounting'
    BY <1>8, <2>1, MoveCounts DEF PopCall, ring, sems, SlotAccounting, EntryAccounting, TypeOK
  <2>4. TypeOK'
    BY <1>8 DEF PopCall, Goto, ring, sems, TypeOK, PushStates, PopStates, SizeStates
  <2>5. MutexInv'
    BY <1>8, StreamQAssumption DEF PopCall, Goto, ring, sems, MutexInv, TypeOK, Locked
  <2>6. RingInv'
    BY <1>8 DEF PopCall, ring, sems, RingInv, TypeOK
  <2>7. CarryInv'
    BY <1>8 DEF PopCall, Goto, ring, sems, CarryInv, MutexInv, TypeOK, PushStates, EmptyHanded, Locked
  <2> QED  BY <2>3, <2>4, <2>5, <2>6, <2>7
<1>9. ASSUME NEW t \in Threads, PopWait(t) PROVE IInv'
  <2>1. Goto(t, "pop_wait", "pop_lock")  BY <1>9 DEF PopWait
  <2>3. SlotAccounting' /\ EntryAccounting'
    BY <1>9, <2>1, MoveCounts DEF PopWait, ring, sems, SlotAccounting, EntryAccounting, TypeOK
  <2>4. TypeOK'
    BY <1>9 DEF PopWait, Goto, ring, sems, TypeOK, PushStates, PopStates, SizeStates
  <2>5. MutexInv'
    BY <1>9, StreamQAssumption DEF PopWait, Goto, ring, sems, MutexInv, TypeOK, Locked
  <2>6. RingInv'
    BY <1>9 DEF PopWait, ring, sems, RingInv, TypeOK
  <2>7. CarryInv'
    BY <1>9 DEF PopWait, Goto, ring, sems, CarryInv, MutexInv, TypeOK, PushStates, EmptyHanded, Locked
  <2> QED  BY <2>3, <2>4, <2>5, <2>6, <2>7
<1>10. ASSUME NEW t \in Threads, PopTimeout(t) PROVE IInv'
  <2>1. Goto(t, "pop_wait", "idle")  BY <1>10 DEF PopTimeout
  <2>3. SlotAccounting' /\ EntryAccounting'
    BY <1>10, <2>1, MoveCounts DEF PopTimeout, ring, sems, SlotAccounting, EntryAccounting, TypeOK
  <2>4. TypeOK'
    BY <1>10 DEF PopTimeout, Goto, ring, sems, TypeOK, PushStates, PopStates, SizeStates
  <2>5. MutexInv'
    BY <1>10, StreamQAssumption DEF PopTimeout, Goto, ring, sems, MutexInv, TypeOK, Locked
  <2>6. RingInv'
    BY <1>10 DEF PopTimeout, ring, sems, RingInv, TypeOK
  <2>7. CarryInv'
    BY <1>10 DEF PopTimeout, Goto, ring, sems, CarryInv, MutexInv, TypeOK, PushStates, EmptyHanded, Locked
  <2> QED  BY <2>3, <2>4, <2>5, <2>6, <2>7
<1>11. ASSUME NEW t \in Threads, PopFetch(t) PROVE IInv'
  <2>1. Goto(t, "pop_fetch", "pop_advance")  BY <1>11 DEF PopFetch
  <2>3. SlotAccounting' /\ EntryAccounting'
    BY <1>11, <2>1, MoveCounts DEF PopFetch, ring, sems, SlotAccounting, EntryAccounting, TypeOK
  <2>4. TypeOK'
    BY <1>11 DEF PopFetch, Goto, Carry, ring, sems, TypeOK, PushStates, PopStates, SizeStates
  <2>5. MutexInv'
    BY <1>11, StreamQAssumption DEF PopFetch, Goto, ring, sems, MutexInv, TypeOK, Locked
  <2>6. RingInv'
    BY <1>11 DEF PopFetch, ring, sems, RingInv, TypeOK
  <2>7. CarryInv'
    BY <1>11 DEF PopFetch, Goto, ring, sems, CarryInv, MutexInv, TypeOK, PushStates, EmptyHanded, Locked, Carry
  <2> QED  BY <2>3, <2>4, <2>5, <2>6, <2>7
<1>12. ASSUME NEW t \in Threads, PopAdvance(t) PROVE IInv'
  <2>1. Goto(t, "pop_advance", "pop_post")  BY <1>12 DEF PopAdvance
  <2>2. nentries >= 1
    BY <1>12, <2>1, MoveCounts DEF PopAdvance, EntryAccounting, TypeOK
  <2>3. SlotAccounting' /\ EntryAccounting'
    <3>1. SlotAccounting'
      BY <1>12, <2>1, <2>2, MoveCounts, StreamQAssumption DEF PopAdvance, sems, SlotAccounting, TypeOK
    <3>2. EntryAccounting'
      BY <1>12, <2>1, <2>2, MoveCounts DEF PopAdvance, sems, EntryAccounting, TypeOK
    <3> QED  BY <3>1, <3>2
  <2>4. TypeOK'
    BY <1>12, <2>2, AdvanceIdx DEF PopAdvance, Goto, ring, sems, TypeOK, PushStates, PopStates, SizeStates
  <2>5. MutexInv'
    BY <1>12, StreamQAssumption DEF PopAdvance, Goto, ring, sems, MutexInv, TypeOK, Locked
  <2>6. RingInv'
    <3>1. nentries > 0 /\ nentries \in 0 .. Capacity
      BY <2>1, <2>2, MoveCounts, StreamQAssumption DEF SlotAccounting, TypeOK
    <3>2. (advance_idx(read_idx) + (nentries - 1)) % Capacity = (read_idx + nentries) % Capacity
      BY <3>1, RingMoves DEF TypeOK
    <3> QED  BY <1>12, <3>2 DEF PopAdvance, sems, RingInv
  <2>7. CarryInv'
    BY <1>12 DEF PopAdvance, Goto, ring, sems, CarryInv, MutexInv, TypeOK, PushStates, EmptyHanded, Locked
  <2> QED  BY <2>3, <2>4, <2>5, <2>6, <2>7
<1>13. ASSUME NEW t \in Threads, PopPost(t) PROVE IInv'
  <2>1. Goto(t, "pop_post", "idle")  BY <1>13 DEF PopPost
  <2>3. SlotAccounting' /\ EntryAccounting'
    BY <1>13, <2>1, MoveCounts DEF PopPost, ring, sems, SlotAccounting, EntryAccounting, TypeOK
  <2>4. TypeOK'
    BY <1>13 DEF PopPost, Goto, Carry, ring, sems, TypeOK, PushStates, PopStates, SizeStates
  <2>5. MutexInv'
    BY <1>13, StreamQAssumption DEF PopPost, Goto, ring, sems, MutexInv, TypeOK, Locked
  <2>6. RingInv'
    BY <1>13 DEF PopPost, ring, sems, RingInv, TypeOK
  <2>7. CarryInv'
    BY <1>13 DEF PopPost, Goto, ring, sems, CarryInv, MutexInv, TypeOK, PushStates, EmptyHanded, Locked, Carry
  <2> QED  BY <2>3, <2>4, <2>5, <2>6, <2>7
<1>14. ASSUME NEW t \in Threads, Lock(t, "pop_lock", "pop_fetch") PROVE IInv'
  <2>1. Goto(t, "pop_lock", "pop_fetch")  BY <1>14 DEF Lock
  <2>3. SlotAccounting' /\ EntryAccounting'
    BY <1>14, <2>1, MoveCounts DEF Lock, ring, sems, SlotAccounting, EntryAccounting, TypeOK
  <2>4. TypeOK'
    BY <1>14 DEF Lock, Goto, ring, sems, TypeOK, PushStates, PopStates, SizeStates
  <2>5. MutexInv'
    BY <1>14, StreamQAssumption DEF Lock, Goto, ring, sems, MutexInv, TypeOK, Locked
  <2>6. RingInv'
    BY <1>14 DEF Lock, ring, sems, RingInv, TypeOK
  <2>7. CarryInv'
    BY <1>14 DEF Lock, Goto, ring, sems, CarryInv, MutexInv, TypeOK, PushStates, EmptyHanded, Locked
  <2> QED  BY <2>3, <2>4, <2>5, <2>6, <2>7
<1>15. ASSUME NEW t \in Threads, SizeCall(t) PROVE IInv'
  <2>1. Goto(t, "idle", "size_lock")  BY <1>15 DEF SizeCall
  <2>3. SlotAccounting' /\ EntryAccounting'
    BY <1>15, <2>1, MoveCounts DEF SizeCall, ring, sems, SlotAccounting, EntryAccounting, TypeOK
  <2>4. TypeOK'
    BY <1>15 DEF SizeCall, Goto, ring, sems, TypeOK, PushStates, PopStates, SizeStates
  <2>5. MutexInv'
    BY <1>15, StreamQAssumption DEF SizeCall, Goto, ring, sems, MutexInv, TypeOK, Locked
  <2>6. RingInv'
    BY <1>15 DEF SizeCall, ring, sems, RingInv, TypeOK
  <2>7. CarryInv'
    BY <1>15 DEF SizeCall, Goto, ring, sems, CarryInv, MutexInv, TypeOK, PushStates, EmptyHanded, Locked
  <2> QED  BY <2>3, <2>4, <2>5, <2>6, <2>7
<1>16. ASSUME NEW t \in Threads, SizeRead(t) PROVE IInv'
  <2>1. Goto(t, "size_read", "size_return")  BY <1>16 DEF SizeRead
  <2>3. SlotAccounting' /\ EntryAccounting'
    BY <1>16, <2>1, MoveCounts DEF SizeRead, ring, sems, SlotAccounting, EntryAccounting, TypeOK
  <2>4. TypeOK'
    BY <1>16 DEF SizeRead, Goto, Carry, ring, sems, TypeOK, PushStates, PopStates, SizeStates
  <2>5. MutexInv'
    BY <1>16, StreamQAssumption DEF SizeRead, Goto, ring, sems, MutexInv, TypeOK, Locked
  <2>6. RingInv'
    BY <1>16 DEF SizeRead, ring, sems, RingInv, TypeOK
  <2>7. CarryInv'
    BY <1>16 DEF SizeRead, Goto, ring, sems, CarryInv, MutexInv, TypeOK, PushStates, EmptyHanded, Locked, Carry
  <2> QED  BY <2>3, <2>4, <2>5, <2>6, <2>7
<1>17. ASSUME NEW t \in Threads, SizeReturn(t) PROVE IInv'
  <2>1. Goto(t, "size_return", "idle")  BY <1>17 DEF SizeReturn
  <2>3. SlotAccounting' /\ EntryAccounting'
    BY <1>17, <2>1, MoveCounts DEF SizeReturn, ring, sems, SlotAccounting, EntryAccounting, TypeOK
  <2>4. TypeOK'
    BY <1>17 DEF SizeReturn, Goto, Carry, ring, sems, TypeOK, PushStates, PopStates, SizeStates
  <2>5. MutexInv'
    BY <1>17, StreamQAssumption DEF SizeReturn, Goto, ring, sems, MutexInv, TypeOK, Locked
  <2>6. RingInv'
    BY <1>17 DEF SizeReturn, ring, sems, RingInv, TypeOK
  <2>7. CarryInv'
    BY <1>17 DEF SizeReturn, Goto, ring, sems, CarryInv, MutexInv, TypeOK, PushStates, EmptyHanded, Locked, Carry
  <2> QED  BY <2>3, <2>4, <2>5, <2>6, <2>7
<1>18. ASSUME NEW t \in Threads, Lock(t, "size_lock", "size_read") PROVE IInv'
  <2>1. Goto(t, "size_lock", "size_read")  BY <1>18 DEF Lock
  <2>3. SlotAccounting' /\ EntryAccounting'
    BY <1>18, <2>1, MoveCounts DEF Lock, ring, sems, SlotAccounting, EntryAccounting, TypeOK
  <2>4. TypeOK'
    BY <1>18 DEF Lock, Goto, ring, sems, TypeOK, PushStates, PopStates, SizeStates
  <2>5. MutexInv'
    BY <1>18, StreamQAssumption DEF Lock, Goto, ring, sems, MutexInv, TypeOK, Locked
  <2>6. RingInv'
    BY <1>18 DEF Lock, ring, sems, RingInv, TypeOK
  <2>7. CarryInv'
    BY <1>18 DEF Lock, Goto, ring, sems, CarryInv, MutexInv, TypeOK, PushStates, EmptyHanded, Locked
  <2> QED  BY <2>3, <2>4, <2>5, <2>6, <2>7
<1> QED
  BY <1>0, <1>1, <1>2, <1>3, <1>4, <1>5, <1>6, <1>7, <1>8, <1>9, <1>10, <1>11, <1>12, <1>13, <1>14, <1>15, <1>16, <1>17, <1>18 DEF Next, Threads

(* The invariant holds in every reachable state, whatever the threads, the *)
(* messages and the capacity.                                              *)
THEOREM Invariance == Spec => []IInv
BY InitInv, StepInv, PTL DEF Spec

-----------------------------------------------------------------------------
(* No semaphore and no entry counter goes below zero, no index leaves the  *)
(* ring (io4e_streamq_push, io4e_streamq_pop).                             *)
THEOREM TypeCorrect == Spec => []TypeOK
<1>1. IInv => TypeOK  BY DEF IInv
<1> QED  BY Invariance, <1>1, PTL

(* write_sem and the number of entries never drift apart, so a push past   *)
(* its wait finds a free slot.                                             *)
THEOREM SlotsAccounted == Spec => []SlotAccounting
<1>1. IInv => SlotAccounting  BY DEF IInv
<1> QED  BY Invariance, <1>1, PTL

(* read_sem and the number of entries never drift apart, so a pop past its *)
(* wait finds a message, timeouts and other threads notwithstanding.       *)
THEOREM EntriesAccounted == Spec => []EntryAccounting
<1>1. IInv => EntryAccounting  BY DEF IInv
<1> QED  BY Invariance, <1>1, PTL

(* No lost wakeup: a push and a pop never sleep at the same time with no   *)
(* thread left to wake them.                                               *)
THEOREM NoLostWakeup == Spec => []NoMutualBlock
<1>1. ASSUME IInv, ~NoMutualBlock PROVE FALSE
  <2>1. /\ write_sem = 0 /\ read_sem = 0
        /\ \A t \in Threads : pc[t] \in {"idle", "push_wait", "pop_wait"}
    BY <1>1 DEF NoMutualBlock
  <2>2. Reserved = {} /\ Owed = {} /\ Unannounced = {} /\ Promised = {}
    BY <2>1 DEF Reserved, Owed, Unannounced, Promised, At
  <2>3. nentries = Capacity /\ nentries = 0
    BY <1>1, <2>1, <2>2, FS_EmptySet, StreamQAssumption
       DEF IInv, TypeOK, SlotAccounting, EntryAccounting
  <2> QED  BY <2>3, StreamQAssumption
<1> QED  BY Invariance, <1>1, PTL

-----------------------------------------------------------------------------
(* The refinement.  AbsOps and AbsVals abbreviate the operation and the    *)
(* value of each thread under the mapping of StreamQ.                      *)
AbsOps == [t \in Threads |-> AbsOp(pc[t])]

LEMMA AbsOpOf ==
  /\ AbsOp("idle") = "idle"
  /\ \A s \in {"push_wait", "push_lock", "push_store", "push_advance"} : AbsOp(s) = "push"
  /\ AbsOp("push_post") = "pushed"
  /\ \A s \in {"pop_wait", "pop_lock", "pop_fetch", "pop_advance"} : AbsOp(s) = "pop"
  /\ AbsOp("pop_post") = "popped"
  /\ AbsOp("size_lock") = "size" /\ AbsOp("size_read") = "size"
  /\ AbsOp("size_return") = "sized"
BY DEF AbsOp, PushStates, PopStates

(* A step of one thread changes its operation and no other's. *)
LEMMA AbsOpMove ==
  ASSUME TypeOK, NEW t \in Threads, NEW from, NEW to, Goto(t, from, to)
  PROVE  /\ AbsOps[t] = AbsOp(from)
         /\ AbsOps' = [AbsOps EXCEPT ![t] = AbsOp(to)]
         /\ AbsOp(from) = AbsOp(to) => AbsOps' = AbsOps
BY DEF Goto, TypeOK, AbsOps

(* The abstract queue is a sequence of nentries messages. *)
LEMMA AbsQueueType ==
  ASSUME TypeOK
  PROVE  /\ AbsQueue \in Seq(Msgs \cup {NoMsg})
         /\ Len(AbsQueue) = nentries
         /\ \A i \in 1 .. nentries : AbsQueue[i] = msg[(read_idx + i - 1) % Capacity]
<1>1. \A i \in 1 .. nentries : (read_idx + i - 1) % Capacity \in Slots
  BY StreamQAssumption DEF TypeOK, Slots
<1> QED  BY <1>1 DEF TypeOK, AbsQueue

(* Storing a message in the free slot behind the newest one is invisible.  *)
LEMMA QueueStore ==
  ASSUME IInv, NEW t \in Threads, PushStore(t)
  PROVE  AbsQueue' = AbsQueue
<1>1. nentries \in Nat /\ nentries < Capacity /\ Capacity \in Nat
  <2>1. Cardinality(Reserved) >= 1 /\ Cardinality(Reserved) \in Nat /\ Cardinality(Owed) \in Nat
    BY AtPositive, AtFinite DEF PushStore, Goto, Reserved, Owed
  <2> QED  BY <2>1, StreamQAssumption DEF IInv, SlotAccounting, TypeOK
<1>2. ASSUME NEW k \in Nat, k >= read_idx, k < read_idx + nentries
      PROVE  k % Capacity \in Slots /\ k % Capacity # write_idx
  <2>1. read_idx \in Nat /\ read_idx < Capacity  BY StreamQAssumption DEF IInv, TypeOK, Slots
  <2>2. k % Capacity = IF k < Capacity THEN k ELSE k - Capacity
    <3>1. k < 2 * Capacity  BY <1>1, <1>2, <2>1
    <3> QED  BY <3>1, Wrap
  <2>3. (read_idx + nentries) % Capacity =
          IF read_idx + nentries < Capacity THEN read_idx + nentries ELSE read_idx + nentries - Capacity
    BY <1>1, <2>1, Wrap
  <2>4. write_idx = (read_idx + nentries) % Capacity  BY DEF IInv, RingInv
  <2> QED  BY <1>1, <1>2, <2>1, <2>2, <2>3, <2>4 DEF Slots
<1>3. \A i \in 1 .. nentries : msg'[(read_idx + i - 1) % Capacity] = msg[(read_idx + i - 1) % Capacity]
  <2> TAKE i \in 1 .. nentries
  <2> DEFINE k == read_idx + i - 1
  <2>1. k \in Nat /\ k >= read_idx /\ k < read_idx + nentries
    BY <1>1, StreamQAssumption DEF IInv, TypeOK, Slots
  <2> HIDE DEF k
  <2>2. k % Capacity \in Slots /\ k % Capacity # write_idx  BY <2>1, <1>2
  <2>3. msg'[k % Capacity] = msg[k % Capacity]  BY <2>2 DEF PushStore, IInv, TypeOK
  <2> QED  BY <2>3 DEF k
<1> QED  BY <1>3 DEF AbsQueue, PushStore

(* Moving the write index appends the message of the pusher. *)
LEMMA QueuePush ==
  ASSUME IInv, NEW t \in Threads, PushAdvance(t)
  PROVE  /\ nentries < Capacity
         /\ AbsQueue' = Append(AbsQueue, arg[t])
<1>1. nentries \in Nat /\ nentries < Capacity
  <2>1. Goto(t, "push_advance", "push_post")  BY DEF PushAdvance
  <2> QED  BY <2>1, MoveCounts, StreamQAssumption DEF IInv, SlotAccounting, TypeOK
<1>2. msg[(read_idx + nentries) % Capacity] = arg[t]
  BY DEF IInv, CarryInv, RingInv, PushAdvance, Goto
<1>3. AbsQueue' = [i \in 1 .. nentries + 1 |-> msg[(read_idx + i - 1) % Capacity]]
  BY DEF AbsQueue, PushAdvance
<1>4. \A i \in 1 .. nentries + 1 :
        msg[(read_idx + i - 1) % Capacity] = IF i <= nentries THEN AbsQueue[i] ELSE arg[t]
  <2>1. read_idx \in Nat  BY StreamQAssumption DEF IInv, TypeOK, Slots
  <2>2. read_idx + (nentries + 1) - 1 = read_idx + nentries  BY <1>1, <2>1
  <2> QED  BY <1>1, <1>2, <2>2, AbsQueueType DEF IInv
<1>5. Append(AbsQueue, arg[t]) =
        [i \in 1 .. Len(AbsQueue) + 1 |-> IF i <= Len(AbsQueue) THEN AbsQueue[i] ELSE arg[t]]
  <2>1. arg[t] \in Msgs  BY DEF IInv, CarryInv, PushStates, PushAdvance, Goto
  <2> QED  BY <2>1, AbsQueueType DEF IInv
<1>6. Len(AbsQueue) = nentries  BY AbsQueueType DEF IInv
<1> QED  BY <1>1, <1>3, <1>4, <1>5, <1>6

(* Moving the read index removes the message the popper fetched. *)
LEMMA QueuePop ==
  ASSUME IInv, NEW t \in Threads, PopAdvance(t)
  PROVE  /\ AbsQueue # <<>> /\ Head(AbsQueue) = arg[t]
         /\ AbsQueue' = Tail(AbsQueue)
<1>1. nentries \in Nat /\ nentries >= 1 /\ nentries <= Capacity
  <2>1. Goto(t, "pop_advance", "pop_post")  BY DEF PopAdvance
  <2> QED  BY <2>1, MoveCounts, StreamQAssumption
           DEF IInv, EntryAccounting, SlotAccounting, TypeOK
<1>2. read_idx \in Slots /\ read_idx \in Nat /\ read_idx < Capacity
  BY StreamQAssumption DEF IInv, TypeOK, Slots
<1>3. AbsQueue[1] = arg[t]
  <2>1. (read_idx + 1 - 1) % Capacity = read_idx  BY <1>2, StreamQAssumption
  <2> QED  BY <1>1, <2>1, AbsQueueType DEF IInv, CarryInv, PopAdvance, Goto
<1>4. AbsQueue' = [i \in 1 .. nentries - 1 |-> msg[(advance_idx(read_idx) + i - 1) % Capacity]]
  BY DEF AbsQueue, PopAdvance
<1>5. ASSUME NEW i \in 1 .. nentries - 1
      PROVE  msg[(advance_idx(read_idx) + i - 1) % Capacity] = AbsQueue[i + 1]
  <2>1. (advance_idx(read_idx) + (i - 1)) % Capacity = (read_idx + i) % Capacity
    <3>1. i \in 0 .. Capacity /\ i > 0  BY <1>1, StreamQAssumption
    <3> QED  BY <1>2, <3>1, RingMoves
  <2>2. advance_idx(read_idx) \in Nat  BY <1>2, AdvanceIdx, StreamQAssumption DEF Slots
  <2>3. advance_idx(read_idx) + i - 1 = advance_idx(read_idx) + (i - 1)  BY <2>2
  <2>4. i + 1 \in 1 .. nentries /\ read_idx + (i + 1) - 1 = read_idx + i  BY <1>1, <1>2
  <2> QED  BY <2>1, <2>3, <2>4, AbsQueueType DEF IInv
<1>6. /\ AbsQueue \in Seq(Msgs \cup {NoMsg}) /\ Len(AbsQueue) = nentries
  BY AbsQueueType DEF IInv
<1>7. Tail(AbsQueue) = [i \in 1 .. nentries - 1 |-> AbsQueue[i + 1]]
  <2>1. AbsQueue # <<>>  BY <1>1, <1>6
  <2>2. /\ Tail(AbsQueue) \in Seq(Msgs \cup {NoMsg})
        /\ Len(Tail(AbsQueue)) = nentries - 1
        /\ \A i \in 1 .. nentries - 1 : Tail(AbsQueue)[i] = AbsQueue[i + 1]
    BY <1>1, <1>6, <2>1, HeadTailProperties
  <2>3. Tail(AbsQueue) = [i \in 1 .. nentries - 1 |-> Tail(AbsQueue)[i]]
    <3>1. Tail(AbsQueue) \in [1 .. nentries - 1 -> Msgs \cup {NoMsg}]
      BY <2>2, LenProperties
    <3> QED  BY <3>1
  <2> QED  BY <2>2, <2>3
<1>8. AbsQueue # <<>> /\ Head(AbsQueue) = AbsQueue[1]
  BY <1>1, <1>6
<1> QED  BY <1>3, <1>4, <1>5, <1>7, <1>8

LEMMA DoingFinite ==
  ASSUME NEW o, NEW t
  PROVE  /\ IsFiniteSet(Fifo!Doing(o)) /\ IsFiniteSet(Fifo!Doing(o) \ {t})
         /\ Cardinality(Fifo!Doing(o)) \in Nat /\ Cardinality(Fifo!Doing(o) \ {t}) \in Nat
<1>1. Fifo!Doing(o) \in SUBSET Threads  BY DEF Fifo!Doing, Fifo!Threads, Threads
<1>2. IsFiniteSet(Fifo!Doing(o)) /\ IsFiniteSet(Fifo!Doing(o) \ {t})
  BY <1>1, StreamQAssumption, FS_Subset
<1> QED  BY <1>2, FS_CardinalityType

LEMMA InitRefines == Init => Fifo!Init
<1> SUFFICES ASSUME Init PROVE Fifo!Init
  OBVIOUS
<1>1. AbsQueue = <<>>  BY DEF Init, AbsQueue
<1>2. [t \in Threads |-> AbsOp(pc[t])] = [t \in Threads |-> "idle"]
  BY AbsOpOf DEF Init
<1>3. AbsVal = [t \in Threads |-> NoMsg]  BY DEF Init, AbsVal
<1> QED  BY <1>1, <1>2, <1>3 DEF Fifo!Init, Fifo!Threads, Threads

(* Every step of the ring is a step of the bounded queue or invisible.     *)
LEMMA StepRefines == IInv /\ [Next]_vars => [Fifo!Next]_(Fifo!fvars)
<1> SUFFICES ASSUME IInv, [Next]_vars PROVE [Fifo!Next]_(Fifo!fvars)
  OBVIOUS
<1>0. TypeOK /\ CarryInv  BY DEF IInv
<1> DEFINE Invisible == AbsQueue' = AbsQueue /\ AbsOps' = AbsOps /\ AbsVal' = AbsVal
<1>1. ASSUME Invisible PROVE [Fifo!Next]_(Fifo!fvars)
  BY <1>1 DEF Fifo!fvars, AbsOps
<1>2. UNCHANGED ring => AbsQueue' = AbsQueue
  BY DEF ring, AbsQueue
<1>3. ASSUME UNCHANGED vars PROVE Invisible
  BY <1>2, <1>3 DEF vars, AbsOps, AbsVal
<1>4. ASSUME NEW t \in Threads, PushWait(t) PROVE Invisible
  <2>1. Goto(t, "push_wait", "push_lock")  BY <1>4 DEF PushWait
  <2>2. AbsOps' = AbsOps  BY <1>0, <2>1, AbsOpMove, AbsOpOf
  <2>3. AbsQueue' = AbsQueue  BY <1>2, <1>4 DEF PushWait, ring
  <2>4. AbsVal' = AbsVal
    BY <1>0, <1>4, <2>1 DEF PushWait, Goto, AbsVal, TypeOK
  <2> QED  BY <2>2, <2>3, <2>4
<1>5. ASSUME NEW t \in Threads, Lock(t, "push_lock", "push_store") PROVE Invisible
  <2>1. Goto(t, "push_lock", "push_store")  BY <1>5 DEF Lock
  <2>2. AbsOps' = AbsOps  BY <1>0, <2>1, AbsOpMove, AbsOpOf
  <2>3. AbsQueue' = AbsQueue  BY <1>2, <1>5 DEF Lock, ring
  <2>4. AbsVal' = AbsVal
    BY <1>0, <1>5, <2>1 DEF Lock, Goto, AbsVal, TypeOK
  <2> QED  BY <2>2, <2>3, <2>4
<1>6. ASSUME NEW t \in Threads, PushStore(t) PROVE Invisible
  <2>1. Goto(t, "push_store", "push_advance")  BY <1>6 DEF PushStore
  <2>2. AbsOps' = AbsOps  BY <1>0, <2>1, AbsOpMove, AbsOpOf
  <2>3. AbsQueue' = AbsQueue  BY <1>6, QueueStore
  <2>4. AbsVal' = AbsVal
    BY <1>0, <1>6, <2>1 DEF PushStore, Goto, AbsVal, TypeOK
  <2> QED  BY <2>2, <2>3, <2>4
<1>7. ASSUME NEW t \in Threads, PopWait(t) PROVE Invisible
  <2>1. Goto(t, "pop_wait", "pop_lock")  BY <1>7 DEF PopWait
  <2>2. AbsOps' = AbsOps  BY <1>0, <2>1, AbsOpMove, AbsOpOf
  <2>3. AbsQueue' = AbsQueue  BY <1>2, <1>7 DEF PopWait, ring
  <2>4. AbsVal' = AbsVal
    BY <1>0, <1>7, <2>1 DEF PopWait, Goto, AbsVal, TypeOK
  <2> QED  BY <2>2, <2>3, <2>4
<1>8. ASSUME NEW t \in Threads, Lock(t, "pop_lock", "pop_fetch") PROVE Invisible
  <2>1. Goto(t, "pop_lock", "pop_fetch")  BY <1>8 DEF Lock
  <2>2. AbsOps' = AbsOps  BY <1>0, <2>1, AbsOpMove, AbsOpOf
  <2>3. AbsQueue' = AbsQueue  BY <1>2, <1>8 DEF Lock, ring
  <2>4. AbsVal' = AbsVal
    BY <1>0, <1>8, <2>1 DEF Lock, Goto, AbsVal, TypeOK
  <2> QED  BY <2>2, <2>3, <2>4
<1>9. ASSUME NEW t \in Threads, PopFetch(t) PROVE Invisible
  <2>1. Goto(t, "pop_fetch", "pop_advance")  BY <1>9 DEF PopFetch
  <2>2. AbsOps' = AbsOps  BY <1>0, <2>1, AbsOpMove, AbsOpOf
  <2>3. AbsQueue' = AbsQueue  BY <1>2, <1>9 DEF PopFetch, ring
  <2>4. AbsVal' = AbsVal
    BY <1>0, <1>9, <2>1 DEF PopFetch, Goto, AbsVal, TypeOK, Carry, CarryInv, EmptyHanded
  <2> QED  BY <2>2, <2>3, <2>4
<1>10. ASSUME NEW t \in Threads, Lock(t, "size_lock", "size_read") PROVE Invisible
  <2>1. Goto(t, "size_lock", "size_read")  BY <1>10 DEF Lock
  <2>2. AbsOps' = AbsOps  BY <1>0, <2>1, AbsOpMove, AbsOpOf
  <2>3. AbsQueue' = AbsQueue  BY <1>2, <1>10 DEF Lock, ring
  <2>4. AbsVal' = AbsVal
    BY <1>0, <1>10, <2>1 DEF Lock, Goto, AbsVal, TypeOK
  <2> QED  BY <2>2, <2>3, <2>4
<1>11. ASSUME NEW t \in Threads, PushCall(t) PROVE Fifo!CallPush(t)
  <2>1. Goto(t, "idle", "push_wait")  BY <1>11 DEF PushCall
  <2>2. AbsOps[t] = "idle" /\ AbsOps' = [AbsOps EXCEPT ![t] = "push"]
    BY <1>0, <2>1, AbsOpMove, AbsOpOf
  <2>3. \E m \in Msgs : AbsVal' = [AbsVal EXCEPT ![t] = m]
    <3>1. PICK m \in Msgs : arg' = [arg EXCEPT ![t] = m]  BY <1>11 DEF PushCall, Carry
    <3>2. AbsVal' = [AbsVal EXCEPT ![t] = m]
      BY <1>0, <2>1, <3>1 DEF Goto, AbsVal, TypeOK
    <3> QED  BY <3>2
  <2>4. AbsQueue' = AbsQueue  BY <1>2, <1>11 DEF PushCall, ring
  <2> QED
    BY <1>11, <2>2, <2>3, <2>4 DEF PushCall, Fifo!CallPush, Fifo!Move, AbsOps
<1>12. ASSUME NEW t \in Threads, PushTimeout(t) PROVE Fifo!PushGivesUp(t)
  <2>1. Goto(t, "push_wait", "idle")  BY <1>12 DEF PushTimeout
  <2>2. AbsOps[t] = "push" /\ AbsOps' = [AbsOps EXCEPT ![t] = "idle"]
    BY <1>0, <2>1, AbsOpMove, AbsOpOf
  <2>3. AbsVal' = [AbsVal EXCEPT ![t] = NoMsg]
    BY <1>0, <1>12, <2>1 DEF PushTimeout, Goto, Carry, AbsVal, TypeOK, CarryInv, EmptyHanded
  <2>4. AbsQueue' = AbsQueue  BY <1>2, <1>12 DEF PushTimeout, ring
  <2>5. Len(AbsQueue) + Cardinality(Fifo!Doing("push") \ {t}) + Cardinality(Fifo!Doing("popped")) >= Capacity
    <3>1. Reserved \subseteq Fifo!Doing("push") \ {t} /\ Owed = Fifo!Doing("popped")
      BY <1>0, <2>1, AbsOpOf DEF Reserved, Owed, At, Goto, Fifo!Doing, Fifo!Threads, Threads,
         AbsOp, TypeOK, PushStates, PopStates, SizeStates
    <3>2. Cardinality(Reserved) <= Cardinality(Fifo!Doing("push") \ {t})
      BY <3>1, DoingFinite, FS_Subset
    <3>3. Cardinality(Reserved) \in Nat /\ Cardinality(Owed) \in Nat
      BY AtFinite DEF Reserved, Owed
    <3>4. nentries + Cardinality(Reserved) + Cardinality(Owed) = Capacity
      BY <1>0, <1>12, <3>3, StreamQAssumption DEF PushTimeout, IInv, SlotAccounting, TypeOK
    <3>5. Len(AbsQueue) = nentries /\ nentries \in Nat  BY <1>0, AbsQueueType DEF TypeOK
    <3>6. Cardinality(Fifo!Doing("push") \ {t}) \in Nat  BY DoingFinite
    <3> QED  BY <3>1, <3>2, <3>3, <3>4, <3>5, <3>6, StreamQAssumption
  <2>6. Fifo!Finish(t, "push")
    BY <2>2, <2>3, <2>4 DEF Fifo!Finish, Fifo!Move, AbsOps
  <2> QED
    BY <1>12, <2>5, <2>6 DEF PushTimeout, Fifo!PushGivesUp, Cardinality, Fifo!Cardinality
<1>13. ASSUME NEW t \in Threads, PushAdvance(t) PROVE Fifo!Push(t)
  <2>1. Goto(t, "push_advance", "push_post")  BY <1>13 DEF PushAdvance
  <2>2. AbsOps[t] = "push" /\ AbsOps' = [AbsOps EXCEPT ![t] = "pushed"]
    BY <1>0, <2>1, AbsOpMove, AbsOpOf
  <2>3. AbsVal' = AbsVal /\ AbsVal[t] = arg[t]
    BY <1>0, <1>13, <2>1 DEF PushAdvance, Goto, Carry, AbsVal, TypeOK, CarryInv, EmptyHanded
  <2>4. Len(AbsQueue) < Capacity /\ AbsQueue' = Append(AbsQueue, arg[t])
    BY <1>0, <1>13, QueuePush, AbsQueueType
  <2> QED
    BY <1>13, <2>2, <2>3, <2>4 DEF PushAdvance, Fifo!Push, Fifo!Move, AbsOps
<1>14. ASSUME NEW t \in Threads, PushPost(t) PROVE Fifo!Finish(t, "pushed")
  <2>1. Goto(t, "push_post", "idle")  BY <1>14 DEF PushPost
  <2>2. AbsOps[t] = "pushed" /\ AbsOps' = [AbsOps EXCEPT ![t] = "idle"]
    BY <1>0, <2>1, AbsOpMove, AbsOpOf
  <2>3. AbsVal' = [AbsVal EXCEPT ![t] = NoMsg]
    BY <1>0, <1>14, <2>1 DEF PushPost, Goto, Carry, AbsVal, TypeOK, CarryInv, EmptyHanded
  <2>4. AbsQueue' = AbsQueue  BY <1>2, <1>14 DEF PushPost, ring
  <2> QED
    BY <1>14, <2>2, <2>3, <2>4 DEF PushPost, Fifo!Finish, Fifo!Move, AbsOps
<1>15. ASSUME NEW t \in Threads, PopCall(t) PROVE Fifo!Call(t, "pop")
  <2>1. Goto(t, "idle", "pop_wait")  BY <1>15 DEF PopCall
  <2>2. AbsOps[t] = "idle" /\ AbsOps' = [AbsOps EXCEPT ![t] = "pop"]
    BY <1>0, <2>1, AbsOpMove, AbsOpOf
  <2>3. AbsVal' = AbsVal
    BY <1>0, <1>15, <2>1 DEF PopCall, Goto, Carry, AbsVal, TypeOK, CarryInv, EmptyHanded
  <2>4. AbsQueue' = AbsQueue  BY <1>2, <1>15 DEF PopCall, ring
  <2> QED
    BY <1>15, <2>2, <2>3, <2>4 DEF PopCall, Fifo!Call, Fifo!Move, AbsOps
<1>16. ASSUME NEW t \in Threads, PopTimeout(t) PROVE Fifo!PopGivesUp(t)
  <2>1. Goto(t, "pop_wait", "idle")  BY <1>16 DEF PopTimeout
  <2>2. AbsOps[t] = "pop" /\ AbsOps' = [AbsOps EXCEPT ![t] = "idle"]
    BY <1>0, <2>1, AbsOpMove, AbsOpOf
  <2>3. AbsVal' = [AbsVal EXCEPT ![t] = NoMsg]
    BY <1>0, <1>16, <2>1 DEF PopTimeout, Goto, Carry, AbsVal, TypeOK, CarryInv, EmptyHanded
  <2>4. AbsQueue' = AbsQueue  BY <1>2, <1>16 DEF PopTimeout, ring
  <2>5. Len(AbsQueue) <= Cardinality(Fifo!Doing("pop") \ {t}) + Cardinality(Fifo!Doing("pushed"))
    <3>1. Promised \subseteq Fifo!Doing("pop") \ {t} /\ Unannounced = Fifo!Doing("pushed")
      BY <1>0, <2>1, AbsOpOf DEF Promised, Unannounced, At, Goto, Fifo!Doing, Fifo!Threads, Threads,
         AbsOp, TypeOK, PushStates, PopStates, SizeStates
    <3>2. Cardinality(Promised) <= Cardinality(Fifo!Doing("pop") \ {t})
      BY <3>1, DoingFinite, FS_Subset
    <3>3. Cardinality(Promised) \in Nat /\ Cardinality(Unannounced) \in Nat
      BY AtFinite DEF Promised, Unannounced
    <3>4. nentries = Cardinality(Unannounced) + Cardinality(Promised)
      BY <1>0, <1>16, <3>3 DEF PopTimeout, IInv, EntryAccounting, TypeOK
    <3>5. Len(AbsQueue) = nentries  BY <1>0, AbsQueueType
    <3>6. Cardinality(Fifo!Doing("pop") \ {t}) \in Nat  BY DoingFinite
    <3> QED  BY <3>1, <3>2, <3>3, <3>4, <3>5, <3>6
  <2>6. Fifo!Finish(t, "pop")
    BY <2>2, <2>3, <2>4 DEF Fifo!Finish, Fifo!Move, AbsOps
  <2> QED
    BY <1>16, <2>5, <2>6 DEF PopTimeout, Fifo!PopGivesUp, Cardinality, Fifo!Cardinality
<1>17. ASSUME NEW t \in Threads, PopAdvance(t) PROVE Fifo!Pop(t)
  <2>1. Goto(t, "pop_advance", "pop_post")  BY <1>17 DEF PopAdvance
  <2>2. AbsOps[t] = "pop" /\ AbsOps' = [AbsOps EXCEPT ![t] = "popped"]
    BY <1>0, <2>1, AbsOpMove, AbsOpOf
  <2>3. AbsVal' = [AbsVal EXCEPT ![t] = arg[t]]
    BY <1>0, <1>17, <2>1 DEF PopAdvance, Goto, Carry, AbsVal, TypeOK, CarryInv, EmptyHanded
  <2>4. AbsQueue # <<>> /\ Head(AbsQueue) = arg[t] /\ AbsQueue' = Tail(AbsQueue)
    BY <1>17, QueuePop
  <2> QED
    BY <1>17, <2>2, <2>3, <2>4 DEF PopAdvance, Fifo!Pop, Fifo!Move, AbsOps
<1>18. ASSUME NEW t \in Threads, PopPost(t) PROVE Fifo!Finish(t, "popped")
  <2>1. Goto(t, "pop_post", "idle")  BY <1>18 DEF PopPost
  <2>2. AbsOps[t] = "popped" /\ AbsOps' = [AbsOps EXCEPT ![t] = "idle"]
    BY <1>0, <2>1, AbsOpMove, AbsOpOf
  <2>3. AbsVal' = [AbsVal EXCEPT ![t] = NoMsg]
    BY <1>0, <1>18, <2>1 DEF PopPost, Goto, Carry, AbsVal, TypeOK, CarryInv, EmptyHanded
  <2>4. AbsQueue' = AbsQueue  BY <1>2, <1>18 DEF PopPost, ring
  <2> QED
    BY <1>18, <2>2, <2>3, <2>4 DEF PopPost, Fifo!Finish, Fifo!Move, AbsOps
<1>19. ASSUME NEW t \in Threads, SizeCall(t) PROVE Fifo!Call(t, "size")
  <2>1. Goto(t, "idle", "size_lock")  BY <1>19 DEF SizeCall
  <2>2. AbsOps[t] = "idle" /\ AbsOps' = [AbsOps EXCEPT ![t] = "size"]
    BY <1>0, <2>1, AbsOpMove, AbsOpOf
  <2>3. AbsVal' = AbsVal
    BY <1>0, <1>19, <2>1 DEF SizeCall, Goto, Carry, AbsVal, TypeOK, CarryInv, EmptyHanded
  <2>4. AbsQueue' = AbsQueue  BY <1>2, <1>19 DEF SizeCall, ring
  <2> QED
    BY <1>19, <2>2, <2>3, <2>4 DEF SizeCall, Fifo!Call, Fifo!Move, AbsOps
<1>20. ASSUME NEW t \in Threads, SizeRead(t) PROVE Fifo!Size(t)
  <2>1. Goto(t, "size_read", "size_return")  BY <1>20 DEF SizeRead
  <2>2. AbsOps[t] = "size" /\ AbsOps' = [AbsOps EXCEPT ![t] = "sized"]
    BY <1>0, <2>1, AbsOpMove, AbsOpOf
  <2>3. AbsVal' = [AbsVal EXCEPT ![t] = nentries] /\ Len(AbsQueue) = nentries
    BY <1>0, <1>20, <2>1, AbsQueueType DEF SizeRead, Goto, Carry, AbsVal, TypeOK, CarryInv, EmptyHanded
  <2>4. AbsQueue' = AbsQueue  BY <1>2, <1>20 DEF SizeRead, ring
  <2> QED
    BY <1>20, <2>2, <2>3, <2>4 DEF SizeRead, Fifo!Size, Fifo!Move, AbsOps
<1>21. ASSUME NEW t \in Threads, SizeReturn(t) PROVE Fifo!Finish(t, "sized")
  <2>1. Goto(t, "size_return", "idle")  BY <1>21 DEF SizeReturn
  <2>2. AbsOps[t] = "sized" /\ AbsOps' = [AbsOps EXCEPT ![t] = "idle"]
    BY <1>0, <2>1, AbsOpMove, AbsOpOf
  <2>3. AbsVal' = [AbsVal EXCEPT ![t] = NoMsg]
    BY <1>0, <1>21, <2>1 DEF SizeReturn, Goto, Carry, AbsVal, TypeOK, CarryInv, EmptyHanded
  <2>4. AbsQueue' = AbsQueue  BY <1>2, <1>21 DEF SizeReturn, ring
  <2> QED
    BY <1>21, <2>2, <2>3, <2>4 DEF SizeReturn, Fifo!Finish, Fifo!Move, AbsOps
<1> QED
  <2>1. CASE \E t \in Producers : \/ PushCall(t) \/ PushTimeout(t) \/ PushAdvance(t) \/ PushPost(t)
    BY <1>11, <1>12, <1>13, <1>14, <2>1 DEF Threads, Fifo!Next
  <2>2. CASE \E t \in Consumers : \/ PopCall(t) \/ PopTimeout(t) \/ PopAdvance(t) \/ PopPost(t)
    BY <1>15, <1>16, <1>17, <1>18, <2>2 DEF Threads, Fifo!Next
  <2>3. CASE \E t \in Observers : SizeCall(t) \/ SizeRead(t) \/ SizeReturn(t)
    BY <1>19, <1>20, <1>21, <2>3 DEF Threads, Fifo!Next
  <2>4. CASE \E t \in Threads : \/ PushWait(t) \/ Lock(t, "push_lock", "push_store") \/ PushStore(t)
                                \/ PopWait(t) \/ Lock(t, "pop_lock", "pop_fetch") \/ PopFetch(t)
                                \/ Lock(t, "size_lock", "size_read")
    BY <1>1, <1>4, <1>5, <1>6, <1>7, <1>8, <1>9, <1>10, <2>4
  <2> QED  BY <1>1, <1>3, <2>1, <2>2, <2>3, <2>4 DEF Next, Threads

(* io4e_streamq_new, _push, _pop and _entries implement the bounded queue, *)
(* whatever the threads, the timeouts and the capacity.                    *)
THEOREM Refinement == Spec => ImplementsFifo
BY InitRefines, StepRefines, Invariance, PTL DEF Spec, ImplementsFifo, Fifo!Spec

-----------------------------------------------------------------------------
(* No deadline wraps around: the clamp keeps the sum inside a narrow       *)
(* time_t, and a wide one holds it.                                        *)
LEMMA LastTimeIsHalf ==
  ASSUME NEW size \in Nat, size % 2 = 0, 0 < size
  PROVE  LastTime(size) \in Nat /\ size = 2 * (LastTime(size) + 1)
BY DEF LastTime

LEMMA ModSmall == ASSUME NEW n \in Nat, NEW m \in Nat, n < m PROVE n % m = n
OBVIOUS

LEMMA SignedIsSame ==
  ASSUME NEW size \in Nat, size % 2 = 0, 0 < size, NEW n \in Nat, n <= LastTime(size)
  PROVE  Signed(n, size) = n
<1>1. n < size
  BY LastTimeIsHalf
<1> QED
  BY <1>1, ModSmall DEF Signed

LEMMA MinIsEither ==
  ASSUME NEW a \in Int, NEW b \in Int
  PROVE  Min({a, b}) = IF a <= b THEN a ELSE b
BY DEF Min

LEMMA GetTimeoutOK ==
  ASSUME NEW time_t \in {Narrow, Wide},
         NEW now \in 0 .. LastTime(time_t), NEW timeout \in 0 .. LastTime(Wide)
  PROVE  EndsInTime(time_t, now, timeout)
<1> SUFFICES ASSUME now + timeout <= LastTime(Wide)
             PROVE  get_timeout(time_t, now, timeout) = Min({now + timeout, LastTime(time_t)})
  BY DEF EndsInTime
<1>1. LastTime(Narrow) \in Nat /\ LastTime(Wide) \in Nat /\ LastTime(Wide) < Wide
  BY LastTimeIsHalf, DeadlineAssumption
<1>2. now \in Nat /\ timeout \in Nat
  BY <1>1
<1>3. (now + timeout) % Wide = now + timeout
  BY <1>1, <1>2, ModSmall, DeadlineAssumption
<1>4. Min({now + timeout, LastTime(time_t)})
        = IF now + timeout <= LastTime(time_t) THEN now + timeout ELSE LastTime(time_t)
  BY <1>1, <1>2, MinIsEither
<1>5. CASE time_t = Wide
  <2>1. Signed(now + timeout, Wide) = now + timeout
    BY <1>1, <1>2, SignedIsSame, DeadlineAssumption
  <2> QED
    BY <1>3, <1>4, <1>5, <2>1, DeadlineAssumption DEF get_timeout
<1>6. CASE time_t = Narrow
  <2> DEFINE until == IF now + timeout > LastTime(Narrow) THEN LastTime(Narrow) ELSE now + timeout
  <2>1. until \in Nat /\ until <= LastTime(Narrow)
    BY <1>1, <1>2
  <2>2. Signed(until, Narrow) = until
    BY <1>1, <2>1, SignedIsSame, DeadlineAssumption
  <2>3. get_timeout(Narrow, now, timeout) = Signed(until, Narrow)
    BY <1>3 DEF get_timeout
  <2> QED
    BY <1>1, <1>2, <1>4, <1>6, <2>2, <2>3
<1> QED
  BY <1>5, <1>6

(* On every build and at all times: the wait of a push or pop, of any      *)
(* length and IO4E_FOREVER too, ends when it was asked to, or at the last  *)
(* time that there is, and never because the sum wrapped around.           *)
THEOREM NoWraparound == Spec => []WaitsLongEnough
<1>1. WaitsLongEnough
  BY GetTimeoutOK DEF WaitsLongEnough
<1> QED
  BY <1>1, PTL
=============================================================================
