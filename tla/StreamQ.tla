------------------------------ MODULE StreamQ ------------------------------
(***************************************************************************)
(* The stream queue of src/src/streamq.c: a ring of message pointers, two  *)
(* counting semaphores and a mutex.  One action per step between two       *)
(* synchronisation calls; a thread is at the statement pc[t] names.        *)
(***************************************************************************)
EXTENDS Naturals, Sequences, FiniteSets

CONSTANTS Producers,  \* threads that call io4e_streamq_push
          Consumers,  \* threads that call io4e_streamq_pop
          Observers,  \* threads that call io4e_streamq_entries
          Msgs,       \* the message pointers pushed
          NoMsg,      \* the NULL that calloc leaves in a slot
          Nobody,     \* the owner of an unlocked mutex
          Capacity,   \* slots of the ring (100 in the client, 5 in the tests)
          Forever     \* threads that pass IO4E_FOREVER and handle no signal:
                      \* a handler ends the wait early, as a timeout does

Threads == Producers \cup Consumers \cup Observers

ASSUME StreamQAssumption == /\ Capacity \in Nat \ {0}
                            /\ IsFiniteSet(Threads)
                            /\ NoMsg \notin Msgs
                            /\ Nobody \notin Threads

VARIABLES msg, write_idx, read_idx, nentries,  \* the ring
          write_sem, read_sem,  \* free slots; messages ready to be popped
          mutex,                \* the owner of the queue's mutex
          pc, arg  \* per thread: its statement; the message or size it carries

ring == <<msg, write_idx, read_idx, nentries>>
sems == <<write_sem, read_sem>>
vars == <<ring, sems, mutex, pc, arg>>

PushStates == {"push_wait", "push_lock", "push_store", "push_advance", "push_post"}
PopStates  == {"pop_wait", "pop_lock", "pop_fetch", "pop_advance", "pop_post"}
SizeStates == {"size_lock", "size_read", "size_return"}
Locked     == {"push_store", "push_advance", "pop_fetch", "pop_advance", "size_read"}

Slots == 0 .. Capacity - 1
At(S) == {t \in Threads : pc[t] \in S}

Goto(t, from, to) == pc[t] = from /\ pc' = [pc EXCEPT ![t] = to]
Carry(t, v) == arg' = [arg EXCEPT ![t] = v]

-----------------------------------------------------------------------------
(* io4e_streamq_new *)
Init == /\ msg = [i \in Slots |-> NoMsg]
        /\ write_idx = 0 /\ read_idx = 0 /\ nentries = 0
        /\ write_sem = Capacity /\ read_sem = 0
        /\ mutex = Nobody
        /\ pc = [t \in Threads |-> "idle"]
        /\ arg = [t \in Threads |-> NoMsg]

advance_idx(i) == (i + 1) % Capacity

(* Mutant: the mutex does not exclude. *)
LockUnchecked(t, from, to) == /\ Goto(t, from, to)
                              /\ mutex' = t
                              /\ UNCHANGED <<ring, sems, arg>>

Lock(t, from, to) == /\ mutex = Nobody
                     /\ Goto(t, from, to)
                     /\ mutex' = t
                     /\ UNCHANGED <<ring, sems, arg>>

(* io4e_streamq_push *)
PushCall(t) == /\ Goto(t, "idle", "push_wait")
               /\ \E m \in Msgs : Carry(t, m)
               /\ UNCHANGED <<ring, sems, mutex>>

(* Mutant: a push does not wait for a free slot. *)
PushNoWait(t) == /\ Goto(t, "push_wait", "push_lock")
                 /\ write_sem' = write_sem - 1
                 /\ UNCHANGED <<ring, read_sem, mutex, arg>>

PushWait(t) == /\ write_sem > 0
               /\ Goto(t, "push_wait", "push_lock")
               /\ write_sem' = write_sem - 1
               /\ UNCHANGED <<ring, read_sem, mutex, arg>>

PushTimeout(t) == /\ write_sem = 0 /\ t \notin Forever
                  /\ Goto(t, "push_wait", "idle")
                  /\ Carry(t, NoMsg)
                  /\ UNCHANGED <<ring, sems, mutex>>

PushStore(t) == /\ Goto(t, "push_store", "push_advance")
                /\ msg' = [msg EXCEPT ![write_idx] = arg[t]]
                /\ UNCHANGED <<write_idx, read_idx, nentries, sems, mutex, arg>>

PushAdvance(t) == /\ Goto(t, "push_advance", "push_post")
                  /\ write_idx' = advance_idx(write_idx)
                  /\ nentries' = nentries + 1
                  /\ mutex' = Nobody
                  /\ UNCHANGED <<msg, read_idx, sems, arg>>

(* Mutant: a push posts the semaphore it waited for. *)
PushPostWrong(t) == /\ Goto(t, "push_post", "idle")
                    /\ write_sem' = write_sem + 1
                    /\ Carry(t, NoMsg)
                    /\ UNCHANGED <<ring, read_sem, mutex>>

PushPost(t) == /\ Goto(t, "push_post", "idle")
               /\ read_sem' = read_sem + 1
               /\ Carry(t, NoMsg)
               /\ UNCHANGED <<ring, write_sem, mutex>>

(* io4e_streamq_pop *)
PopCall(t) == Goto(t, "idle", "pop_wait") /\ UNCHANGED <<ring, sems, mutex, arg>>

PopWait(t) == /\ read_sem > 0
              /\ Goto(t, "pop_wait", "pop_lock")
              /\ read_sem' = read_sem - 1
              /\ UNCHANGED <<ring, write_sem, mutex, arg>>

PopTimeout(t) == /\ read_sem = 0 /\ t \notin Forever
                 /\ Goto(t, "pop_wait", "idle")
                 /\ UNCHANGED <<ring, sems, mutex, arg>>

PopFetch(t) == /\ Goto(t, "pop_fetch", "pop_advance")
               /\ Carry(t, msg[read_idx])
               /\ UNCHANGED <<ring, sems, mutex>>

PopAdvance(t) == /\ Goto(t, "pop_advance", "pop_post")
                 /\ read_idx' = advance_idx(read_idx)
                 /\ nentries' = nentries - 1
                 /\ mutex' = Nobody
                 /\ UNCHANGED <<msg, write_idx, sems, arg>>

(* Mutant: a pop does not give its slot back. *)
PopNoPost(t) == /\ Goto(t, "pop_post", "idle")
                /\ Carry(t, NoMsg)
                /\ UNCHANGED <<ring, sems, mutex>>

PopPost(t) == /\ Goto(t, "pop_post", "idle")
              /\ write_sem' = write_sem + 1
              /\ Carry(t, NoMsg)
              /\ UNCHANGED <<ring, read_sem, mutex>>

(* io4e_streamq_entries *)
SizeCall(t) == Goto(t, "idle", "size_lock") /\ UNCHANGED <<ring, sems, mutex, arg>>

SizeRead(t) == /\ Goto(t, "size_read", "size_return")
               /\ Carry(t, nentries)
               /\ mutex' = Nobody
               /\ UNCHANGED <<ring, sems>>

SizeReturn(t) == /\ Goto(t, "size_return", "idle")
                 /\ Carry(t, NoMsg)
                 /\ UNCHANGED <<ring, sems, mutex>>

Next == \/ \E t \in Producers : \/ PushCall(t) \/ PushWait(t) \/ PushTimeout(t)
                                \/ Lock(t, "push_lock", "push_store")
                                \/ PushStore(t) \/ PushAdvance(t) \/ PushPost(t)
        \/ \E t \in Consumers : \/ PopCall(t) \/ PopWait(t) \/ PopTimeout(t)
                                \/ Lock(t, "pop_lock", "pop_fetch")
                                \/ PopFetch(t) \/ PopAdvance(t) \/ PopPost(t)
        \/ \E t \in Observers : \/ SizeCall(t) \/ Lock(t, "size_lock", "size_read")
                                \/ SizeRead(t) \/ SizeReturn(t)

Spec == Init /\ [][Next]_vars

(* A runnable thread is scheduled; a consumer keeps reading the stream, as *)
(* the read loops of the examples do.  Nothing is assumed about the order  *)
(* in which waiters get a semaphore or the mutex.                          *)
Fairness ==
  /\ \A t \in Producers : /\ WF_vars(PushWait(t)) /\ WF_vars(Lock(t, "push_lock", "push_store"))
                          /\ WF_vars(PushStore(t)) /\ WF_vars(PushAdvance(t)) /\ WF_vars(PushPost(t))
  /\ \A t \in Consumers : /\ WF_vars(PopCall(t)) /\ WF_vars(PopWait(t))
                          /\ WF_vars(Lock(t, "pop_lock", "pop_fetch"))
                          /\ WF_vars(PopFetch(t)) /\ WF_vars(PopAdvance(t)) /\ WF_vars(PopPost(t))

FairSpec == Spec /\ Fairness

-----------------------------------------------------------------------------
(* Types: the counters are naturals, so no semaphore or entry count ever   *)
(* goes below zero, and the indices stay inside the ring.                  *)
TypeOK == /\ msg \in [Slots -> Msgs \cup {NoMsg}]
          /\ write_idx \in Slots /\ read_idx \in Slots
          /\ nentries \in Nat /\ write_sem \in Nat /\ read_sem \in Nat
          /\ mutex \in Threads \cup {Nobody}
          /\ pc \in [Threads -> {"idle"} \cup PushStates \cup PopStates \cup SizeStates]
          /\ arg \in [Threads -> Msgs \cup {NoMsg} \cup Nat]

(* Every slot is accounted for: it is free (counted by write_sem), holds a *)
(* message, is promised to a push past its wait, or is owed by a pop that  *)
(* has not posted yet.  (A push can therefore never find the ring full.)   *)
Reserved == At({"push_lock", "push_store", "push_advance"})
Owed     == At({"pop_post"})
SlotAccounting ==
  write_sem + nentries + Cardinality(Reserved) + Cardinality(Owed) = Capacity

(* Every message in the ring is accounted for: it is announced by read_sem,*)
(* about to be announced by its push, or promised to a pop past its wait.  *)
Unannounced == At({"push_post"})
Promised    == At({"pop_lock", "pop_fetch", "pop_advance"})
EntryAccounting ==
  nentries = read_sem + Cardinality(Unannounced) + Cardinality(Promised)

(* No lost wakeup: it never happens that a push sleeps on a full queue and *)
(* a pop sleeps on an empty one while no thread is on its way to post.     *)
NoMutualBlock ==
  ~ /\ write_sem = 0 /\ At({"push_wait"}) # {}
    /\ read_sem = 0 /\ At({"pop_wait"}) # {}
    /\ \A t \in Threads : pc[t] \in {"idle", "push_wait", "pop_wait"}

(* The ring, the semaphores and the mutex together implement the bounded   *)
(* queue: an operation takes effect when it releases the mutex.            *)
AbsOp(s) == CASE s \in PushStates \ {"push_post"} -> "push"
              [] s = "push_post"   -> "pushed"
              [] s \in PopStates \ {"pop_post"} -> "pop"
              [] s = "pop_post"    -> "popped"
              [] s \in {"size_lock", "size_read"} -> "size"
              [] s = "size_return" -> "sized"
              [] OTHER -> "idle"
AbsQueue == [i \in 1 .. nentries |-> msg[(read_idx + i - 1) % Capacity]]
AbsVal   == [t \in Threads |-> IF pc[t] = "pop_advance" THEN NoMsg ELSE arg[t]]

Fifo == INSTANCE BoundedFifo WITH queue <- AbsQueue,
                                  op <- [t \in Threads |-> AbsOp(pc[t])],
                                  val <- AbsVal
ImplementsFifo == Fifo!Spec

(* A push gets through as long as the stream is being read: it does not    *)
(* take the timeout, which nothing forces, to end its wait.                *)
PushReturns == \A t \in Producers : (pc[t] = "push_wait") ~> (pc[t] = "idle")
=============================================================================
