---------------------------- MODULE BoundedFifo ----------------------------
(***************************************************************************)
(* What the stream queue promises to the threads that share it: a bounded  *)
(* first-in first-out queue whose operations take effect at one instant    *)
(* between their call and their return, and which reports a timeout only   *)
(* while the queue cannot serve the caller.                                *)
(***************************************************************************)
EXTENDS Naturals, Sequences, FiniteSets

CONSTANTS Producers,  \* threads that push
          Consumers,  \* threads that pop
          Observers,  \* threads that ask for the number of entries
          Msgs,       \* messages (pointers handed through the queue)
          NoMsg,      \* no message
          Capacity,   \* number of slots
          Forever     \* threads that wait with IO4E_FOREVER

VARIABLES queue,  \* the messages pushed and not yet popped, oldest first
          op,     \* op[t]: the operation of t, in the past tense once it took effect
          val     \* val[t]: the message to push, or the result of the operation

fvars == <<queue, op, val>>

Threads == Producers \cup Consumers \cup Observers
Doing(o) == {t \in Threads : op[t] = o}

Init == /\ queue = <<>>
        /\ op = [t \in Threads |-> "idle"]
        /\ val = [t \in Threads |-> NoMsg]

Move(t, from, to) == op[t] = from /\ op' = [op EXCEPT ![t] = to]

CallPush(t) == /\ Move(t, "idle", "push")
               /\ \E m \in Msgs : val' = [val EXCEPT ![t] = m]
               /\ UNCHANGED queue

Call(t, o) == Move(t, "idle", o) /\ UNCHANGED <<queue, val>>

Push(t) == /\ Len(queue) < Capacity
           /\ Move(t, "push", "pushed")
           /\ queue' = Append(queue, val[t])
           /\ UNCHANGED val

Pop(t) == /\ queue # <<>>
          /\ Move(t, "pop", "popped")
          /\ val' = [val EXCEPT ![t] = Head(queue)]
          /\ queue' = Tail(queue)

Size(t) == /\ Move(t, "size", "sized")
           /\ val' = [val EXCEPT ![t] = Len(queue)]
           /\ UNCHANGED queue

Finish(t, o) == /\ Move(t, o, "idle")
                /\ val' = [val EXCEPT ![t] = NoMsg]
                /\ UNCHANGED queue

(* A push may give up only if every free slot is promised to another push  *)
(* or still owed by a pop that has not returned; dually for a pop.         *)
PushGivesUp(t) ==
  /\ t \notin Forever
  /\ Len(queue) + Cardinality(Doing("push") \ {t}) + Cardinality(Doing("popped")) >= Capacity
  /\ Finish(t, "push")
PopGivesUp(t) ==
  /\ t \notin Forever
  /\ Len(queue) <= Cardinality(Doing("pop") \ {t}) + Cardinality(Doing("pushed"))
  /\ Finish(t, "pop")

Next == \/ \E t \in Producers : \/ CallPush(t) \/ Push(t) \/ PushGivesUp(t)
                                \/ Finish(t, "pushed")
        \/ \E t \in Consumers : \/ Call(t, "pop") \/ Pop(t) \/ PopGivesUp(t)
                                \/ Finish(t, "popped")
        \/ \E t \in Observers : Call(t, "size") \/ Size(t) \/ Finish(t, "sized")

Spec == Init /\ [][Next]_fvars
=============================================================================
