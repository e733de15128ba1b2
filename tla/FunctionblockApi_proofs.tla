---------------------- MODULE FunctionblockApi_proofs ----------------------
(***************************************************************************)
(* Proofs that no call leaks or keeps a message that it should not, and    *)
(* that it returns what was asked for, in call sequences of any length.    *)
(* The first strengthening says which calls the messages on the heap       *)
(* belong to: what the application was handed, and what was refused, comes *)
(* from earlier calls, so that the call under way frees only its own.      *)
(***************************************************************************)
EXTENDS FunctionblockApi, TLAPS

Kinds == {"response", "unpacked", "stream data"}
Messages == Kinds \X Nat

HeapOK ==
  /\ call \in Nat
  /\ live \subseteq Messages /\ handed \cap refused = {}
  /\ \A m \in live : m[2] <= call
  /\ at # "idle" => \A m \in handed \cup refused : m[2] < call

IInv == HeapOK /\ EveryMessageOwned

(* What is known of the messages of the call under way: none of them was   *)
(* handed over yet, and they stay the same while it is under way.          *)
LEMMA OwnMessages ==
  ASSUME HeapOK, NEW what \in Kinds
  PROVE  /\ The(what) \in Messages /\ The(what)[1] = what /\ The(what)[2] <= call
         /\ at # "idle" => The(what) \notin handed \cup refused
<1>1. The(what) \in Messages /\ The(what)[1] = what /\ The(what)[2] = call
  BY DEF HeapOK, The, Messages, Kinds
<1>2. call \in Nat /\ (at # "idle" => \A m \in handed \cup refused : m[2] < call)
  BY DEF HeapOK
<1>3. call <= call /\ ~ (call < call)
  BY <1>2
<1>4. The(what)[2] <= call
  BY <1>1, <1>3
<1>5. at # "idle" => The(what) \notin handed \cup refused
  BY <1>1, <1>2, <1>3
<1> QED
  BY <1>1, <1>4, <1>5

LEMMA OwnDiffer == /\ The("response") # The("unpacked")
                   /\ The("response") # The("stream data")
                   /\ The("unpacked") # The("stream data")
BY DEF The

LEMMA OwnStay ==
  ASSUME call' = call
  PROVE  /\ The("response")' = The("response") /\ The("unpacked")' = The("unpacked")
         /\ The("stream data")' = The("stream data")
BY DEF The

LEMMA InitOwned == Init => IInv
BY DEF Init, IInv, HeapOK, EveryMessageOwned, InHand

(* A call begins: what is on the heap is older than its messages. *)
LEMMA RequestOwned == IInv /\ Request => IInv'
<1> SUFFICES ASSUME IInv, Request PROVE IInv'
  OBVIOUS
<1> USE DEF IInv, HeapOK, Request, heap
<1>1. call \in Nat /\ call' = call + 1 /\ live' = live /\ handed' = handed /\ refused' = refused
  OBVIOUS
<1>2. \A m \in live : m[2] \in Nat
  BY DEF Messages
<1>3. \A m \in live : m[2] <= call' /\ m[2] < call'
  BY <1>1, <1>2
<1>4. HeapOK'
  <2>1. handed \cup refused \subseteq live
    BY DEF EveryMessageOwned
  <2> QED
    BY <1>1, <1>3, <2>1
<1>5. EveryMessageOwned'
  BY <1>1 DEF EveryMessageOwned, InHand
<1> QED
  BY <1>4, <1>5

LEMMA NextOwned == IInv /\ [Next]_vars => IInv'
<1> SUFFICES ASSUME IInv, [Next]_vars PROVE IInv'
  OBVIOUS
<1> USE OwnDiffer, OwnStay DEF IInv, HeapOK, EveryMessageOwned, InHand, heap
<1>0. /\ \A w \in Kinds : /\ The(w) \in Messages /\ The(w)[1] = w /\ The(w)[2] <= call
                          /\ at # "idle" => The(w) \notin handed \cup refused
      /\ "response" \in Kinds /\ "unpacked" \in Kinds /\ "stream data" \in Kinds
  BY OwnMessages DEF Kinds
<1>1. CASE Request
  BY <1>1, RequestOwned
<1>2. CASE CommandFails
  BY <1>2 DEF CommandFails, Return
<1>3. CASE CommandDone
  BY <1>3 DEF CommandDone, Return
<1>4. CASE CommandResponds
  BY <1>4, <1>0 DEF CommandResponds
<1>5. CASE Refuse \/ Accept \/ FreeResponse \/ WrongType \/ Copy
  <2>1. PICK w \in {"response", "unpacked"} :
          /\ live' = live \ {The(w)} /\ InHand' = InHand \ {The(w)} /\ The(w) \in InHand
    <3>1. CASE Refuse \/ Accept
      BY <1>5, <3>1 DEF Refuse, Accept, Return
    <3>2. CASE FreeResponse
      BY <1>5, <3>2 DEF FreeResponse, Continue
    <3>3. CASE WrongType \/ Copy
      BY <1>5, <3>3 DEF WrongType, Copy, Return
    <3> QED
      BY <1>5, <3>1, <3>2, <3>3
  <2>2. at # "idle" /\ UNCHANGED <<call, handed, refused>>
    BY <1>5 DEF Refuse, Accept, FreeResponse, WrongType, Copy, Return, Continue
  <2>3. The(w) \notin handed \cup refused
    BY <1>0, <2>2 DEF Kinds
  <2> HIDE DEF InHand
  <2>4. EveryMessageOwned'
    BY <2>1, <2>2, <2>3
  <2>5. HeapOK'
    BY <2>1, <2>2
  <2> QED
    BY <2>4, <2>5
<1>6. CASE Unpack
  BY <1>6, <1>0 DEF Unpack, Continue
<1>7. CASE HandOver
  <2>1. /\ at = "free" /\ at' = "idle" /\ UNCHANGED <<call, refused>>
        /\ live' = live \ {The("response")} /\ handed' = handed \cup {The("unpacked")}
    BY <1>7 DEF HandOver, Return
  <2>2. InHand = {The("response"), The("unpacked")} /\ InHand' = {}
    BY <2>1
  <2>3. /\ The("response") \notin handed \cup refused
        /\ The("unpacked") \notin handed \cup refused
    BY <1>0, <2>1
  <2> HIDE DEF InHand
  <2>4. EveryMessageOwned'
    BY <2>1, <2>2, <2>3
  <2>5. HeapOK'
    BY <2>1, <2>3
  <2> QED
    BY <2>4, <2>5
<1>8. CASE PopTimesOut
  BY <1>8 DEF PopTimesOut, Return
<1>9. CASE Pop
  BY <1>9, <1>0 DEF Pop
<1>10. CASE RefuseStream
  BY <1>10, <1>0 DEF RefuseStream, Return
<1>11. CASE HandOverStream
  BY <1>11, <1>0 DEF HandOverStream, Return
<1>12. CASE AppFrees
  BY <1>12 DEF AppFrees
<1>13. CASE UNCHANGED vars
  BY <1>13 DEF vars
<1> QED
  BY <1>1, <1>2, <1>3, <1>4, <1>5, <1>6, <1>7, <1>8, <1>9, <1>10, <1>11, <1>12, <1>13 DEF Next

(* For every number of calls and whatever the device answers, the messages *)
(* on the heap are the application's, those of the call under way, and the *)
(* stream data that io4edge_functionblock_read_stream refused, which       *)
(* nobody will free.                                                       *)
THEOREM NothingElseLeaks == Spec => []EveryMessageOwned
<1>1. IInv => EveryMessageOwned
  BY DEF IInv
<1> QED
  BY <1>1, InitOwned, NextOwned, PTL DEF Spec

-----------------------------------------------------------------------------
(* Which operations get where: none is unpacked, copied from or handed     *)
(* over before the response was found to be the one asked for.             *)
StageOK ==
  /\ op \in Operations
  /\ at = "command" => op # "read_stream"
  /\ at \in {"pop", "popped"} => op = "read_stream"
  /\ at = "check" => op \in Setters \cup Getters \cup Readers
  /\ at \in {"free", "copy"} => op \in Getters \cup Readers /\ message.action = Action(op)
  /\ at = "copy" => op \in Readers

LEMMA OperationsDiffer ==
  /\ "read_stream" \notin Commands \cup Setters \cup Getters \cup Readers
  /\ Commands \cap (Setters \cup Getters \cup Readers) = {}
  /\ Setters \cap (Getters \cup Readers) = {} /\ Getters \cap Readers = {}
  /\ Typed \subseteq Readers
BY DEF Commands, Setters, Getters, Readers, Typed

LEMMA InitStage == Init => StageOK
BY DEF Init, StageOK, Operations, Commands

LEMMA NextStage == StageOK /\ [Next]_vars => StageOK'
<1> SUFFICES ASSUME StageOK, [Next]_vars PROVE StageOK'
  OBVIOUS
<1> USE DEF StageOK
<1>1. CASE Request
  BY <1>1 DEF Request
<1>2. CASE CommandFails \/ CommandDone \/ Refuse \/ Accept \/ HandOver \/ WrongType \/ Copy
           \/ PopTimesOut \/ RefuseStream \/ HandOverStream
  <2>1. at' = "idle" /\ op' = op
    BY <1>2 DEF CommandFails, CommandDone, Refuse, Accept, HandOver, WrongType, Copy,
                PopTimesOut, RefuseStream, HandOverStream, Return
  <2> QED
    BY <2>1
<1>3. CASE CommandResponds
  <2>1. at = "command" /\ at' = "check" /\ op' = op /\ op \notin Commands
    BY <1>3 DEF CommandResponds
  <2> QED
    BY <2>1, <1>3 DEF CommandResponds, Operations
<1>4. CASE Unpack
  BY <1>4 DEF Unpack, Continue, Action
<1>5. CASE FreeResponse
  BY <1>5 DEF FreeResponse, Continue, Action
<1>6. CASE Pop
  BY <1>6 DEF Pop
<1>7. CASE AppFrees
  BY <1>7 DEF AppFrees, Action
<1>8. CASE UNCHANGED vars
  BY <1>8 DEF vars, heap, Action
<1> QED
  BY <1>1, <1>2, <1>3, <1>4, <1>5, <1>6, <1>7, <1>8 DEF Next

Asked ==
  at # "idle" /\ at' = "idle" =>
    /\ handed' # handed <=> code' = "OK" /\ HandsOver
    /\ code' = "OK" /\ op \in Getters \cup Setters \cup Readers => message.action = Action(op)
    /\ code' = "OK" /\ op \in Typed => message.typed

LEMMA NextAsked == IInv /\ StageOK /\ [Next]_vars => Asked
<1> SUFFICES ASSUME IInv, StageOK, Next, at # "idle", at' = "idle"
             PROVE  /\ handed' # handed <=> code' = "OK" /\ HandsOver
                    /\ code' = "OK" /\ op \in Getters \cup Setters \cup Readers
                         => message.action = Action(op)
                    /\ code' = "OK" /\ op \in Typed => message.typed
  BY DEF Asked, vars, heap
<1> USE OperationsDiffer DEF HandsOver
<1>1. CASE CommandFails \/ Refuse \/ WrongType \/ PopTimesOut \/ RefuseStream
  <2>1. code' # "OK" /\ handed' = handed
    BY <1>1 DEF CommandFails, Refuse, WrongType, PopTimesOut, RefuseStream, Return, heap
  <2> QED
    BY <2>1
<1>2. CASE CommandDone
  <2>1. op \in Commands /\ handed' = handed
    BY <1>2 DEF CommandDone, heap
  <2> QED
    BY <2>1
<1>3. CASE Accept
  <2>1. op \in Setters /\ message.action = Action(op) /\ handed' = handed
    BY <1>3 DEF Accept
  <2> QED
    BY <2>1
<1>4. CASE HandOver
  <2>1. op \in Getters /\ code' = "OK" /\ handed' = handed \cup {The("unpacked")}
        /\ message.action = Action(op)
    BY <1>4 DEF HandOver, Return, StageOK
  <2>2. The("unpacked") \notin handed
    BY OwnMessages DEF IInv, Kinds
  <2> QED
    BY <2>1, <2>2
<1>5. CASE Copy
  <2>1. op \in Readers /\ handed' = handed /\ message.action = Action(op)
        /\ (op \in Typed => message.typed)
    BY <1>5 DEF Copy, StageOK
  <2> QED
    BY <2>1
<1>6. CASE HandOverStream
  <2>1. op = "read_stream" /\ code' = "OK" /\ The("unpacked") \in handed'
    BY <1>6 DEF HandOverStream, Return, StageOK
  <2>2. The("unpacked") \notin handed
    BY OwnMessages DEF IInv, Kinds
  <2> QED
    BY <2>1, <2>2
<1>7. CASE Request \/ CommandResponds \/ Unpack \/ FreeResponse \/ Pop \/ AppFrees
  BY <1>7 DEF Request, CommandResponds, Unpack, FreeResponse, Continue, Pop, AppFrees
<1> QED
  BY <1>1, <1>2, <1>3, <1>4, <1>5, <1>6, <1>7 DEF Next

(* Whatever the device answers, a call that returns OK has what was asked  *)
(* for, and only such a call hands messages to the application.            *)
THEOREM NothingElseReturned == Spec => ReturnsWhatWasAsked
<1>1. StageOK /\ IInv /\ [Next]_vars => [Asked]_vars
  BY NextAsked
<1>2. Spec => [][Asked]_vars
  BY <1>1, InitOwned, NextOwned, InitStage, NextStage, PTL DEF Spec
<1> QED
  BY <1>2 DEF ReturnsWhatWasAsked, Asked
=============================================================================
