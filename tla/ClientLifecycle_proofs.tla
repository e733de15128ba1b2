----------------------- MODULE ClientLifecycle_proofs -----------------------
(***************************************************************************)
(* Proofs about the client, first at work and then through its whole life. *)
(*                                                                         *)
(* At work it does with commands and responses what the command protocol   *)
(* allows, so that all that is proved of the protocol holds of it; the     *)
(* stream reaches the application in order; and no answer overtakes the    *)
(* stream data that the device sent before it.                             *)
(*                                                                         *)
(* From new to delete, again and again: delete frees nothing under a       *)
(* running thread or call; a creation that fails, and a deletion, leave    *)
(* nothing behind; no response is forgotten; and what is proved of one     *)
(* connection holds of each, wherever the device ends it.                  *)
(***************************************************************************)
EXTENDS ClientLifecycle, FunctionblockCommand_proofs, SequenceTheorems, WellFoundedInduction

Message == [kind : {"response", "stream"}, number : Nat]

OpsOK ==
  /\ op \in [Apps \cup {Reader} -> {"idle", "push", "pushed", "pop", "popped"}]
  /\ val \in [Apps \cup {Reader} -> StreamMsgs \cup {NULL}]
  /\ op[Reader] \in {"idle", "push", "pushed"}
  /\ op[Reader] = "push" => val[Reader] \in StreamMsgs

(* The inbox holds each kind of message in the order of its numbers, ...   *)
InboxInOrder ==
  \A i, j \in 1 .. Len(inbox) :
    i < j /\ inbox[i].kind = inbox[j].kind => inbox[i].number < inbox[j].number

(* ... the answers that have not been received, all of them, ...           *)
AnswersDue(ans) ==
  /\ received <= ans
  /\ \A i \in 1 .. Len(inbox) :
       inbox[i].kind = "response" => inbox[i].number \in received + 1 .. ans
  /\ \A k \in received + 1 .. ans : \E i \in 1 .. Len(inbox) : inbox[i] = Response(k)

(* ... and stream data younger than all that was taken off the connection. *)
StreamsDue(str) ==
  /\ \A j \in 1 .. Len(FromDevice) : FromDevice[j] <= str
  /\ \A i \in 1 .. Len(inbox) :
       inbox[i].kind = "stream" =>
         /\ inbox[i].number \in 1 .. str
         /\ \A j \in 1 .. Len(FromDevice) : FromDevice[j] < inbox[i].number

(* What the device streamed before an answer is ahead of it in the inbox,  *)
(* and stored or lost once the answer is received.                         *)
AnswersBehind(ans, str) ==
  /\ \A k \in received + 1 .. ans : before[k] <= str
  /\ \A i, j \in 1 .. Len(inbox) :
       /\ inbox[i].kind = "stream" /\ inbox[j].kind = "response"
       /\ inbox[i].number <= before[inbox[j].number]
       => i < j
  /\ \A k \in 1 .. received : \A n \in 1 .. before[k] :
       n \in lost \/ \E i \in 1 .. Len(Stored) : Stored[i] = n

Answered == \A c \in Callers :
              ret[c].code \in {"OK", "FB_ERROR"} => ret[c].cmd \in 1 .. received

(* Every stream message up to str is somewhere, in order, or lost.         *)
AllThere(str) ==
  /\ \A i, j \in DOMAIN FromDevice : i < j => FromDevice[i] < FromDevice[j]
  /\ \A n \in 1 .. str :
       \/ n \in lost \/ \E i \in DOMAIN FromDevice : FromDevice[i] = n
       \/ \E i \in DOMAIN inbox : inbox[i] = StreamData(n)

Arrived(ans, str) == ans \in 0 .. answered /\ str \in 0 .. streamed

(* The client has to do with the first ans answers and the first str       *)
(* stream messages: all that the device sent or, if the connection has     *)
(* ended, all that arrived.                                                *)
Connection(ans, str) ==
  /\ Arrived(ans, str)
  /\ ClientTypeOK /\ OpsOK /\ InboxInOrder /\ AnswersDue(ans) /\ StreamsDue(str)
  /\ AllThere(str) /\ AnswersBehind(ans, str) /\ Answered

(* The inductive invariant, beside that of the command protocol. *)
ClientInv == \E ans, str : ans = answered /\ str = streamed /\ Connection(ans, str)

-----------------------------------------------------------------------------
(* What the client does with commands and responses, the protocol does.    *)
LEMMA ClientSteps == [ClientNext]_ClientVars => [Next]_vars
<1>1. CASE DeviceAnswers \/ DeviceStreams \/ ReceiveStream \/ DropStream
  BY <1>1 DEF DeviceAnswers, DeviceStreams, ReceiveStream, DropStream
<1>2. CASE ReceiveResponse \/ DropResponse
  BY <1>2 DEF ReceiveResponse, DropResponse, Next
<1>3. CASE PushStream \/ PushInterrupted \/ PushReturns
  BY <1>3 DEF PushStream, PushInterrupted, PushReturns
<1>4. CASE HandleResponse
  BY <1>4 DEF HandleResponse, Next
<1>5. CASE \E a \in Apps : ReadStream(a) \/ PopStream(a) \/ ReadReturns(a)
  BY <1>5 DEF ReadStream, PopStream, ReadReturns
<1>6. CASE \E c \in Callers : Issue(c)
  BY <1>6 DEF Issue, Next
<1>7. CASE UNCHANGED ClientVars
  BY <1>7 DEF ClientVars
<1> QED
  BY <1>1, <1>2, <1>3, <1>4, <1>5, <1>6, <1>7 DEF ClientNext

(* The client, whatever its threads and bounds, implements the command     *)
(* protocol.                                                               *)
THEOREM ClientImplementsCommand == ClientSpec => ImplementsCommand
<1>1. ClientInit => Init
  BY DEF ClientInit
<1> QED
  BY <1>1, ClientSteps, PTL DEF ClientSpec, ImplementsCommand, Spec

(* And what it does with the stream queue, BoundedFifo allows, which       *)
(* StreamQ implements.                                                     *)
LEMMA QueueSteps == [ClientNext]_ClientVars => [Q!Next]_fifo
<1>1. CASE DeviceAnswers \/ DeviceStreams \/ ReceiveResponse \/ DropResponse \/ DropStream
  BY <1>1 DEF DeviceAnswers, DeviceStreams, ReceiveResponse, DropResponse, DropStream
<1>2. CASE ReceiveStream \/ PushStream \/ PushInterrupted \/ PushReturns
  BY <1>2 DEF ReceiveStream, PushStream, PushInterrupted, PushReturns, Q!Next
<1>3. ASSUME NEW a \in Apps, ReadStream(a) \/ PopStream(a) \/ ReadReturns(a) PROVE Q!Next
  BY <1>3 DEF ReadStream, PopStream, ReadReturns, Q!Next
<1>4. CASE HandleResponse \/ (\E c \in Callers : Issue(c)) \/ UNCHANGED ClientVars
  BY <1>4 DEF HandleResponse, Issue, ClientVars, stream
<1> QED
  BY <1>1, <1>2, <1>3, <1>4 DEF ClientNext

THEOREM ClientUsesQueue == ClientSpec => Q!Spec
<1>1. ClientInit => Q!Init
  BY DEF ClientInit
<1> QED
  BY <1>1, QueueSteps, PTL DEF ClientSpec, Q!Spec, Q!fvars, fifo

LEMMA CommandInvariance == ClientSpec => [](IInv /\ OwnInv)
BY ClientImplementsCommand, Invariance, OwnInvariance, PTL DEF ImplementsCommand

-----------------------------------------------------------------------------
(* The way of the stream through the client, as sequences. *)
LEMMA Passing ==
  ASSUME NEW S, NEW p \in Seq(S), NEW q \in Seq(S)
  PROVE  /\ p \o q \in Seq(S)
         /\ (p \o q) \o <<>> = p \o q
         /\ \A x \in S : /\ p \o Append(q, x) = Append(p \o q, x)
                         /\ (p \o q) \o <<x>> = Append(p \o q, x)
         /\ q # <<>> => Append(p, Head(q)) \o Tail(q) = p \o q
<1>1. p \o q \in Seq(S)
  BY ConcatProperties
<1>2. (p \o q) \o <<>> = p \o q
  BY <1>1, ConcatEmptySeq
<1>3. ASSUME NEW x \in S
      PROVE  p \o Append(q, x) = Append(p \o q, x) /\ (p \o q) \o <<x>> = Append(p \o q, x)
  <2>1. <<x>> \in Seq(S)
    OBVIOUS
  <2>2. Append(q, x) = q \o <<x>> /\ Append(p \o q, x) = (p \o q) \o <<x>>
    BY <1>1, AppendIsConcat
  <2> QED
    BY <2>1, <2>2, ConcatAssociative
<1>4. ASSUME q # <<>> PROVE Append(p, Head(q)) \o Tail(q) = p \o q
  <2>1. Head(q) \in S /\ Tail(q) \in Seq(S) /\ <<Head(q)>> \in Seq(S)
    BY <1>4, HeadTailProperties
  <2>2. q = <<Head(q)>> \o Tail(q)
    <3>1. Len(q) \in 1 .. Len(q) /\ 1 \in 1 .. Len(q)
      BY <1>4, EmptySeq
    <3>2. SubSeq(q, 1, Len(q)) = <<q[1]>> \o SubSeq(q, 2, Len(q))
      BY <3>1, SubSeqRecursiveFirst
    <3> QED
      BY <1>4, <3>2, SubSeqFull, TailIsSubSeq
  <2>3. Append(p, Head(q)) = p \o <<Head(q)>>
    BY <2>1, AppendIsConcat
  <2> QED
    BY <2>1, <2>2, <2>3, ConcatAssociative
<1> QED
  BY <1>1, <1>2, <1>3, <1>4

LEMMA MessageIs ==
  ASSUME NEW m \in Message, NEW n
  PROVE  /\ m = Response(n) <=> m.kind = "response" /\ m.number = n
         /\ m = StreamData(n) <=> m.kind = "stream" /\ m.number = n
         /\ m.kind \in {"response", "stream"} /\ m.number \in Nat
BY DEF Message, Response, StreamData

(* The sequences of the client and what they hold. *)
LEMMA WhatIsWhere ==
  ASSUME ClientTypeOK, OpsOK
  PROVE  /\ inbox \in Seq(Message) /\ \A i \in 1 .. Len(inbox) : inbox[i] \in Message
         /\ Stored \in Seq(StreamMsgs) /\ FromDevice \in Seq(StreamMsgs)
         /\ Len(inbox) \in Nat /\ Len(Stored) \in Nat /\ Len(FromDevice) \in Nat
         /\ DOMAIN inbox = 1 .. Len(inbox) /\ DOMAIN Stored = 1 .. Len(Stored)
         /\ DOMAIN FromDevice = 1 .. Len(FromDevice)
         /\ op[Reader] # "push" => FromDevice = Stored
         /\ op[Reader] = "push" => FromDevice = Append(Stored, val[Reader])
         /\ \A i \in 1 .. Len(Stored) : Stored[i] \in Nat
         /\ \A i \in 1 .. Len(FromDevice) : FromDevice[i] \in Nat
<1>1. inbox \in Seq(Message) /\ queue \in Seq(StreamMsgs) /\ popped \in Seq(StreamMsgs)
  BY DEF ClientTypeOK, Message
<1>2. Stored \in Seq(StreamMsgs)
  BY <1>1, Passing DEF Stored
<1>3. /\ op[Reader] # "push" => FromDevice = Stored
      /\ op[Reader] = "push" => FromDevice = Append(Stored, val[Reader])
  BY <1>1, Passing DEF FromDevice, InHand, Stored, OpsOK
<1>4. FromDevice \in Seq(StreamMsgs)
  BY <1>2, <1>3, AppendProperties DEF OpsOK
<1>5. \A x \in StreamMsgs : x \in Nat
  BY ClientAssumption DEF StreamMsgs
<1> QED
  BY <1>1, <1>2, <1>3, <1>4, <1>5, LenProperties, ElementOfSeq

LEMMA Bounds ==
  ASSUME NEW ans, NEW str, TypeOK, Connection(ans, str)
  PROVE  /\ received \in Nat /\ answered \in Nat /\ streamed \in Nat /\ MaxStream \in Nat
         /\ ans \in Nat /\ ans <= answered /\ str \in Nat /\ str <= streamed /\ str \in 0 .. MaxStream
<1>1. received \in Nat /\ Len(sent) \in Nat /\ MaxStream \in Nat
  BY ClientAssumption, LenProperties DEF TypeOK
<1>2. answered \in Nat /\ streamed \in Nat /\ streamed <= MaxStream
  BY <1>1 DEF Connection, ClientTypeOK
<1>3. ans \in Nat /\ ans <= answered /\ str \in Nat /\ str <= streamed
  BY <1>2 DEF Connection, Arrived
<1> QED
  BY <1>1, <1>2, <1>3

-----------------------------------------------------------------------------
LEMMA InitClient == ClientInit => Connection(0, 0)
<1> SUFFICES ASSUME ClientInit PROVE Connection(0, 0)
  OBVIOUS
<1>1. /\ inbox = <<>> /\ answered = 0 /\ streamed = 0 /\ lost = {} /\ popped = <<>> /\ before = <<>>
      /\ queue = <<>> /\ received = 0 /\ sent = <<>> /\ ret = [c \in Callers |-> NoReturn]
      /\ op = [t \in Apps \cup {Reader} |-> "idle"] /\ val = [t \in Apps \cup {Reader} |-> NULL]
  BY DEF ClientInit, Init, Q!Init, Q!Threads
<1>2. OpsOK /\ op[Reader] = "idle"
  BY <1>1 DEF OpsOK
<1>3. ClientTypeOK
  <2>1. before \in [1 .. answered -> 0 .. MaxStream]
    BY <1>1
  <2> QED
    BY <1>1, <2>1, ClientAssumption DEF ClientTypeOK
<1>4. Stored = <<>> /\ FromDevice = <<>>
  BY <1>1, <1>2 DEF Stored, FromDevice, InHand
<1>5. InboxInOrder /\ AnswersDue(0) /\ StreamsDue(0) /\ AllThere(0) /\ AnswersBehind(0, 0)
  BY <1>1, <1>4 DEF InboxInOrder, AnswersDue, StreamsDue, AllThere, AnswersBehind
<1>6. Answered
  BY <1>1 DEF Answered, NoReturn
<1> QED
  BY <1>1, <1>2, <1>3, <1>5, <1>6 DEF Connection, Arrived

(* A command that returns an answer was answered: a response that matches  *)
(* is the last that was received.  Nothing else of the client changes.     *)
LEMMA IssueClient ==
  ASSUME NEW ans, NEW str, IInv, Connection(ans, str), NEW c \in Callers, Issue(c)
  PROVE  Connection(ans, str)'
<1>1. TypeOK /\ Command(c) /\ UNCHANGED stream /\ Len(sent) \in Nat
  BY DEF IInv, Issue, TypeOK
<1>2. /\ received' = received /\ Len(sent) <= Len(sent') /\ Len(sent') \in Nat
      /\ \A d \in Callers :
           ret'[d].code \in {"OK", "FB_ERROR"} => ret'[d] = ret[d] \/ ret'[d].cmd \in 1 .. received
  <2> USE DEF TypeOK, reader, wire
  <2>1. CASE Call(c)
    BY <1>1, <2>1 DEF Call, NoReturn
  <2>2. CASE Begin(c) \/ Wait(c) \/ Take(c) \/ Clear(c) \/ Crash(c) \/ Release(c)
    BY <1>1, <2>2 DEF Begin, Wait, Take, Clear, Crash, Release
  <2>3. CASE Write(c)
    BY <1>1, <2>3 DEF Write
  <2>4. CASE WriteFails(c) \/ Timeout(c) \/ NoResponse(c) \/ Mismatch(c)
    BY <1>1, <2>4 DEF WriteFails, Timeout, NoResponse, Mismatch, Return
  <2>5. CASE Match(c)
    <3>1. pc[c] = "check" /\ Matches(c) /\ Alive
      BY <2>5 DEF Match, Settle, At
    <3>2. res[c] = Len(sent) /\ received = Len(sent)
      BY <1>1, <3>1, MatchOwn DEF IInv, Running
    <3>3. Len(sent) > 0
      BY <1>1, <3>1, <3>2, Numbers DEF Matches
    <3> QED
      BY <1>1, <2>5, <3>2, <3>3 DEF Match, Settle, Return
  <2> QED
    BY <1>1, <2>1, <2>2, <2>3, <2>4, <2>5 DEF Command
<1>3. UNCHANGED <<inbox, answered, streamed, before, queue, op, val, lost, popped>>
  BY <1>1 DEF stream, device, fifo
<1>4. ClientTypeOK'
  BY <1>1, <1>2, <1>3 DEF Connection, ClientTypeOK
<1>5. Answered'
  BY <1>2 DEF Connection, Answered
<1>6. OpsOK' /\ InboxInOrder' /\ AnswersDue(ans)' /\ StreamsDue(str)' /\ AllThere(str)' /\ AnswersBehind(ans, str)'
  BY <1>2, <1>3 DEF Connection, OpsOK, InboxInOrder, AnswersDue, StreamsDue, AllThere,
                    AnswersBehind, Stored, FromDevice, InHand
<1> QED
  BY <1>3, <1>4, <1>5, <1>6 DEF Connection, Arrived

(* What read_thread does with a response it has received, or a step that   *)
(* has nothing to do with what was received.                               *)
Received == <<received, sent, ret, stream>>

LEMMA ReceivedStays == HandleResponse \/ UNCHANGED ClientVars => UNCHANGED Received
BY DEF Received, HandleResponse, Test, Free, Store, Post, PostFails, ClientVars, vars, caller, wire,
       reader

LEMMA HandleClient ==
  ASSUME NEW ans, NEW str, Connection(ans, str), UNCHANGED Received
  PROVE  Connection(ans, str)'
<1>1. UNCHANGED <<received, sent, ret, stream>>
  BY DEF Received
<1>2. UNCHANGED <<inbox, answered, streamed, before, queue, op, val, lost, popped>>
  BY <1>1 DEF stream, device, fifo
<1>3. UNCHANGED <<Stored, FromDevice>>
  BY <1>2 DEF Stored, FromDevice, InHand
<1>4. ClientTypeOK' /\ OpsOK' /\ Arrived(ans, str)' /\ Answered'
  BY <1>1, <1>2 DEF Connection, ClientTypeOK, Answered, OpsOK, Arrived
<1>5. InboxInOrder' /\ AnswersDue(ans)' /\ StreamsDue(str)' /\ AllThere(str)' /\ AnswersBehind(ans, str)'
  BY <1>1, <1>2, <1>3 DEF Connection, InboxInOrder, AnswersDue, StreamsDue, AllThere, AnswersBehind
<1> QED
  BY <1>4, <1>5 DEF Connection

(* A message moves on between read_thread, the queue and the application:  *)
(* what came from the device stays as it is.                               *)
LEMMA PassedOn ==
  ASSUME NEW ans, NEW str, Connection(ans, str),
         ClientTypeOK', OpsOK', FromDevice' = FromDevice,
         Stored' = Stored \/ \E x \in StreamMsgs : Stored' = Append(Stored, x),
         UNCHANGED <<vars, inbox, device, lost>>
  PROVE  Connection(ans, str)'
<1>1. UNCHANGED <<received, ret, inbox, answered, streamed, before, lost>>
  BY DEF vars, reader, caller, device
<1>2. \A i \in 1 .. Len(Stored) : i \in 1 .. Len(Stored') /\ Stored'[i] = Stored[i]
  <2>1. Stored \in Seq(StreamMsgs) /\ Len(Stored) \in Nat
    BY WhatIsWhere DEF Connection
  <2>2. CASE Stored' = Stored
    BY <2>2
  <2>3. ASSUME NEW x \in StreamMsgs, Stored' = Append(Stored, x)
        PROVE  \A i \in 1 .. Len(Stored) : i \in 1 .. Len(Stored') /\ Stored'[i] = Stored[i]
    BY <2>1, <2>3, AppendProperties
  <2> QED
    BY <2>2, <2>3
<1>3. AnswersBehind(ans, str)'
  BY <1>1, <1>2 DEF Connection, AnswersBehind
<1>4. Answered' /\ InboxInOrder' /\ AnswersDue(ans)' /\ StreamsDue(str)' /\ AllThere(str)'
  BY <1>1 DEF Connection, Answered, InboxInOrder, AnswersDue, StreamsDue, AllThere
<1> QED
  BY <1>1, <1>3, <1>4 DEF Connection, Arrived

LEMMA AppsAreNotReader == \A a \in Apps : a # Reader
BY ClientAssumption

LEMMA ReadClient ==
  ASSUME NEW ans, NEW str, Connection(ans, str), NEW a \in Apps,
          ReadStream(a) \/ PopStream(a) \/ ReadReturns(a)
  PROVE  Connection(ans, str)'
<1>1. ClientTypeOK /\ OpsOK /\ a # Reader /\ Capacity \in Nat
  BY ClientAssumption DEF Connection
<1>2. UNCHANGED <<vars, inbox, device, lost>>
  BY DEF ReadStream, PopStream, ReadReturns
<1>3. CASE ReadStream(a) \/ ReadReturns(a)
  <2>1. UNCHANGED <<queue, popped>>
    BY <1>3 DEF ReadStream, ReadReturns, Q!Call, Q!PopGivesUp, Q!Finish
  <2>2. OpsOK' /\ op'[Reader] = op[Reader] /\ val'[Reader] = val[Reader]
    BY <1>1, <1>3 DEF ReadStream, ReadReturns, Q!Call, Q!PopGivesUp, Q!Finish, Q!Move, OpsOK
  <2>3. ClientTypeOK'
    BY <1>1, <1>2, <2>1 DEF ClientTypeOK, vars, wire, device
  <2>4. Stored' = Stored /\ FromDevice' = FromDevice
    BY <2>1, <2>2 DEF Stored, FromDevice, InHand
  <2> QED
    BY <1>2, <2>2, <2>3, <2>4, PassedOn
<1>4. CASE PopStream(a)
  <2>1. /\ queue \in Seq(StreamMsgs) /\ popped \in Seq(StreamMsgs) /\ queue # <<>>
        /\ queue' = Tail(queue) /\ popped' = Append(popped, Head(queue))
        /\ op' = [op EXCEPT ![a] = "popped"] /\ val' = [val EXCEPT ![a] = Head(queue)]
    BY <1>1, <1>4 DEF PopStream, Q!Pop, Q!Move, ClientTypeOK
  <2>2. /\ Head(queue) \in StreamMsgs /\ Tail(queue) \in Seq(StreamMsgs)
        /\ Len(Tail(queue)) = Len(queue) - 1
    BY <2>1, HeadTailProperties
  <2>3. OpsOK' /\ op'[Reader] = op[Reader] /\ val'[Reader] = val[Reader]
    BY <1>1, <2>1, <2>2 DEF OpsOK
  <2>4. ClientTypeOK'
    <3>1. queue' \in Seq(StreamMsgs) /\ Len(queue') <= Capacity /\ popped' \in Seq(StreamMsgs)
      BY <1>1, <2>1, <2>2, AppendProperties DEF ClientTypeOK
    <3> QED
      BY <1>1, <1>2, <3>1 DEF ClientTypeOK, vars, wire, device
  <2>5. Stored' = Stored
    BY <2>1, Passing DEF Stored
  <2>6. FromDevice' = FromDevice
    BY <2>3, <2>5 DEF FromDevice, InHand
  <2> QED
    BY <1>2, <2>3, <2>4, <2>5, <2>6, PassedOn
<1> QED
  BY <1>3, <1>4

LEMMA PushClient ==
  ASSUME NEW ans, NEW str, Connection(ans, str), PushStream \/ PushReturns
  PROVE  Connection(ans, str)'
<1>1. ClientTypeOK /\ OpsOK /\ Capacity \in Nat
  BY ClientAssumption DEF Connection
<1>2. UNCHANGED <<vars, inbox, device, lost, popped>>
  BY DEF PushStream, PushReturns
<1>3. CASE PushReturns
  <2>1. queue' = queue /\ op[Reader] = "pushed" /\ op'[Reader] = "idle" /\ OpsOK'
    BY <1>1, <1>3 DEF PushReturns, Q!Finish, Q!Move, OpsOK
  <2>2. ClientTypeOK'
    BY <1>1, <1>2, <2>1 DEF ClientTypeOK, vars, wire, device
  <2>3. Stored' = Stored /\ FromDevice' = FromDevice
    BY <1>2, <2>1 DEF Stored, FromDevice, InHand
  <2> QED
    BY <1>2, <2>1, <2>2, <2>3, PassedOn
<1>4. CASE PushStream
  <2>1. /\ Len(queue) < Capacity /\ queue' = Append(queue, val[Reader]) /\ val' = val
        /\ op[Reader] = "push" /\ op'[Reader] = "pushed" /\ OpsOK' /\ val[Reader] \in StreamMsgs
    BY <1>1, <1>4 DEF PushStream, Q!Push, Q!Move, OpsOK
  <2>2. /\ queue' \in Seq(StreamMsgs) /\ Len(queue') = Len(queue) + 1
        /\ queue \in Seq(StreamMsgs) /\ popped \in Seq(StreamMsgs) /\ Len(queue) \in Nat
    BY <1>1, <2>1, AppendProperties, LenProperties DEF ClientTypeOK
  <2>3. ClientTypeOK'
    BY <1>1, <1>2, <2>1, <2>2 DEF ClientTypeOK, vars, wire, device
  <2>4. Stored' = Append(Stored, val[Reader])
    BY <1>2, <2>1, <2>2, Passing DEF Stored
  <2>5. FromDevice' = FromDevice
    <3>1. FromDevice = Append(Stored, val[Reader])
      BY <1>1, <2>1, WhatIsWhere
    <3>2. FromDevice' = Stored' \o <<>>
      BY <2>1 DEF FromDevice, InHand
    <3>3. Stored' \o <<>> = Stored'
      BY <1>2, <2>2, Passing DEF Stored
    <3> QED
      BY <2>4, <3>1, <3>2, <3>3
  <2> QED
    BY <1>2, <2>1, <2>3, <2>4, <2>5, PassedOn
<1> QED
  BY <1>3, <1>4

-----------------------------------------------------------------------------
(* The device sends one more message, ...                                  *)
LEMMA InboxGrows ==
  ASSUME ClientTypeOK, OpsOK, NEW m \in Message, inbox' = Append(inbox, m)
  PROVE  /\ inbox' \in Seq(Message) /\ Len(inbox) \in Nat /\ Len(inbox') = Len(inbox) + 1
         /\ \A i \in 1 .. Len(inbox) : inbox'[i] = inbox[i] /\ inbox[i] \in Message
         /\ inbox'[Len(inbox) + 1] = m
         /\ DOMAIN inbox' = 1 .. Len(inbox') /\ DOMAIN inbox = 1 .. Len(inbox)
<1>1. inbox \in Seq(Message) /\ Len(inbox) \in Nat /\ \A i \in 1 .. Len(inbox) : inbox[i] \in Message
  BY WhatIsWhere
<1>2. /\ inbox' \in Seq(Message) /\ Len(inbox') = Len(inbox) + 1
      /\ \A i \in 1 .. Len(inbox) : inbox'[i] = inbox[i]
      /\ inbox'[Len(inbox) + 1] = m
  BY <1>1, AppendProperties
<1> QED
  BY <1>1, <1>2, LenProperties

LEMMA AnswersClient ==
  ASSUME NEW ans, NEW str, TypeOK, Connection(ans, str), ans = answered, str = streamed,
         DeviceAnswers
  PROVE  Connection(ans + 1, str)'
<1> DEFINE m == Response(ans + 1)
<1>1. ClientTypeOK /\ OpsOK /\ received \in Nat /\ ans \in Nat /\ str \in Nat
  BY DEF Connection, ClientTypeOK, Arrived, TypeOK
<1>2. /\ UNCHANGED <<vars, streamed, queue, op, val, lost, popped>> /\ answered' = ans + 1
      /\ inbox' = Append(inbox, m) /\ before' = Append(before, str) /\ ans < Len(sent)
  BY DEF DeviceAnswers, fifo
<1>3. UNCHANGED <<received, sent, ret, Stored, FromDevice>>
  BY <1>2 DEF vars, reader, wire, caller, Stored, FromDevice, InHand
<1>4. m \in Message /\ m.kind = "response" /\ m.number = ans + 1
  BY <1>1 DEF Message, Response
<1> HIDE DEF m
<1>5. /\ inbox' \in Seq(Message) /\ Len(inbox) \in Nat /\ Len(inbox') = Len(inbox) + 1
      /\ \A i \in 1 .. Len(inbox) : inbox'[i] = inbox[i] /\ inbox[i] \in Message
      /\ inbox'[Len(inbox) + 1] = m
      /\ DOMAIN inbox' = 1 .. Len(inbox') /\ DOMAIN inbox = 1 .. Len(inbox)
  BY <1>1, <1>2, <1>4, InboxGrows
<1>6. \A i \in 1 .. Len(inbox') : i \in 1 .. Len(inbox) \/ (i = Len(inbox) + 1 /\ inbox'[i] = m)
  BY <1>5
<1>7. /\ before' \in [1 .. (ans + 1) -> 0 .. MaxStream]
      /\ \A k \in 1 .. ans : before'[k] = before[k]
      /\ before'[ans + 1] = str
  <2>1. before \in Seq(0 .. MaxStream) /\ Len(before) = ans /\ str \in 0 .. MaxStream
    <3>1. before \in [1 .. ans -> 0 .. MaxStream] /\ str \in 0 .. MaxStream
      BY <1>1 DEF ClientTypeOK
    <3>2. before \in Seq(0 .. MaxStream)
      BY <1>1, <3>1, SeqDef
    <3>3. DOMAIN before = 1 .. Len(before) /\ DOMAIN before = 1 .. ans /\ Len(before) \in Nat
      BY <3>1, <3>2, LenProperties
    <3> QED
      BY <1>1, <3>1, <3>2, <3>3
  <2>2. /\ before' \in Seq(0 .. MaxStream) /\ Len(before') = ans + 1
        /\ \A k \in 1 .. ans : before'[k] = before[k]
        /\ before'[ans + 1] = str
    BY <1>2, <2>1, AppendProperties
  <2> QED
    BY <1>2, <2>2, LenProperties
<1>8. ClientTypeOK'
  BY <1>1, <1>2, <1>3, <1>5, <1>7 DEF ClientTypeOK, Message
<1>9. OpsOK' /\ Answered'
  BY <1>2, <1>3 DEF Connection, OpsOK, Answered
<1>10. InboxInOrder'
  <2> SUFFICES ASSUME NEW i \in 1 .. Len(inbox'), NEW j \in 1 .. Len(inbox'),
                      i < j, inbox'[i].kind = inbox'[j].kind
               PROVE  inbox'[i].number < inbox'[j].number
    BY DEF InboxInOrder
  <2>1. i \in 1 .. Len(inbox)
    BY <1>5, <1>6
  <2>2. CASE j \in 1 .. Len(inbox)
    BY <1>5, <2>1, <2>2 DEF Connection, InboxInOrder
  <2>3. CASE j \notin 1 .. Len(inbox)
    <3>1. inbox'[j].number = ans + 1 /\ inbox[i].kind = "response" /\ inbox'[i] = inbox[i]
      BY <1>4, <1>5, <1>6, <2>1, <2>3
    <3>2. inbox[i].number \in received + 1 .. ans
      BY <2>1, <3>1 DEF Connection, AnswersDue
    <3> QED
      BY <1>1, <3>1, <3>2
  <2> QED
    BY <2>2, <2>3
<1>11. AnswersDue(ans + 1)'
  <2>1. received <= (ans + 1)
    BY <1>1, <1>2 DEF Connection, AnswersDue
  <2>2. \A i \in 1 .. Len(inbox') :
          inbox'[i].kind = "response" => inbox'[i].number \in received + 1 .. (ans + 1)
    BY <1>1, <1>2, <1>4, <1>5, <1>6 DEF Connection, AnswersDue
  <2>3. ASSUME NEW k \in received + 1 .. (ans + 1)
        PROVE  \E i \in 1 .. Len(inbox') : inbox'[i] = Response(k)
    <3>1. CASE k = ans + 1
      BY <1>5, <3>1 DEF m
    <3>2. CASE k # ans + 1
      <4>1. k \in received + 1 .. ans
        BY <1>1, <1>2, <3>2
      <4>2. PICK i \in 1 .. Len(inbox) : inbox[i] = Response(k)
        BY <4>1 DEF Connection, AnswersDue
      <4> QED
        BY <1>5, <4>2
    <3> QED
      BY <3>1, <3>2
  <2> QED
    BY <1>3, <2>1, <2>2, <2>3 DEF AnswersDue
<1>12. StreamsDue(str)'
  BY <1>2, <1>3, <1>4, <1>5, <1>6 DEF Connection, StreamsDue
<1>13. AllThere(str)'
  BY <1>2, <1>3, <1>5 DEF Connection, AllThere
<1>14. AnswersBehind(ans + 1, str)'
  <2>1. \A k \in received + 1 .. (ans + 1) : before'[k] <= str
    BY <1>1, <1>2, <1>7 DEF Connection, AnswersBehind
  <2>2. ASSUME NEW i \in 1 .. Len(inbox'), NEW j \in 1 .. Len(inbox'),
               inbox'[i].kind = "stream", inbox'[j].kind = "response",
               inbox'[i].number <= before'[inbox'[j].number]
        PROVE  i < j
    <3>1. i \in 1 .. Len(inbox)
      BY <1>4, <1>6, <2>2
    <3>2. CASE j \in 1 .. Len(inbox)
      <4>1. inbox[j].number \in 1 .. ans
        BY <1>1, <1>5, <2>2, <3>2 DEF Connection, AnswersDue
      <4> QED
        BY <1>5, <1>7, <2>2, <3>1, <3>2, <4>1 DEF Connection, AnswersBehind
    <3> QED
      BY <1>5, <1>6, <3>1, <3>2
  <2>3. ASSUME NEW k \in 1 .. received, NEW n \in 1 .. before'[k]
        PROVE  n \in lost \/ \E i \in 1 .. Len(Stored) : Stored[i] = n
    <3>1. k \in 1 .. ans
      BY <1>1 DEF Connection, AnswersDue
    <3> QED
      BY <1>7, <2>3, <3>1 DEF Connection, AnswersBehind
  <2> QED
    BY <1>2, <1>3, <2>1, <2>2, <2>3 DEF AnswersBehind
<1> QED
  BY <1>1, <1>2, <1>8, <1>9, <1>10, <1>11, <1>12, <1>13, <1>14 DEF Connection, Arrived, ClientTypeOK

LEMMA StreamsClient ==
  ASSUME NEW ans, NEW str, TypeOK, Connection(ans, str), ans = answered, str = streamed,
         DeviceStreams
  PROVE  Connection(ans, str + 1)'
<1> DEFINE m == StreamData(str + 1)
<1>1. ClientTypeOK /\ OpsOK /\ received \in Nat /\ ans \in Nat /\ str \in Nat
  BY DEF Connection, ClientTypeOK, Arrived, TypeOK
<1>2. /\ UNCHANGED <<vars, answered, before, queue, op, val, lost, popped>> /\ streamed' = str + 1
      /\ inbox' = Append(inbox, m) /\ str < MaxStream
  BY DEF DeviceStreams, fifo
<1>3. UNCHANGED <<received, sent, ret, Stored, FromDevice>>
  BY <1>2 DEF vars, reader, wire, caller, Stored, FromDevice, InHand
<1>4. m \in Message /\ m.kind = "stream" /\ m.number = str + 1
  BY <1>1 DEF Message, StreamData
<1> HIDE DEF m
<1>5. /\ inbox' \in Seq(Message) /\ Len(inbox) \in Nat /\ Len(inbox') = Len(inbox) + 1
      /\ \A i \in 1 .. Len(inbox) : inbox'[i] = inbox[i] /\ inbox[i] \in Message
      /\ inbox'[Len(inbox) + 1] = m
      /\ DOMAIN inbox' = 1 .. Len(inbox') /\ DOMAIN inbox = 1 .. Len(inbox)
  BY <1>1, <1>2, <1>4, InboxGrows
<1>6. \A i \in 1 .. Len(inbox') : i \in 1 .. Len(inbox) \/ (i = Len(inbox) + 1 /\ inbox'[i] = m)
  BY <1>5
<1>7. \A j \in 1 .. Len(FromDevice) : FromDevice[j] \in Nat
  BY <1>1, WhatIsWhere
<1>8. ClientTypeOK'
  BY <1>1, <1>2, <1>3, <1>5, ClientAssumption DEF ClientTypeOK, Message
<1>9. OpsOK' /\ Answered'
  BY <1>2, <1>3 DEF Connection, OpsOK, Answered
<1>10. InboxInOrder'
  <2> SUFFICES ASSUME NEW i \in 1 .. Len(inbox'), NEW j \in 1 .. Len(inbox'),
                      i < j, inbox'[i].kind = inbox'[j].kind
               PROVE  inbox'[i].number < inbox'[j].number
    BY DEF InboxInOrder
  <2>1. i \in 1 .. Len(inbox)
    BY <1>5, <1>6
  <2>2. CASE j \in 1 .. Len(inbox)
    BY <1>5, <2>1, <2>2 DEF Connection, InboxInOrder
  <2>3. CASE j \notin 1 .. Len(inbox)
    <3>1. inbox'[j].number = str + 1 /\ inbox[i].kind = "stream" /\ inbox'[i] = inbox[i]
      BY <1>4, <1>5, <1>6, <2>1, <2>3
    <3>2. inbox[i].number \in 1 .. str
      BY <2>1, <3>1 DEF Connection, StreamsDue
    <3> QED
      BY <1>1, <3>1, <3>2
  <2> QED
    BY <2>2, <2>3
<1>11. AnswersDue(ans)'
  <2>1. \A k \in received + 1 .. ans : \E i \in 1 .. Len(inbox') : inbox'[i] = Response(k)
    BY <1>5 DEF Connection, AnswersDue
  <2> QED
    BY <1>2, <1>3, <1>4, <1>5, <1>6, <2>1 DEF Connection, AnswersDue
<1>12. StreamsDue(str + 1)'
  <2>1. /\ \A j \in 1 .. Len(FromDevice) : FromDevice[j] <= str
        /\ \A i \in 1 .. Len(inbox) :
             inbox[i].kind = "stream" =>
               /\ inbox[i].number \in 1 .. str
               /\ \A j \in 1 .. Len(FromDevice) : FromDevice[j] < inbox[i].number
    BY DEF Connection, StreamsDue
  <2>2. \A j \in 1 .. Len(FromDevice) : FromDevice[j] <= str + 1 /\ FromDevice[j] < str + 1
    BY <1>1, <1>7, <2>1
  <2> QED
    BY <1>1, <1>3, <1>4, <1>5, <1>6, <2>1, <2>2 DEF StreamsDue
<1>13. AllThere(str + 1)'
  <2>1. ASSUME NEW n \in 1 .. (str + 1)
        PROVE  \/ n \in lost \/ \E i \in DOMAIN FromDevice : FromDevice[i] = n
               \/ \E i \in DOMAIN inbox' : inbox'[i] = StreamData(n)
    <3>1. CASE n = str + 1
      BY <1>5, <3>1 DEF m
    <3>2. CASE n # str + 1
      <4>1. n \in 1 .. str
        BY <1>1, <3>2
      <4>2. \/ n \in lost \/ \E i \in DOMAIN FromDevice : FromDevice[i] = n
            \/ \E i \in DOMAIN inbox : inbox[i] = StreamData(n)
        BY <4>1 DEF Connection, AllThere
      <4> QED
        BY <1>5, <4>2
    <3> QED
      BY <3>1, <3>2
  <2> QED
    BY <1>2, <1>3, <2>1 DEF Connection, AllThere
<1>14. AnswersBehind(ans, str + 1)'
  <2>1. ASSUME NEW i \in 1 .. Len(inbox'), NEW j \in 1 .. Len(inbox'),
               inbox'[i].kind = "stream", inbox'[j].kind = "response",
               inbox'[i].number <= before[inbox'[j].number]
        PROVE  i < j
    <3>1. j \in 1 .. Len(inbox)
      BY <1>4, <1>6, <2>1
    <3>2. inbox[j].number \in received + 1 .. ans
      BY <1>1, <1>5, <2>1, <3>1 DEF Connection, AnswersDue
    <3>3. before[inbox[j].number] <= str /\ before[inbox[j].number] \in Nat
      BY <1>1, <3>2 DEF Connection, AnswersBehind, ClientTypeOK
    <3>4. i \in 1 .. Len(inbox)
      BY <1>1, <1>4, <1>5, <1>6, <2>1, <3>1, <3>3
    <3> QED
      BY <1>5, <2>1, <3>1, <3>4 DEF Connection, AnswersBehind
  <2>2. \A k \in received + 1 .. ans : before[k] <= (str + 1)
    <3>1. \A k \in received + 1 .. ans : before[k] <= str
      BY DEF Connection, AnswersBehind
    <3>2. \A k \in received + 1 .. ans : before[k] \in Nat
      BY <1>1 DEF ClientTypeOK
    <3> QED
      BY <1>1, <3>1, <3>2
  <2> QED
    BY <1>2, <1>3, <2>1, <2>2 DEF Connection, AnswersBehind
<1> QED
  BY <1>1, <1>2, <1>8, <1>9, <1>10, <1>11, <1>12, <1>13, <1>14 DEF Connection, Arrived, ClientTypeOK

(* ... and read_thread takes the oldest.                                   *)
LEMMA InboxShrinks ==
  ASSUME ClientTypeOK, OpsOK, inbox # <<>>, inbox' = Tail(inbox)
  PROVE  /\ inbox' \in Seq(Message) /\ Len(inbox) \in Nat /\ Len(inbox) > 0
         /\ Len(inbox') = Len(inbox) - 1 /\ Head(inbox) = inbox[1] /\ inbox[1] \in Message
         /\ \A i \in 1 .. Len(inbox') :
              inbox'[i] = inbox[i + 1] /\ inbox[i + 1] \in Message /\ i + 1 \in 1 .. Len(inbox)
         /\ \A i \in 1 .. Len(inbox) : i # 1 => i - 1 \in 1 .. Len(inbox') /\ inbox'[i - 1] = inbox[i]
         /\ DOMAIN inbox' = 1 .. Len(inbox') /\ DOMAIN inbox = 1 .. Len(inbox)
<1>1. inbox \in Seq(Message) /\ Len(inbox) \in Nat
      /\ \A i \in 1 .. Len(inbox) : inbox[i] \in Message
  BY WhatIsWhere
<1>2. Len(inbox) > 0
  BY <1>1, EmptySeq
<1>3. /\ inbox' \in Seq(Message) /\ Len(inbox') = Len(inbox) - 1
      /\ \A i \in 1 .. Len(inbox') : inbox'[i] = inbox[i + 1]
  BY <1>1, HeadTailProperties
<1>4. Head(inbox) = inbox[1]
  BY <1>1
<1>5. \A i \in 1 .. Len(inbox') : i + 1 \in 1 .. Len(inbox)
  BY <1>1, <1>3
<1>6. \A i \in 1 .. Len(inbox) : i # 1 => i - 1 \in 1 .. Len(inbox') /\ inbox'[i - 1] = inbox[i]
  BY <1>1, <1>3
<1> QED
  BY <1>1, <1>2, <1>3, <1>4, <1>5, <1>6, LenProperties

(* The next response in the inbox is the next one to be received, and the  *)
(* stream data before it was received already.                             *)
LEMMA ResponseClient ==
  ASSUME NEW ans, NEW str, TypeOK, Connection(ans, str), ReceiveResponse \/ DropResponse
  PROVE  Connection(ans, str)'
<1>1. /\ ClientTypeOK /\ OpsOK /\ received \in Nat /\ ans \in Nat /\ str \in Nat
      /\ \A k \in 1 .. ans : before[k] \in Nat
  BY DEF Connection, ClientTypeOK, Arrived, TypeOK
<1>2. /\ UNCHANGED <<answered, streamed, before, queue, op, val, lost, popped, sent, ret>>
      /\ received' = received + 1 /\ op[Reader] = "idle"
      /\ inbox # <<>> /\ Head(inbox).kind = "response" /\ inbox' = Tail(inbox)
  BY DEF ReceiveResponse, DropResponse, Reading, Receive, Drop, device, fifo, wire, caller
<1>3. UNCHANGED <<Stored, FromDevice>> /\ FromDevice = Stored
  BY <1>1, <1>2, WhatIsWhere DEF Stored, FromDevice, InHand
<1>4. /\ inbox' \in Seq(Message) /\ Len(inbox) \in Nat /\ Len(inbox) > 0
      /\ Len(inbox') = Len(inbox) - 1 /\ inbox[1].kind = "response" /\ inbox[1] \in Message
      /\ \A i \in 1 .. Len(inbox') :
           inbox'[i] = inbox[i + 1] /\ inbox[i + 1] \in Message /\ i + 1 \in 1 .. Len(inbox)
      /\ \A i \in 1 .. Len(inbox) : i # 1 => i - 1 \in 1 .. Len(inbox') /\ inbox'[i - 1] = inbox[i]
      /\ DOMAIN inbox' = 1 .. Len(inbox') /\ DOMAIN inbox = 1 .. Len(inbox)
  BY <1>1, <1>2, InboxShrinks
<1>5. inbox[1].number = received + 1 /\ received + 1 \in 1 .. ans
  <2>1. 1 \in 1 .. Len(inbox) /\ inbox[1].number \in received + 1 .. ans
    BY <1>4 DEF Connection, AnswersDue
  <2>2. PICK i \in 1 .. Len(inbox) : inbox[i] = Response(received + 1)
    BY <1>1, <2>1 DEF Connection, AnswersDue
  <2>3. inbox[i].kind = "response" /\ inbox[i].number = received + 1
    BY <2>2 DEF Response
  <2>4. ASSUME 1 < i PROVE FALSE
    <3>1. inbox[1].number < inbox[i].number
      BY <1>4, <2>1, <2>2, <2>3, <2>4 DEF Connection, InboxInOrder
    <3> QED
      BY <1>1, <2>1, <2>3, <3>1
  <2>5. i = 1
    BY <2>2, <2>4
  <2> QED
    BY <1>1, <2>1, <2>3, <2>5
<1>6. ClientTypeOK'
  BY <1>1, <1>2, <1>4 DEF ClientTypeOK, Message
<1>7. OpsOK' /\ Answered'
  BY <1>1, <1>2 DEF Connection, OpsOK, Answered
<1>8. InboxInOrder'
  <2> SUFFICES ASSUME NEW i \in 1 .. Len(inbox'), NEW j \in 1 .. Len(inbox'),
                      i < j, inbox'[i].kind = inbox'[j].kind
               PROVE  inbox'[i].number < inbox'[j].number
    BY DEF InboxInOrder
  <2>1. /\ i + 1 \in 1 .. Len(inbox) /\ inbox'[i] = inbox[i + 1]
        /\ j + 1 \in 1 .. Len(inbox) /\ inbox'[j] = inbox[j + 1] /\ i + 1 < j + 1
    BY <1>4
  <2> QED
    BY <2>1 DEF Connection, InboxInOrder
<1>9. AnswersDue(ans)'
  <2>1. ASSUME NEW i \in 1 .. Len(inbox'), inbox'[i].kind = "response"
        PROVE  inbox'[i].number \in received' + 1 .. ans
    <3>1. /\ i + 1 \in 1 .. Len(inbox) /\ 1 \in 1 .. Len(inbox) /\ 1 < i + 1
          /\ inbox'[i] = inbox[i + 1]
      BY <1>4
    <3>2. inbox[1].number < inbox[i + 1].number /\ inbox[i + 1].number \in received + 1 .. ans
      BY <1>4, <2>1, <3>1 DEF Connection, InboxInOrder, AnswersDue
    <3> QED
      BY <1>1, <1>2, <1>5, <3>1, <3>2
  <2>2. ASSUME NEW k \in received' + 1 .. ans
        PROVE  \E i \in 1 .. Len(inbox') : inbox'[i] = Response(k)
    <3>1. k \in received + 1 .. ans /\ k # received + 1
      BY <1>1, <1>2
    <3>2. PICK i \in 1 .. Len(inbox) : inbox[i] = Response(k)
      BY <3>1 DEF Connection, AnswersDue
    <3>3. i # 1
      BY <1>5, <3>1, <3>2 DEF Response
    <3> QED
      BY <1>4, <3>2, <3>3
  <2>3. received' <= ans
    BY <1>1, <1>2, <1>5
  <2> QED
    BY <2>1, <2>2, <2>3 DEF AnswersDue
<1>10. StreamsDue(str)'
  BY <1>2, <1>3, <1>4 DEF Connection, StreamsDue
<1>11. \A n, i : i \in 1 .. Len(inbox) /\ inbox[i] = StreamData(n) => i # 1
  BY <1>4 DEF StreamData
<1>12. AllThere(str)'
  <2>1. ASSUME NEW n \in 1 .. str
        PROVE  \/ n \in lost \/ \E i \in DOMAIN FromDevice : FromDevice[i] = n
               \/ \E i \in DOMAIN inbox' : inbox'[i] = StreamData(n)
    BY <1>4, <1>11 DEF Connection, AllThere
  <2> QED
    BY <1>2, <1>3, <2>1 DEF Connection, AllThere
<1>13. AnswersBehind(ans, str)'
  <2>1. ASSUME NEW i \in 1 .. Len(inbox'), NEW j \in 1 .. Len(inbox'),
               inbox'[i].kind = "stream", inbox'[j].kind = "response",
               inbox'[i].number <= before[inbox'[j].number]
        PROVE  i < j
    <3>1. /\ i + 1 \in 1 .. Len(inbox) /\ inbox'[i] = inbox[i + 1]
          /\ j + 1 \in 1 .. Len(inbox) /\ inbox'[j] = inbox[j + 1]
      BY <1>4
    <3>2. \A k, l \in 1 .. Len(inbox) :
            /\ inbox[k].kind = "stream" /\ inbox[l].kind = "response"
            /\ inbox[k].number <= before[inbox[l].number]
            => k < l
      BY DEF Connection, AnswersBehind
    <3>3. i + 1 < j + 1
      BY <2>1, <3>1, <3>2, Zenon
    <3> QED
      BY <1>4, <3>3
  <2>2. ASSUME NEW k \in 1 .. received', NEW n \in 1 .. before[k]
        PROVE  n \in lost \/ \E i \in 1 .. Len(Stored) : Stored[i] = n
    <3>1. CASE k \in 1 .. received
      BY <3>1 DEF Connection, AnswersBehind
    <3>2. CASE k = received + 1
      <4>1. n \in 1 .. str /\ n \in Nat /\ n <= before[received + 1]
        BY <1>1, <1>5, <3>2 DEF Connection, AnswersBehind
      <4>2. \A i \in 1 .. Len(inbox) : inbox[i] # StreamData(n)
        <5> SUFFICES ASSUME NEW i \in 1 .. Len(inbox), inbox[i] = StreamData(n) PROVE FALSE
          OBVIOUS
        <5>1. inbox[i].kind = "stream" /\ inbox[i].number = n /\ 1 \in 1 .. Len(inbox)
          BY <1>4 DEF StreamData
        <5>2. i < 1
          BY <1>4, <1>5, <4>1, <5>1 DEF Connection, AnswersBehind
        <5> QED
          BY <5>2
      <4>3. n \in lost \/ \E i \in DOMAIN Stored : Stored[i] = n
        BY <1>3, <1>4, <4>1, <4>2 DEF Connection, AllThere
      <4> QED
        BY <1>1, <4>3, WhatIsWhere
    <3>3. k \in 1 .. received \/ k = received + 1
      BY <1>1, <1>2
    <3> QED
      BY <3>1, <3>2, <3>3
  <2>3. \A k \in received' + 1 .. ans : before[k] <= str
    <3>1. \A k \in received + 1 .. ans : before[k] <= str
      BY DEF Connection, AnswersBehind
    <3> QED
      BY <1>1, <1>2, <3>1
  <2> QED
    BY <1>2, <1>3, <2>1, <2>2, <2>3 DEF AnswersBehind
<1> QED
  BY <1>2, <1>6, <1>7, <1>8, <1>9, <1>10, <1>12, <1>13 DEF Connection, Arrived

(* The next stream message is younger than all before it; it goes into     *)
(* read_thread's hand or is dropped.                                       *)
TakesStream(h) ==
  /\ inbox # <<>> /\ Head(inbox).kind = "stream" /\ Head(inbox).number = h
  /\ inbox' = Tail(inbox) /\ Stored' = Stored /\ UNCHANGED <<vars, device>>
  /\ \/ FromDevice' = FromDevice /\ lost' = lost \cup {h}
     \/ FromDevice' = Append(FromDevice, h) /\ lost' = lost

LEMMA OneMore ==
  ASSUME NEW S, NEW f \in Seq(S), NEW h \in S, NEW g, g = f \/ g = Append(f, h)
  PROVE  /\ Len(f) \in Nat /\ Len(g) \in Nat /\ DOMAIN f = 1 .. Len(f) /\ DOMAIN g = 1 .. Len(g)
         /\ \A j \in 1 .. Len(f) : j \in 1 .. Len(g) /\ g[j] = f[j]
         /\ \A j \in 1 .. Len(g) : j \in 1 .. Len(f) \/ (j = Len(f) + 1 /\ g[j] = h)
         /\ g = Append(f, h) => Len(f) + 1 \in 1 .. Len(g) /\ g[Len(f) + 1] = h
<1>1. f \in [1 .. Len(f) -> S] /\ Len(f) \in Nat /\ DOMAIN f = 1 .. Len(f)
  BY LenProperties
<1>2. ASSUME g = Append(f, h)
      PROVE  /\ g \in Seq(S) /\ Len(g) = Len(f) + 1 /\ g[Len(f) + 1] = h /\ DOMAIN g = 1 .. Len(g)
             /\ \A j \in 1 .. Len(f) : g[j] = f[j]
  BY <1>2, AppendProperties, LenProperties
<1>3. g = Append(f, h) => Len(f) + 1 \in 1 .. Len(g) /\ g[Len(f) + 1] = h
  BY <1>1, <1>2
<1>4. /\ Len(g) \in Nat /\ DOMAIN g = 1 .. Len(g)
      /\ \A j \in 1 .. Len(f) : j \in 1 .. Len(g) /\ g[j] = f[j]
      /\ \A j \in 1 .. Len(g) : j \in 1 .. Len(f) \/ (j = Len(f) + 1 /\ g[j] = h)
  BY <1>1, <1>2
<1> QED
  BY <1>1, <1>3, <1>4

LEMMA StreamTaken ==
  ASSUME NEW ans, NEW str, TypeOK, Connection(ans, str), ClientTypeOK', OpsOK',
         NEW h, TakesStream(h)
  PROVE  Connection(ans, str)'
<1>1. /\ ClientTypeOK /\ OpsOK /\ received \in Nat /\ ans \in Nat /\ str \in Nat
      /\ UNCHANGED <<answered, streamed, before, received, ret, Stored>> /\ lost \subseteq lost'
  <2>1. ClientTypeOK /\ OpsOK /\ received \in Nat /\ ans \in Nat /\ str \in Nat
    BY Bounds DEF Connection
  <2>2. UNCHANGED <<answered, streamed, before, received, ret, Stored>>
    BY DEF TakesStream, device, vars, reader, caller
  <2>3. lost \subseteq lost'
    BY DEF TakesStream
  <2> QED
    BY <2>1, <2>2, <2>3
<1>2. /\ inbox' \in Seq(Message) /\ Len(inbox) \in Nat /\ Len(inbox) > 0
      /\ Len(inbox') = Len(inbox) - 1 /\ inbox[1].kind = "stream" /\ inbox[1].number = h
      /\ inbox[1] \in Message
      /\ \A i \in 1 .. Len(inbox') :
           inbox'[i] = inbox[i + 1] /\ inbox[i + 1] \in Message /\ i + 1 \in 1 .. Len(inbox)
      /\ \A i \in 1 .. Len(inbox) : i # 1 => i - 1 \in 1 .. Len(inbox') /\ inbox'[i - 1] = inbox[i]
      /\ DOMAIN inbox' = 1 .. Len(inbox') /\ DOMAIN inbox = 1 .. Len(inbox)
  <2>1. /\ inbox # <<>> /\ inbox' = Tail(inbox)
        /\ Head(inbox).kind = "stream" /\ Head(inbox).number = h
    BY DEF TakesStream
  <2> QED
    BY <1>1, <2>1, InboxShrinks
<1>3. /\ FromDevice \in Seq(StreamMsgs) /\ Len(FromDevice) \in Nat
      /\ DOMAIN FromDevice = 1 .. Len(FromDevice)
      /\ \A j \in 1 .. Len(FromDevice) : FromDevice[j] \in Nat
  BY <1>1, WhatIsWhere
<1>4. h \in 1 .. str /\ h \in StreamMsgs /\ \A j \in 1 .. Len(FromDevice) : FromDevice[j] < h
  <2>1. 1 \in 1 .. Len(inbox) /\ str \in 0 .. MaxStream
    BY <1>2, Bounds
  <2>2. h \in 1 .. str /\ \A j \in 1 .. Len(FromDevice) : FromDevice[j] < h
    BY <1>2, <2>1 DEF Connection, StreamsDue
  <2> QED
    BY <2>1, <2>2, ClientAssumption DEF StreamMsgs
<1>5. /\ Len(FromDevice') \in Nat /\ DOMAIN FromDevice' = 1 .. Len(FromDevice')
      /\ \A j \in 1 .. Len(FromDevice) : j \in 1 .. Len(FromDevice') /\ FromDevice'[j] = FromDevice[j]
      /\ \A j \in 1 .. Len(FromDevice') :
           j \in 1 .. Len(FromDevice) \/ (j = Len(FromDevice) + 1 /\ FromDevice'[j] = h)
  <2>1. FromDevice' = FromDevice \/ FromDevice' = Append(FromDevice, h)
    BY DEF TakesStream
  <2> QED
    BY <1>3, <1>4, <2>1, OneMore
<1>6. h \in lost' \/ \E j \in 1 .. Len(FromDevice') : FromDevice'[j] = h
  <2>1. h \in lost' \/ FromDevice' = Append(FromDevice, h)
    BY DEF TakesStream
  <2> QED
    BY <1>3, <1>4, <2>1, OneMore
<1>7. InboxInOrder'
  BY <1>2 DEF Connection, InboxInOrder
<1>8. AnswersDue(ans)'
  <2>1. ASSUME NEW k \in received + 1 .. ans
        PROVE  \E i \in 1 .. Len(inbox') : inbox'[i] = Response(k)
    <3>1. PICK i \in 1 .. Len(inbox) : inbox[i] = Response(k)
      BY DEF Connection, AnswersDue
    <3>2. i # 1
      BY <1>2, <3>1 DEF Response
    <3> QED
      BY <1>2, <3>1, <3>2
  <2> QED
    BY <1>1, <1>2, <2>1 DEF Connection, AnswersDue
<1>9. StreamsDue(str)'
  <2>1. ASSUME NEW i \in 1 .. Len(inbox'), inbox'[i].kind = "stream"
        PROVE  /\ inbox'[i].number \in 1 .. str
               /\ \A j \in 1 .. Len(FromDevice') : FromDevice'[j] < inbox'[i].number
    <3>1. i + 1 \in 1 .. Len(inbox) /\ 1 \in 1 .. Len(inbox) /\ 1 < i + 1 /\ inbox'[i] = inbox[i + 1]
      BY <1>2
    <3>2. h < inbox[i + 1].number
      BY <1>2, <2>1, <3>1 DEF Connection, InboxInOrder
    <3>3. inbox[i + 1].number \in 1 .. str
      BY <2>1, <3>1 DEF Connection, StreamsDue
    <3>4. \A j \in 1 .. Len(FromDevice) : FromDevice[j] < inbox[i + 1].number
      BY <2>1, <3>1 DEF Connection, StreamsDue
    <3> QED
      BY <1>5, <3>1, <3>2, <3>3, <3>4
  <2>2. \A j \in 1 .. Len(FromDevice') : FromDevice'[j] <= str
    BY <1>1, <1>4, <1>5 DEF Connection, StreamsDue
  <2> QED
    BY <1>1, <2>1, <2>2 DEF StreamsDue
<1>10. AllThere(str)'
  <2>1. ASSUME NEW i \in DOMAIN FromDevice', NEW j \in DOMAIN FromDevice', i < j
        PROVE  FromDevice'[i] < FromDevice'[j]
    BY <1>3, <1>4, <1>5, <2>1 DEF Connection, AllThere
  <2>2. ASSUME NEW n \in 1 .. str
        PROVE  \/ n \in lost' \/ \E i \in DOMAIN FromDevice' : FromDevice'[i] = n
               \/ \E i \in DOMAIN inbox' : inbox'[i] = StreamData(n)
    <3>1. CASE n = h
      BY <1>5, <1>6, <3>1
    <3>2. CASE n # h
      <4>1. CASE n \in lost
        BY <1>1, <4>1
      <4>2. CASE \E i \in DOMAIN FromDevice : FromDevice[i] = n
        BY <1>3, <1>5, <4>2
      <4>3. ASSUME NEW i \in DOMAIN inbox, inbox[i] = StreamData(n)
            PROVE  \E k \in DOMAIN inbox' : inbox'[k] = StreamData(n)
        <5>1. i # 1
          BY <1>2, <3>2, <4>3 DEF StreamData
        <5> QED
          BY <1>2, <4>3, <5>1
      <4> QED
        BY <4>1, <4>2, <4>3 DEF Connection, AllThere
    <3> QED
      BY <3>1, <3>2
  <2> QED
    BY <1>1, <2>1, <2>2 DEF AllThere
<1>11. AnswersBehind(ans, str)'
  <2>1. ASSUME NEW i \in 1 .. Len(inbox'), NEW j \in 1 .. Len(inbox'),
               inbox'[i].kind = "stream", inbox'[j].kind = "response",
               inbox'[i].number <= before[inbox'[j].number]
        PROVE  i < j
    <3>1. i + 1 < j + 1
      BY <1>2, <2>1 DEF Connection, AnswersBehind
    <3> QED
      BY <1>2, <3>1
  <2>2. \A k \in 1 .. received : \A n \in 1 .. before[k] :
          n \in lost' \/ \E i \in 1 .. Len(Stored) : Stored[i] = n
    BY <1>1 DEF Connection, AnswersBehind
  <2> QED
    BY <1>1, <2>1, <2>2 DEF Connection, AnswersBehind
<1>12. Answered'
  BY <1>1 DEF Connection, Answered
<1> QED
  BY <1>1, <1>7, <1>8, <1>9, <1>10, <1>11, <1>12 DEF Connection, Arrived

LEMMA StreamClient ==
  ASSUME NEW ans, NEW str, TypeOK, Connection(ans, str), ReceiveStream \/ DropStream
  PROVE  Connection(ans, str)'
<1> DEFINE h == Head(inbox).number
<1>1. /\ ClientTypeOK /\ OpsOK /\ inbox # <<>> /\ Head(inbox).kind = "stream" /\ inbox' = Tail(inbox)
      /\ UNCHANGED <<vars, device, queue, popped>> /\ op[Reader] = "idle"
  BY DEF Connection, ReceiveStream, DropStream, Reading, Q!CallPush, Q!Move, fifo
<1>2. h \in StreamMsgs
  <2>1. Len(inbox) > 0 /\ Len(inbox) \in Nat /\ Head(inbox) = inbox[1]
    BY <1>1, InboxShrinks
  <2>2. inbox[1].number \in 1 .. str /\ str \in 0 .. MaxStream
    BY <1>1, <2>1, Bounds DEF Connection, StreamsDue
  <2> QED
    BY <2>1, <2>2, ClientAssumption DEF StreamMsgs
<1>3. inbox' \in Seq(Message)
  BY <1>1, InboxShrinks
<1>4. Stored' = Stored /\ FromDevice = Stored /\ Stored \in Seq(StreamMsgs)
  BY <1>1, WhatIsWhere DEF Stored
<1>5. CASE DropStream
  <2>1. lost' = lost \cup {h} /\ op' = op /\ val' = val
    BY <1>5 DEF DropStream, fifo
  <2>2. FromDevice' = FromDevice
    BY <1>4, <2>1 DEF FromDevice, InHand
  <2>3. ClientTypeOK' /\ OpsOK'
    BY <1>1, <1>2, <1>3, <2>1 DEF ClientTypeOK, OpsOK, Message, vars, wire, device
  <2>4. TakesStream(h)
    BY <1>1, <1>4, <2>1, <2>2 DEF TakesStream
  <2> QED
    BY <2>3, <2>4, StreamTaken
<1>6. CASE ReceiveStream
  <2>1. /\ lost' = lost /\ op' = [op EXCEPT ![Reader] = "push"]
        /\ \E m \in StreamMsgs : val' = [val EXCEPT ![Reader] = m]
        /\ val'[Reader] = h
    BY <1>6 DEF ReceiveStream, Q!CallPush, Q!Move
  <2>2. OpsOK' /\ op'[Reader] = "push"
    BY <1>1, <1>2, <2>1 DEF OpsOK
  <2>3. ClientTypeOK'
    BY <1>1, <1>3, <2>1 DEF ClientTypeOK, Message, vars, wire, device
  <2>4. FromDevice' = Append(FromDevice, h)
    <3>1. FromDevice' = Stored \o <<h>>
      BY <1>4, <2>1, <2>2 DEF FromDevice, InHand
    <3>2. Append(Stored, h) = Stored \o <<h>>
      BY <1>2, <1>4, AppendIsConcat
    <3> QED
      BY <1>4, <3>1, <3>2
  <2>5. TakesStream(h)
    BY <1>1, <1>4, <2>1, <2>4 DEF TakesStream
  <2> QED
    BY <2>2, <2>3, <2>5, StreamTaken
<1> QED
  BY <1>5, <1>6

(* The message in read_thread's hand, the last that came, is dropped.      *)
LEMMA InterruptedClient ==
  ASSUME NEW ans, NEW str, Connection(ans, str), PushInterrupted
  PROVE  Connection(ans, str)'
<1> DEFINE m == val[Reader]
<1>1. /\ ClientTypeOK /\ OpsOK /\ UNCHANGED <<vars, inbox, device, queue, popped>>
      /\ lost' = lost \cup {m} /\ op[Reader] = "push"
      /\ op' = [op EXCEPT ![Reader] = "idle"] /\ val' = [val EXCEPT ![Reader] = NULL]
  BY DEF Connection, PushInterrupted, Q!PushGivesUp, Q!Finish, Q!Move
<1>2. UNCHANGED <<received, ret, sent, answered, streamed, before>>
  BY <1>1 DEF vars, reader, caller, wire, device
<1>3. m \in StreamMsgs /\ OpsOK' /\ op'[Reader] = "idle"
  BY <1>1 DEF OpsOK
<1>4. ClientTypeOK'
  BY <1>1, <1>2, <1>3 DEF ClientTypeOK, vars, wire, device
<1>5. Stored \in Seq(StreamMsgs) /\ FromDevice = Append(Stored, m)
  BY <1>1, WhatIsWhere
<1>6. Stored' = Stored /\ FromDevice' = Stored
  BY <1>1, <1>3, <1>5, ConcatEmptySeq DEF Stored, FromDevice, InHand
<1> HIDE DEF m
<1>7. /\ DOMAIN Stored = 1 .. Len(Stored) /\ DOMAIN FromDevice = 1 .. Len(FromDevice)
      /\ \A j \in 1 .. Len(Stored) : j \in 1 .. Len(FromDevice) /\ FromDevice[j] = Stored[j]
      /\ \A j \in 1 .. Len(FromDevice) :
           j \in 1 .. Len(Stored) \/ (j = Len(Stored) + 1 /\ FromDevice[j] = m)
  BY <1>3, <1>5, OneMore
<1>8. m \in lost' /\ lost \subseteq lost'
  BY <1>1
<1>9. InboxInOrder' /\ AnswersDue(ans)' /\ Answered'
  BY <1>1, <1>2 DEF Connection, InboxInOrder, AnswersDue, Answered
<1>10. StreamsDue(str)'
  BY <1>1, <1>2, <1>6, <1>7 DEF Connection, StreamsDue
<1>11. AllThere(str)'
  <2>1. \A i, j \in DOMAIN Stored : i < j => Stored[i] < Stored[j]
    BY <1>7 DEF Connection, AllThere
  <2>2. ASSUME NEW n \in 1 .. str
        PROVE  \/ n \in lost' \/ \E i \in DOMAIN Stored : Stored[i] = n
               \/ \E i \in DOMAIN inbox : inbox[i] = StreamData(n)
    BY <1>7, <1>8 DEF Connection, AllThere
  <2> QED
    BY <1>1, <1>2, <1>6, <2>1, <2>2 DEF AllThere
<1>12. AnswersBehind(ans, str)'
  BY <1>1, <1>2, <1>6, <1>8 DEF Connection, AnswersBehind
<1> QED
  BY <1>2, <1>3, <1>4, <1>9, <1>10, <1>11, <1>12 DEF Connection, Arrived

(* What the client does without the device is the same for every ans and   *)
(* str.                                                                    *)
ClientQuiet ==
  \/ ReceiveResponse \/ DropResponse \/ ReceiveStream \/ DropStream
  \/ PushStream \/ PushInterrupted \/ PushReturns \/ HandleResponse
  \/ \E a \in Apps : ReadStream(a) \/ PopStream(a) \/ ReadReturns(a)
  \/ UNCHANGED ClientVars
ClientWork == ClientQuiet \/ \E c \in Callers : Issue(c)

LEMMA QuietClient ==
  ASSUME NEW ans, NEW str, TypeOK, Connection(ans, str), ClientQuiet
  PROVE  Connection(ans, str)'
BY HandleClient, ReceivedStays, ReadClient, PushClient, ResponseClient, StreamClient, InterruptedClient
   DEF ClientQuiet

LEMMA WorkClient ==
  ASSUME NEW ans, NEW str, IInv, Connection(ans, str), ClientWork
  PROVE  Connection(ans, str)'
BY IssueClient, QuietClient DEF ClientWork, IInv

LEMMA WorkSendsNothing == ClientWork => UNCHANGED <<answered, streamed>>
BY DEF ClientWork, ClientQuiet, ClientVars, stream, device, ReceiveResponse, DropResponse, ReceiveStream,
       DropStream, PushStream, PushInterrupted, PushReturns, HandleResponse, ReadStream, PopStream,
       ReadReturns, Issue

(* The device sends one message more. *)
LEMMA DeviceClient ==
  ASSUME TypeOK, ClientInv, DeviceAnswers \/ DeviceStreams
  PROVE  ClientInv'
<1>1. PICK ans, str : ans = answered /\ str = streamed /\ Connection(ans, str)
  BY DEF ClientInv
<1>2. CASE DeviceAnswers
  <2>1. answered' = ans + 1 /\ streamed' = str /\ Connection(ans + 1, str)'
    BY <1>1, <1>2, AnswersClient DEF DeviceAnswers
  <2> QED
    BY <2>1 DEF ClientInv
<1>3. CASE DeviceStreams
  <2>1. answered' = ans /\ streamed' = str + 1 /\ Connection(ans, str + 1)'
    BY <1>1, <1>3, StreamsClient DEF DeviceStreams
  <2> QED
    BY <2>1 DEF ClientInv
<1> QED
  BY <1>2, <1>3

LEMMA NextClient == IInv /\ ClientInv /\ [ClientNext]_ClientVars => ClientInv'
<1> SUFFICES ASSUME IInv, ClientInv, [ClientNext]_ClientVars PROVE ClientInv'
  OBVIOUS
<1>1. CASE DeviceAnswers \/ DeviceStreams
  BY <1>1, DeviceClient DEF IInv
<1>2. CASE ClientWork
  <2>1. PICK ans, str : ans = answered /\ str = streamed /\ Connection(ans, str)
    BY DEF ClientInv
  <2>2. answered' = ans /\ streamed' = str /\ Connection(ans, str)'
    BY <1>2, <2>1, WorkClient, WorkSendsNothing
  <2> QED
    BY <2>2 DEF ClientInv
<1> QED
  BY <1>1, <1>2 DEF ClientNext, ClientWork, ClientQuiet

LEMMA ClientInvariance == ClientSpec => []ClientInv
<1>1. ClientInit => ClientInv
  BY InitClient DEF ClientInv, ClientInit
<1> QED
  BY <1>1, NextClient, CommandInvariance, PTL DEF ClientSpec

-----------------------------------------------------------------------------
(* The types of the client's own state; the queue is never overfilled.     *)
THEOREM ClientTypesCorrect == ClientSpec => []ClientTypeOK
<1>1. ClientInv => ClientTypeOK
  BY DEF ClientInv, Connection
<1> QED
  BY <1>1, ClientInvariance, PTL

(* The stream reaches the application in the order in which the device     *)
(* sent it and without duplicates, and none of it is lost but for what     *)
(* cannot be unpacked and what a signal makes read_thread drop.            *)
THEOREM StreamReachesApplication == ClientSpec => []StreamInOrder
<1>1. ClientInv => StreamInOrder
  BY DEF ClientInv, Connection, AllThere, StreamInOrder
<1> QED
  BY <1>1, ClientInvariance, PTL

(* When a command returns what the device answered, the stream data that   *)
(* the device sent before the answer can be read.                          *)
THEOREM AnswersOvertakeNothing == ClientSpec => []AnswerIsLast
<1>1. ClientInv => AnswerIsLast
  <2> SUFFICES ASSUME ClientInv, NEW c \in Callers, ret[c].code \in {"OK", "FB_ERROR"},
                      NEW n \in 1 .. before[ret[c].cmd]
               PROVE  n \in lost \/ \E i \in DOMAIN Stored : Stored[i] = n
    BY DEF AnswerIsLast
  <2>1. n \in lost \/ \E i \in 1 .. Len(Stored) : Stored[i] = n
    BY DEF ClientInv, Connection, Answered, AnswersBehind
  <2>2. DOMAIN Stored = 1 .. Len(Stored)
    BY WhatIsWhere DEF ClientInv, Connection
  <2> QED
    BY <2>1, <2>2
<1> QED
  BY <1>1, ClientInvariance, PTL

-----------------------------------------------------------------------------
(* From new to delete.  The inductive invariant says which parts exist and *)
(* which members are set at every statement of the two, that read_thread   *)
(* is joined before the first part goes, and that it starts no call of the *)
(* application's.                                                          *)
Transport == {"client"} \cup TransportParts

(* The parts and the members at a statement of new or delete.  ERREXIT,    *)
(* reached from five places, finds what the members refer to and no more.  *)
PartsOK ==
  /\ parts \subseteq AllParts /\ destroy \cup io4e_streamq_delete \subseteq parts
  /\ phase \in {"none", "deleted"} => parts = {}
  /\ phase \in {"none", "deleted", "transport", "socket", "connect", "free_transport", "free"}
       => members = {}
  /\ phase \in {"transport", "free"} => parts = {"client"}
  /\ phase \in {"socket", "free_transport"} => parts = {"client", "transport"}
  /\ phase = "connect" => parts = Transport
  /\ phase \in {"streamq", "msg", "destroy"} => members = {"transport"}
  /\ phase \in {"streamq", "destroy"} => parts = Transport
  /\ phase = "msg" => parts = Transport \cup {"streamq"}
  /\ phase = "errexit" => parts = {"client"} \cup destroy \cup io4e_streamq_delete
  /\ phase \in {"thread", "ready", "join", "streamq_delete"}
       => parts = AllParts /\ members = {"transport", "streamq"}

ThreadOK == thread # "none" => phase \in {"ready", "join"}

CallsOK == /\ DOMAIN op = Apps \cup {Reader} /\ op = [t \in Apps \cup {Reader} |-> op[t]]
           /\ Calling => phase = "ready"

LifeInv == PartsOK /\ ThreadOK /\ CallsOK

LEMMA InitOK == LifeInit => LifeInv
<1> SUFFICES ASSUME LifeInit PROVE LifeInv
  OBVIOUS
<1>1. op = [t \in Apps \cup {Reader} |-> "idle"] /\ pc = [c \in Callers |-> "idle"]
  BY DEF LifeInit, ClientInit, Init, Q!Init, Q!Threads
<1>2. ~Calling
  BY <1>1 DEF Calling
<1> QED
  BY <1>1, <1>2 DEF LifeInit, LifeInv, PartsOK, ThreadOK, CallsOK, destroy, io4e_streamq_delete

(* A step that leaves the client's own state alone starts no call. *)
LEMMA NoCall == ASSUME CallsOK, UNCHANGED ClientVars, Calling => phase' = "ready"
                PROVE  CallsOK'
BY DEF CallsOK, Calling, ClientVars, vars, caller, stream, fifo

LEMMA NewOK == LifeInv /\ New => LifeInv'
<1> SUFFICES ASSUME LifeInv, New PROVE LifeInv'
  OBVIOUS
<1>1. phase # "ready"
  BY DEF New, CallocClient, TransportNew, TransportSocket, TransportConnect, TransportFree,
         StreamqNew, StreamqMsg, Acquire, CreateThread, ErrExit
<1>2. CallsOK'
  <2>1. CASE CallocClient
    <3>1. op' = [t \in Apps \cup {Reader} |-> "idle"] /\ pc' = [c \in Callers |-> "idle"]
      BY <2>1 DEF CallocClient, Fresh
    <3> QED
      BY <3>1 DEF CallsOK, Calling
  <2>2. CASE ~CallocClient
    <3>1. UNCHANGED ClientVars
      BY <2>2 DEF New, TransportNew, TransportSocket, TransportConnect, TransportFree, StreamqNew,
                  StreamqMsg, Acquire, CreateThread, ErrExit
    <3> QED
      BY <1>1, <3>1, NoCall DEF LifeInv, CallsOK
  <2> QED
    BY <2>1, <2>2
<1>3. PartsOK' /\ ThreadOK'
  <2> USE DEF LifeInv, PartsOK, ThreadOK, AllParts, Transport, TransportParts, QueueParts, destroy,
             io4e_streamq_delete
  <2>1. CASE CallocClient
    BY <2>1 DEF CallocClient
  <2>2. CASE TransportNew
    BY <2>2 DEF TransportNew, Acquire
  <2>3. CASE TransportSocket
    BY <2>3 DEF TransportSocket, Acquire
  <2>4. CASE TransportConnect
    BY <2>4 DEF TransportConnect
  <2>5. CASE TransportFree
    BY <2>5 DEF TransportFree
  <2>6. CASE StreamqNew
    BY <2>6 DEF StreamqNew, Acquire
  <2>7. CASE StreamqMsg
    BY <2>7 DEF StreamqMsg
  <2>8. CASE CreateThread
    BY <2>8 DEF CreateThread
  <2>9. CASE ErrExit
    BY <2>9 DEF ErrExit
  <2> QED
    BY <2>1, <2>2, <2>3, <2>4, <2>5, <2>6, <2>7, <2>8, <2>9 DEF New
<1> QED
  BY <1>2, <1>3 DEF LifeInv

(* read_thread works with what it shares with the callers and with its own *)
(* calls on the queue, and does nothing in their place, interrupted or not.*)
LEMMA ReaderAlone ==
  ASSUME ReadThread \/ Interrupted
  PROVE  /\ UNCHANGED <<cmd_mutex, caller, lifecycle>>
         /\ op' = op \/ \E o : op' = [op EXCEPT ![Reader] = o]
<1>1. UNCHANGED <<cmd_mutex, caller>>
  <2> USE DEF shared, vars
  <2>1. CASE ReceiveResponse \/ DropResponse
    BY <2>1 DEF ReceiveResponse, DropResponse, Receive, Drop
  <2>2. CASE ReceiveStream \/ DropStream
    BY <2>2 DEF ReceiveStream, DropStream
  <2>3. CASE PushStream \/ PushInterrupted \/ PushReturns
    BY <2>3 DEF PushStream, PushInterrupted, PushReturns
  <2>4. CASE HandleResponse
    BY <2>4 DEF HandleResponse, Test, Free, Store, Post, PostFails
  <2> QED
    BY <2>1, <2>2, <2>3, <2>4 DEF ReadThread, Interrupted
<1>2. op' = op \/ \E o : op' = [op EXCEPT ![Reader] = o]
  <2> USE DEF fifo, stream
  <2>1. CASE ReceiveResponse \/ DropResponse
    BY <2>1 DEF ReceiveResponse, DropResponse
  <2>2. CASE ReceiveStream
    BY <2>2 DEF ReceiveStream, Q!CallPush, Q!Move
  <2>3. CASE DropStream
    BY <2>3 DEF DropStream
  <2>4. CASE PushStream
    BY <2>4 DEF PushStream, Q!Push, Q!Move
  <2>5. CASE PushReturns
    BY <2>5 DEF PushReturns, Q!Finish, Q!Move
  <2>6. CASE HandleResponse
    BY <2>6 DEF HandleResponse
  <2>7. CASE PushInterrupted
    BY <2>7 DEF PushInterrupted, Q!PushGivesUp, Q!Finish, Q!Move
  <2> QED
    BY <2>1, <2>2, <2>3, <2>4, <2>5, <2>6, <2>7 DEF ReadThread, Interrupted
<1> QED
  BY <1>1, <1>2 DEF ReadThread, Interrupted

LEMMA ReadThreadOK == LifeInv /\ (ReadThread \/ Interrupted) => LifeInv'
<1> SUFFICES ASSUME LifeInv, ReadThread \/ Interrupted PROVE LifeInv'
  OBVIOUS
<1>1. pc' = pc /\ UNCHANGED lifecycle
  BY ReaderAlone DEF caller
<1>2. op' = op \/ \E o : op' = [op EXCEPT ![Reader] = o]
  BY ReaderAlone
<1>3. CallsOK'
  <2>1. \A a \in Apps : op'[a] = op[a]
    BY <1>2, ClientAssumption DEF LifeInv, CallsOK
  <2>2. Calling' <=> Calling
    BY <1>1, <2>1 DEF Calling
  <2> QED
    BY <1>1, <1>2, <2>2 DEF LifeInv, CallsOK, lifecycle
<1> QED
  BY <1>1, <1>3 DEF LifeInv, PartsOK, ThreadOK, lifecycle, destroy, io4e_streamq_delete

LEMMA ApplicationOK == LifeInv /\ Application => LifeInv'
<1> SUFFICES ASSUME LifeInv, Application PROVE LifeInv'
  OBVIOUS
<1>1. phase = "ready" /\ UNCHANGED lifecycle
  BY DEF Application
<1>2. op' = op \/ \E a \in Apps : \E s : op' = [op EXCEPT ![a] = s]
  <2>1. ASSUME NEW a \in Apps, ReadStream(a) PROVE <1>2!2
    BY <2>1 DEF ReadStream, Q!Call, Q!Move
  <2>2. ASSUME NEW a \in Apps, PopStream(a) PROVE <1>2!2
    BY <2>2 DEF PopStream, Q!Pop, Q!Move
  <2>3. ASSUME NEW a \in Apps, ReadReturns(a) PROVE <1>2!2
    BY <2>3 DEF ReadReturns, Q!PopGivesUp, Q!Finish, Q!Move
  <2>4. ASSUME NEW c \in Callers, Issue(c) PROVE op' = op
    BY <2>4 DEF Issue, stream, fifo
  <2> QED
    BY <2>1, <2>2, <2>3, <2>4 DEF Application
<1>3. CallsOK'
  BY <1>1, <1>2 DEF LifeInv, CallsOK, lifecycle
<1> QED
  BY <1>1, <1>3 DEF LifeInv, PartsOK, ThreadOK, lifecycle, destroy, io4e_streamq_delete

LEMMA DeviceOK == LifeInv /\ (Device \/ DeviceEnds) => LifeInv'
<1> SUFFICES ASSUME LifeInv, Device \/ DeviceEnds PROVE LifeInv'
  OBVIOUS
<1>1. UNCHANGED <<phase, parts, members, thread, pc, op>>
  BY DEF Device, DeviceEnds, DeviceAnswers, DeviceStreams, vars, caller, fifo, lifecycle
<1> QED
  BY <1>1 DEF LifeInv, PartsOK, ThreadOK, CallsOK, Calling, destroy, io4e_streamq_delete

LEMMA DeleteOK == LifeInv /\ ((~Calling /\ Delete) \/ Cancelled \/ DeleteSteps) => LifeInv'
<1> SUFFICES ASSUME LifeInv, (~Calling /\ Delete) \/ Cancelled \/ DeleteSteps PROVE LifeInv'
  OBVIOUS
<1>1. UNCHANGED ClientVars
  BY DEF Delete, Cancelled, DeleteSteps, Join, StreamqDelete, Destroy, FreeClient
<1>2. Calling => phase' = "ready"
  BY DEF Delete, Cancelled, DeleteSteps, Join, StreamqDelete, Destroy, FreeClient, LifeInv, CallsOK
<1>3. CallsOK'
  BY <1>1, <1>2, NoCall DEF LifeInv
<1>4. PartsOK' /\ ThreadOK'
  <2> USE DEF LifeInv, PartsOK, ThreadOK, AllParts, Transport, TransportParts, QueueParts, destroy,
             io4e_streamq_delete
  <2>1. CASE Delete
    BY <2>1 DEF Delete
  <2>2. CASE Cancelled
    BY <2>2 DEF Cancelled
  <2>3. CASE Join
    BY <2>3 DEF Join
  <2>4. CASE StreamqDelete
    BY <2>4 DEF StreamqDelete
  <2>5. CASE Destroy
    BY <2>5 DEF Destroy
  <2>6. CASE FreeClient
    BY <2>6 DEF FreeClient
  <2> QED
    BY <2>1, <2>2, <2>3, <2>4, <2>5, <2>6 DEF DeleteSteps
<1> QED
  BY <1>3, <1>4 DEF LifeInv

LEMMA NextOK == LifeInv /\ [LifeNext]_LifeVars => LifeInv'
<1>1. LifeInv /\ UNCHANGED LifeVars => LifeInv'
  BY DEF LifeVars, lifecycle, ClientVars, vars, caller, stream, fifo, LifeInv, PartsOK, ThreadOK,
         CallsOK, Calling, destroy, io4e_streamq_delete
<1> QED
  BY <1>1, NewOK, DeviceOK, ReadThreadOK, ApplicationOK, DeleteOK DEF LifeNext

LEMMA LifeInvariance == LifeSpec => []LifeInv
BY InitOK, NextOK, PTL DEF LifeSpec

LEMMA LifeUsesNothingFreed == LifeInv => NoUseAfterFree
BY DEF LifeInv, PartsOK, ThreadOK, CallsOK, NoUseAfterFree

(* For every number of threads and every bound: as long as read_thread has *)
(* not been joined, or a call is under way, every part of the client       *)
(* exists.                                                                 *)
THEOREM NothingFreedInUse == LifeSpec => []NoUseAfterFree
BY LifeUsesNothingFreed, LifeInvariance, PTL

LEMMA LifeLeavesNothing == LifeInv => AllOrNothing
BY DEF LifeInv, PartsOK, AllOrNothing

(* io4edge_functionblock_client_new_from_host_port leaves nothing behind   *)
(* when it fails, at whichever step, and _client_delete neither.           *)
THEOREM NothingLeftBehind == LifeSpec => []AllOrNothing
BY LifeLeavesNothing, LifeInvariance, PTL

-----------------------------------------------------------------------------
(* Between a new client and the next, commands and responses follow the    *)
(* command protocol.                                                       *)
LEMMA LifeSteps == [LifeNext]_LifeVars => [Next]_vars \/ Init'
<1>1. CASE New
  <2>1. CASE CallocClient
    <3>1. Fresh
      BY <2>1 DEF CallocClient
    <3> QED
      BY <3>1 DEF Fresh, Init
  <2>2. CASE ~CallocClient
    BY <1>1, <2>2 DEF New, TransportNew, TransportSocket, TransportConnect, TransportFree, StreamqNew,
                      StreamqMsg, Acquire, CreateThread, ErrExit, ClientVars
  <2> QED
    BY <2>1, <2>2
<1>2. CASE Device \/ ReadThread \/ Interrupted \/ Application
  <2>1. ClientNext
    BY <1>2 DEF Device, ReadThread, Interrupted, Application, ClientNext
  <2> QED
    BY <2>1, ClientSteps
<1>3. CASE DeviceEnds \/ (~Calling /\ Delete) \/ Cancelled \/ DeleteSteps
  BY <1>3 DEF DeviceEnds, Delete, Cancelled, DeleteSteps, Join, StreamqDelete, Destroy, FreeClient,
              ClientVars
<1>4. CASE UNCHANGED LifeVars
  BY <1>4 DEF LifeVars, ClientVars
<1> QED
  BY <1>1, <1>2, <1>3, <1>4 DEF LifeNext

LEMMA LifeCommandInvariance == LifeSpec => [](IInv /\ OwnInv)
<1>1. LifeInit => Init
  BY DEF LifeInit, ClientInit
<1>2. Init => IInv /\ OwnInv
  BY InitInv, InitOwn
<1>3. IInv /\ OwnInv /\ [Next]_vars => (IInv /\ OwnInv)'
  BY NextInv, NextOwn
<1>4. Init' => (IInv /\ OwnInv)'
  BY <1>2, PTL
<1>5. IInv /\ OwnInv /\ [LifeNext]_LifeVars => (IInv /\ OwnInv)'
  BY <1>3, <1>4, LifeSteps
<1> QED
  BY <1>1, <1>2, <1>5, PTL DEF LifeSpec

(* A client that no command timed out on is deleted without leaving a      *)
(* response behind: no call is under way, so nobody holds one, and the     *)
(* client is in step with the device, so that read_thread holds none and   *)
(* none is stored, wherever it was cancelled.                              *)
THEOREM NothingForgotten == LifeSpec => []DeletedInStep
<1>1. LifeInv /\ IInv /\ OwnInv => DeletedInStep
  <2> SUFFICES ASSUME LifeInv, IInv, OwnInv, phase = "deleted", timeouts = 0,
                      NEW i \in 1 .. received
               PROVE  i \in freed
    BY DEF DeletedInStep
  <2>1. \A c \in Callers : pc[c] = "idle"
    BY DEF LifeInv, CallsOK, Calling
  <2>2. TypeOK /\ Running /\ Owned
    BY DEF IInv, OwnInv, Owned
  <2>3. cmd_mutex = NULL
    BY <2>1, <2>2 DEF TypeOK, Running, LockInv, Inside
  <2>4. cmd_response = NULL /\ rpc = "read"
    BY <2>3, NothingLeftOver DEF InStep
  <2>5. rres = NULL /\ \A c \in Callers : res[c] = NULL
    BY <2>1, <2>2, <2>4 DEF Owned, ReaderOwns, CallersOwn, Taken, Pending
  <2>6. i \in Nat /\ NULL \notin Nat
    BY <2>2, Numbers
  <2> QED
    BY <2>2, <2>4, <2>5, <2>6 DEF Owned, NoLeak
<1> QED
  BY <1>1, LifeInvariance, LifeCommandInvariance, PTL

-----------------------------------------------------------------------------
(* What is in order between the device and the application stays so when   *)
(* the connection ends: a connection that has ended is one on which the    *)
(* device sent what arrived, and no more.                                  *)
LEMMA LeastNumber ==
  ASSUME NEW T, T \subseteq Nat, T # {}
  PROVE  \E x \in T : \A y \in T : x <= y
<1>1. IsWellFoundedOn(OpToRel(<, Nat), Nat)
  BY NatLessThanWellFounded
<1>2. PICK x \in T : \A y \in T : ~ (<<y, x>> \in OpToRel(<, Nat))
  BY <1>1, WFMin
<1>3. \A y \in T : y < x => <<y, x>> \in OpToRel(<, Nat)
  BY DEF OpToRel
<1>4. \A y \in T : ~ (y < x)
  BY <1>2, <1>3
<1> QED
  BY <1>4

(* When the inbox is cut after n messages, those of a kind that remain are *)
(* the ones up to number t; all of them, which go up to top, or those      *)
(* before one that was cut off.                                            *)
CutAt(kind, n, t, top) ==
  /\ \A i \in 1 .. n : inbox[i].kind = kind => inbox[i].number <= t
  /\ \A i \in n + 1 .. Len(inbox) : inbox[i].kind = kind => inbox[i].number > t
  /\ t = top \/ \E i \in n + 1 .. Len(inbox) : inbox[i].kind = kind /\ inbox[i].number = t + 1

LEMMA Remaining ==
  ASSUME NEW kind, NEW low \in Nat, NEW top \in Nat, low <= top, NEW n \in 0 .. Len(inbox),
         Len(inbox) \in Nat, \A i \in 1 .. Len(inbox) : inbox[i] \in Message, InboxInOrder,
         \A i \in 1 .. Len(inbox) :
           inbox[i].kind = kind => inbox[i].number > low /\ inbox[i].number <= top
  PROVE  \E t \in low .. top : CutAt(kind, n, t, top)
<1> DEFINE Cut == {i \in n + 1 .. Len(inbox) : inbox[i].kind = kind}
           T == {inbox[i].number : i \in Cut}
<1>1. \A i \in Cut : i \in 1 .. Len(inbox) /\ inbox[i].kind = kind /\ i > n
  OBVIOUS
<1>2. \A i \in 1 .. Len(inbox) : i > n /\ inbox[i].kind = kind => i \in Cut
  OBVIOUS
<1>3. \A i \in 1 .. n : i \in 1 .. Len(inbox)
  OBVIOUS
<1>4. CASE Cut = {}
  <2>1. \A i \in n + 1 .. Len(inbox) : inbox[i].kind # kind
    BY <1>4
  <2> QED
    BY <1>3, <2>1 DEF CutAt
<1>5. CASE Cut # {}
  <2>1. T # {} /\ T \subseteq Nat
    <3>1. PICK i \in Cut : TRUE
      BY <1>5
    <3>2. inbox[i].number \in T
      BY <3>1
    <3>3. \A j \in Cut : inbox[j].number \in Nat
      BY <1>1 DEF Message
    <3> QED
      BY <3>2, <3>3
  <2>2. PICK m \in T : \A y \in T : m <= y
    BY <2>1, LeastNumber
  <2>3. PICK p \in Cut : inbox[p].number = m
    BY <2>2
  <2>4. m \in low + 1 .. top
    BY <1>1, <2>1, <2>3
  <2>5. ASSUME NEW i \in 1 .. n, inbox[i].kind = kind
        PROVE  inbox[i].number < m
    BY <1>1, <1>3, <2>3, <2>5 DEF InboxInOrder
  <2>6. ASSUME NEW i \in n + 1 .. Len(inbox), inbox[i].kind = kind
        PROVE  m <= inbox[i].number
    BY <2>2, <2>6
  <2>7. \A i \in 1 .. Len(inbox) : inbox[i].number \in Nat
    BY DEF Message
  <2> DEFINE t == m - 1
  <2>8. t \in low .. top /\ t + 1 = m
    BY <2>4
  <2>9. \A i \in 1 .. n : inbox[i].kind = kind => inbox[i].number <= t
    BY <1>3, <2>4, <2>5, <2>7
  <2>10. \A i \in n + 1 .. Len(inbox) : inbox[i].kind = kind => inbox[i].number > t
    BY <2>4, <2>6, <2>7
  <2>11. p \in n + 1 .. Len(inbox) /\ inbox[p].kind = kind /\ inbox[p].number = t + 1
    BY <1>1, <2>3, <2>8
  <2> QED
    BY <2>8, <2>9, <2>10, <2>11 DEF CutAt
<1> QED
  BY <1>4, <1>5

LEMMA CutShort ==
  ASSUME NEW ans, NEW str, TypeOK, Connection(ans, str), NEW n \in 0 .. Len(inbox),
         inbox' = SubSeq(inbox, 1, n), UNCHANGED <<vars, device, fifo, lost, popped>>
  PROVE  \E a, s : Connection(a, s)'
<1>1. /\ ClientTypeOK /\ OpsOK /\ InboxInOrder /\ received \in Nat
      /\ ans \in Nat /\ str \in Nat /\ received <= ans
      /\ ans <= answered /\ str <= streamed /\ answered \in Nat /\ streamed \in Nat
      /\ \A k \in 1 .. answered : before[k] \in Nat
  <2>1. \A k \in 1 .. answered : before[k] \in Nat
    BY DEF Connection, ClientTypeOK
  <2> QED
    BY <2>1, Bounds DEF Connection, AnswersDue
<1>2. /\ inbox \in Seq(Message) /\ Len(inbox) \in Nat
      /\ \A i \in 1 .. Len(inbox) : inbox[i] \in Message
      /\ \A j \in 1 .. Len(FromDevice) : FromDevice[j] \in Nat
  BY <1>1, WhatIsWhere
<1>3. /\ inbox' \in Seq(Message) /\ Len(inbox') = n
      /\ DOMAIN inbox' = 1 .. n /\ DOMAIN inbox = 1 .. Len(inbox)
      /\ \A i \in 1 .. n : i \in 1 .. Len(inbox) /\ inbox'[i] = inbox[i]
  <2>1. inbox' \in Seq(Message) /\ Len(inbox') = n /\ \A i \in 1 .. n : inbox'[i] = inbox[i]
    BY <1>2, SubSeqProperties
  <2> QED
    BY <1>2, <2>1, LenProperties
<1>4. PICK a \in received .. ans : CutAt("response", n, a, ans)
  <2>1. \A i \in 1 .. Len(inbox) :
          inbox[i].kind = "response" => inbox[i].number > received /\ inbox[i].number <= ans
    BY <1>1 DEF Connection, AnswersDue
  <2> QED
    BY <1>1, <1>2, <2>1, Remaining
<1>5. PICK s \in 0 .. str : CutAt("stream", n, s, str)
  <2>1. \A i \in 1 .. Len(inbox) :
          inbox[i].kind = "stream" => inbox[i].number > 0 /\ inbox[i].number <= str
    BY <1>1 DEF Connection, StreamsDue
  <2>2. PICK low \in Nat : low = 0
    OBVIOUS
  <2>3. /\ low <= str
        /\ \A i \in 1 .. Len(inbox) :
             inbox[i].kind = "stream" => inbox[i].number > low /\ inbox[i].number <= str
    BY <1>1, <2>1, <2>2
  <2>4. \E t \in low .. str : CutAt("stream", n, t, str)
    BY <1>1, <1>2, <2>3, Remaining
  <2> QED
    BY <2>2, <2>4
<1>6. UNCHANGED <<received, sent, ret, answered, streamed, before, queue, op, val, lost, popped,
                  Stored, FromDevice>>
  BY DEF vars, reader, wire, caller, device, fifo, Stored, FromDevice, InHand
<1>7. Arrived(a, s)'
  BY <1>1, <1>4, <1>5, <1>6 DEF Arrived, CutAt
<1>8. ClientTypeOK' /\ OpsOK' /\ Answered'
  BY <1>1, <1>3, <1>6 DEF ClientTypeOK, OpsOK, Message, Connection, Answered
<1>9. InboxInOrder'
  BY <1>1, <1>3 DEF InboxInOrder
<1>10. AnswersDue(a)'
  <2>1. ASSUME NEW k \in received + 1 .. a
        PROVE  \E i \in 1 .. n : inbox'[i] = Response(k)
    <3>1. k \in received + 1 .. ans
      BY <1>1, <1>4 DEF CutAt
    <3>2. PICK i \in 1 .. Len(inbox) : inbox[i] = Response(k)
      BY <3>1 DEF Connection, AnswersDue
    <3>3. inbox[i].kind = "response" /\ inbox[i].number = k
      BY <3>2 DEF Response
    <3>4. i \in 1 .. n
      BY <1>1, <1>2, <1>4, <3>1, <3>3 DEF CutAt
    <3> QED
      BY <1>3, <3>2, <3>4
  <2>2. ASSUME NEW i \in 1 .. n, inbox'[i].kind = "response"
        PROVE  inbox'[i].number \in received + 1 .. a
    <3>1. inbox[i].number \in received + 1 .. ans
      BY <1>3, <2>2 DEF Connection, AnswersDue
    <3> QED
      BY <1>1, <1>3, <1>4, <2>2, <3>1 DEF CutAt
  <2>3. received <= a
    BY <1>1, <1>4 DEF CutAt
  <2> QED
    BY <1>3, <1>6, <2>1, <2>2, <2>3 DEF AnswersDue
<1>11. StreamsDue(s)'
  <2>1. ASSUME NEW i \in 1 .. n, inbox'[i].kind = "stream"
        PROVE  /\ inbox'[i].number \in 1 .. s
               /\ \A j \in 1 .. Len(FromDevice) : FromDevice[j] < inbox'[i].number
    <3>1. /\ inbox[i].number \in 1 .. str
          /\ \A j \in 1 .. Len(FromDevice) : FromDevice[j] < inbox[i].number
      BY <1>3, <2>1 DEF Connection, StreamsDue
    <3> QED
      BY <1>1, <1>3, <1>5, <2>1, <3>1 DEF CutAt
  <2>2. \A j \in 1 .. Len(FromDevice) : FromDevice[j] <= s
    <3>1. CASE s = str
      BY <3>1 DEF Connection, StreamsDue
    <3>2. ASSUME NEW i \in n + 1 .. Len(inbox), inbox[i].kind = "stream", inbox[i].number = s + 1
          PROVE  \A j \in 1 .. Len(FromDevice) : FromDevice[j] <= s
      <4>1. i \in 1 .. Len(inbox)
        BY <1>2
      <4>2. \A j \in 1 .. Len(FromDevice) : FromDevice[j] < s + 1
        BY <3>2, <4>1 DEF Connection, StreamsDue
      <4> QED
        BY <1>1, <1>2, <1>5, <4>2 DEF CutAt
    <3> QED
      BY <1>5, <3>1, <3>2 DEF CutAt
  <2> QED
    BY <1>3, <1>6, <2>1, <2>2 DEF StreamsDue
<1>12. AllThere(s)'
  <2>1. ASSUME NEW m \in 1 .. s
        PROVE  \/ m \in lost \/ \E i \in DOMAIN FromDevice : FromDevice[i] = m
               \/ \E i \in 1 .. n : inbox'[i] = StreamData(m)
    <3>1. m \in 1 .. str
      BY <1>1, <1>5 DEF CutAt
    <3>2. ASSUME NEW i \in 1 .. Len(inbox), inbox[i] = StreamData(m)
          PROVE  \E k \in 1 .. n : inbox'[k] = StreamData(m)
      <4>1. inbox[i].kind = "stream" /\ inbox[i].number = m
        BY <3>2 DEF StreamData
      <4>2. i \in 1 .. n
        BY <1>1, <1>2, <1>5, <3>1, <4>1 DEF CutAt
      <4> QED
        BY <1>3, <3>2, <4>2
    <3> QED
      BY <1>3, <3>1, <3>2 DEF Connection, AllThere
  <2> QED
    BY <1>3, <1>6, <2>1 DEF Connection, AllThere
<1>13. AnswersBehind(a, s)'
  <2>1. ASSUME NEW k \in received + 1 .. a
        PROVE  before[k] <= s
    <3>1. k \in received + 1 .. ans /\ k \in 1 .. answered
      BY <1>1, <1>4 DEF CutAt
    <3>2. CASE s = str
      BY <3>1, <3>2 DEF Connection, AnswersBehind
    <3>3. ASSUME NEW q \in n + 1 .. Len(inbox), inbox[q].kind = "stream", inbox[q].number = s + 1,
                 s + 1 <= before[k]
          PROVE  FALSE
      <4>1. PICK i \in 1 .. Len(inbox) : inbox[i] = Response(k)
        BY <3>1 DEF Connection, AnswersDue
      <4>2. inbox[i].kind = "response" /\ inbox[i].number = k
        BY <4>1 DEF Response
      <4>3. q \in 1 .. Len(inbox)
        BY <1>2
      <4>4. q < i
        BY <3>3, <4>2, <4>3 DEF Connection, AnswersBehind
      <4>5. inbox[i].number > a
        BY <1>2, <1>4, <4>2, <4>4 DEF CutAt
      <4> QED
        BY <1>1, <1>4, <4>2, <4>5 DEF CutAt
    <3> QED
      BY <1>1, <1>5, <3>1, <3>2, <3>3 DEF CutAt
  <2>2. ASSUME NEW i \in 1 .. n, NEW j \in 1 .. n,
               inbox'[i].kind = "stream", inbox'[j].kind = "response",
               inbox'[i].number <= before[inbox'[j].number]
        PROVE  i < j
    BY <1>3, <2>2 DEF Connection, AnswersBehind
  <2>3. \A k \in 1 .. received : \A m \in 1 .. before[k] :
          m \in lost \/ \E i \in 1 .. Len(Stored) : Stored[i] = m
    BY DEF Connection, AnswersBehind
  <2> QED
    BY <1>3, <1>6, <2>1, <2>2, <2>3 DEF AnswersBehind
<1>14. Connection(a, s)'
  BY <1>7, <1>8, <1>9, <1>10, <1>11, <1>12, <1>13 DEF Connection
<1> QED
  BY <1>14

(* As long as the connection is up, all that the device sent is there.     *)
PeerOK ==
  /\ peer = "up" => "transport" \in members
  /\ phase \in {"transport", "socket", "connect"} => answered = 0 /\ streamed = 0

Connected == /\ \E ans, str : Connection(ans, str)
             /\ peer = "up" => ClientInv

ConnInv == PeerOK /\ Connected

LEMMA FreshClient == Fresh => ClientInit'
BY DEF Fresh, ClientInit, Init, Q!Init, Q!Threads

LEMMA ClientStarts == ClientInit => ClientInv
BY InitClient DEF ClientInv, ClientInit

(* A step that leaves the client alone, while the connection is not made   *)
(* anew.                                                                   *)
LEMMA ConnectionStays ==
  ASSUME Connected, peer' = "up" => peer = "up", UNCHANGED Received
  PROVE  Connected'
<1>1. PICK ans, str : Connection(ans, str)
  BY DEF Connected
<1>2. Connection(ans, str)'
  BY <1>1, HandleClient
<1>3. ASSUME ClientInv PROVE ClientInv'
  <2>1. PICK a, s : a = answered /\ s = streamed /\ Connection(a, s)
    BY <1>3 DEF ClientInv
  <2>2. Connection(a, s)' /\ answered' = answered /\ streamed' = streamed
    BY <2>1, HandleClient DEF Received, stream, device
  <2> QED
    BY <2>1, <2>2 DEF ClientInv
<1> QED
  BY <1>2, <1>3 DEF Connected

(* Before the device has sent anything a connection is whole.              *)
LEMMA NothingSent ==
  ASSUME TypeOK, Connected, answered = 0, streamed = 0
  PROVE  ClientInv
<1>1. PICK ans, str : Connection(ans, str)
  BY DEF Connected
<1>2. ans = answered /\ str = streamed
  BY <1>1, Bounds
<1> QED
  BY <1>1, <1>2 DEF ClientInv

LEMMA NewConn == TypeOK /\ LifeInv /\ ConnInv /\ New => ConnInv'
<1> SUFFICES ASSUME TypeOK, LifeInv, ConnInv, New PROVE ConnInv'
  OBVIOUS
<1>1. CASE CallocClient
  <2>1. ClientInit'
    BY <1>1, FreshClient DEF CallocClient
  <2>2. ClientInit' => ClientInv'
    BY ClientStarts, PTL
  <2>3. Connected'
    BY <2>1, <2>2 DEF Connected, ClientInv
  <2>4. PeerOK'
    <3>1. answered' = 0 /\ streamed' = 0
      BY <2>1 DEF ClientInit
    <3>2. peer' # "up"
      BY <1>1 DEF CallocClient, LifeInv, PartsOK, ConnInv, PeerOK
    <3> QED
      BY <3>1, <3>2 DEF PeerOK
  <2> QED
    BY <2>3, <2>4 DEF ConnInv
<1>2. CASE ~CallocClient
  <2>1. UNCHANGED ClientVars /\ answered' = answered /\ streamed' = streamed
    BY <1>2 DEF New, TransportNew, TransportSocket, TransportConnect, TransportFree, StreamqNew,
                StreamqMsg, Acquire, CreateThread, ErrExit, ClientVars, stream, device
  <2>2. PeerOK' /\ (peer' = "up" => peer = "up" \/ (answered = 0 /\ streamed = 0))
    <3> USE DEF ConnInv, PeerOK, LifeInv, PartsOK, Transport, TransportParts, QueueParts
    <3>1. CASE TransportNew
      BY <2>1, <3>1 DEF TransportNew, Acquire
    <3>2. CASE TransportSocket
      BY <2>1, <3>2 DEF TransportSocket, Acquire
    <3>3. CASE TransportConnect
      BY <2>1, <3>3 DEF TransportConnect
    <3>4. CASE TransportFree
      BY <2>1, <3>4 DEF TransportFree
    <3>5. CASE StreamqNew
      BY <2>1, <3>5 DEF StreamqNew, Acquire
    <3>6. CASE StreamqMsg
      BY <2>1, <3>6 DEF StreamqMsg
    <3>7. CASE CreateThread
      BY <2>1, <3>7 DEF CreateThread
    <3>8. CASE ErrExit
      BY <2>1, <3>8 DEF ErrExit, Closed, destroy
    <3> QED
      BY <1>2, <3>1, <3>2, <3>3, <3>4, <3>5, <3>6, <3>7, <3>8 DEF New
  <2>3. CASE peer' = "up" => peer = "up"
    BY <2>1, <2>2, <2>3, ConnectionStays, ReceivedStays DEF ConnInv
  <2>4. CASE answered = 0 /\ streamed = 0
    <3>1. PICK a, s : a = answered /\ s = streamed /\ Connection(a, s)
      BY <2>4, NothingSent DEF ConnInv, ClientInv
    <3>2. Connection(a, s)'
      BY <2>1, <3>1, HandleClient, ReceivedStays
    <3> QED
      BY <2>1, <2>2, <3>1, <3>2 DEF ConnInv, Connected, ClientInv
  <2> QED
    BY <2>2, <2>3, <2>4
<1> QED
  BY <1>1, <1>2

(* The device sends, or what was received is worked on.                    *)
LEMMA SendConn == TypeOK /\ LifeInv /\ ConnInv /\ Device => ConnInv'
<1> SUFFICES ASSUME TypeOK, LifeInv, ConnInv, Device PROVE ConnInv'
  OBVIOUS
<1>1. /\ UNCHANGED <<phase, members, peer>>
      /\ peer = "up" /\ (DeviceAnswers \/ DeviceStreams) /\ ClientInv
  BY DEF Device, lifecycle, ConnInv, Connected
<1>2. ClientInv'
  BY <1>1, DeviceClient
<1>3. Connected'
  BY <1>2 DEF Connected, ClientInv
<1>4. phase \notin {"transport", "socket", "connect"}
  BY <1>1 DEF ConnInv, PeerOK, LifeInv, PartsOK
<1> QED
  BY <1>1, <1>3, <1>4 DEF ConnInv, PeerOK

LEMMA WorkConn ==
  TypeOK /\ ConnInv /\ (ReadThread \/ Interrupted \/ (IInv /\ Application)) => ConnInv'
<1> SUFFICES ASSUME TypeOK, ConnInv, ReadThread \/ Interrupted \/ (IInv /\ Application) PROVE ConnInv'
  OBVIOUS
<1>1. UNCHANGED <<phase, members, peer>>
  BY DEF ReadThread, Interrupted, Application, lifecycle
<1>2. ClientQuiet \/ (IInv /\ ClientWork)
  BY DEF ReadThread, Interrupted, Application, ClientWork, ClientQuiet
<1>3. answered' = answered /\ streamed' = streamed
  BY <1>2, WorkSendsNothing DEF ClientWork
<1>4. ASSUME NEW ans, NEW str, Connection(ans, str) PROVE Connection(ans, str)'
  BY <1>2, <1>4, QuietClient, WorkClient
<1>5. PICK ans, str : Connection(ans, str)
  BY DEF ConnInv, Connected
<1>6. Connection(ans, str)'
  BY <1>4, <1>5
<1>7. ASSUME ClientInv PROVE ClientInv'
  <2>1. PICK a, s : a = answered /\ s = streamed /\ Connection(a, s)
    BY <1>7 DEF ClientInv
  <2>2. Connection(a, s)'
    BY <1>4, <2>1
  <2> QED
    BY <1>3, <2>1, <2>2 DEF ClientInv
<1> QED
  BY <1>1, <1>3, <1>6, <1>7 DEF ConnInv, PeerOK, Connected

LEMMA EndConn == TypeOK /\ ConnInv /\ DeviceEnds => ConnInv'
<1> SUFFICES ASSUME TypeOK, ConnInv, DeviceEnds PROVE ConnInv'
  OBVIOUS
<1>1. /\ peer' = "gone" /\ UNCHANGED <<phase, members, answered, streamed>>
      /\ UNCHANGED <<vars, device, fifo, lost, popped>>
  BY DEF DeviceEnds, device
<1>2. PICK n \in 0 .. Len(inbox) : inbox' = SubSeq(inbox, 1, n)
  BY DEF DeviceEnds
<1>3. PICK ans, str : Connection(ans, str)
  BY DEF ConnInv, Connected
<1>4. PICK a, s : Connection(a, s)'
  BY <1>1, <1>2, <1>3, CutShort
<1> QED
  BY <1>1, <1>4 DEF ConnInv, PeerOK, Connected

LEMMA DeleteConn == ConnInv /\ LifeInv /\ (Delete \/ Cancelled \/ DeleteSteps) => ConnInv'
<1> SUFFICES ASSUME ConnInv, LifeInv, Delete \/ Cancelled \/ DeleteSteps PROVE ConnInv'
  OBVIOUS
<1>1. UNCHANGED ClientVars /\ UNCHANGED <<answered, streamed>>
  BY DEF Delete, Cancelled, DeleteSteps, Join, StreamqDelete, Destroy, FreeClient, ClientVars, stream,
         device
<1>2. PeerOK' /\ (peer' = "up" => peer = "up")
  <2> USE DEF ConnInv, PeerOK, LifeInv, PartsOK, Transport, TransportParts, QueueParts
  <2>1. CASE Delete \/ Cancelled
    BY <1>1, <2>1 DEF Delete, Cancelled
  <2>2. CASE Join
    BY <1>1, <2>2 DEF Join
  <2>3. CASE StreamqDelete
    BY <1>1, <2>3 DEF StreamqDelete
  <2>4. CASE Destroy
    BY <1>1, <2>4 DEF Destroy, Closed, destroy
  <2>5. CASE FreeClient
    BY <1>1, <2>5 DEF FreeClient
  <2> QED
    BY <2>1, <2>2, <2>3, <2>4, <2>5 DEF DeleteSteps
<1> QED
  BY <1>1, <1>2, ConnectionStays, ReceivedStays DEF ConnInv

LEMMA NextConn == IInv /\ LifeInv /\ ConnInv /\ [LifeNext]_LifeVars => ConnInv'
<1> SUFFICES ASSUME IInv, LifeInv, ConnInv, [LifeNext]_LifeVars PROVE ConnInv'
  OBVIOUS
<1>1. CASE UNCHANGED LifeVars
  <2>1. UNCHANGED ClientVars /\ UNCHANGED <<phase, members, peer, answered, streamed>>
    BY <1>1 DEF LifeVars, lifecycle, ClientVars, stream, device
  <2> QED
    BY <2>1, ConnectionStays, ReceivedStays DEF ConnInv, PeerOK
<1> QED
  BY <1>1, NewConn, SendConn, WorkConn, EndConn, DeleteConn DEF LifeNext, IInv

LEMMA ConnInvariance == LifeSpec => []ConnInv
<1>1. LifeInit => ConnInv
  <2> SUFFICES ASSUME LifeInit PROVE ConnInv
    OBVIOUS
  <2>1. ClientInv /\ phase = "none" /\ peer = "gone"
    BY ClientStarts DEF LifeInit
  <2> QED
    BY <2>1 DEF ConnInv, PeerOK, Connected, ClientInv
<1> QED
  BY <1>1, NextConn, LifeInvariance, LifeCommandInvariance, PTL DEF LifeSpec

(* Of one connection: the stream reaches the client without a gap, ...     *)
LEMMA StreamOfConn == ConnInv => StreamUnbroken
<1> SUFFICES ASSUME ConnInv PROVE StreamUnbroken
  OBVIOUS
<1>1. PICK ans, str : Connection(ans, str)
  BY DEF ConnInv, Connected
<1>2. /\ DOMAIN FromDevice = 1 .. Len(FromDevice) /\ DOMAIN inbox = 1 .. Len(inbox)
      /\ \A i \in 1 .. Len(FromDevice) : FromDevice[i] \in Nat
  BY <1>1, WhatIsWhere DEF Connection
<1>3. \A i, j \in DOMAIN FromDevice : i < j => FromDevice[i] < FromDevice[j]
  BY <1>1 DEF Connection, AllThere
<1>4. ASSUME NEW i \in DOMAIN FromDevice, NEW n \in 1 .. FromDevice[i]
      PROVE  n \in lost \/ \E j \in DOMAIN FromDevice : FromDevice[j] = n
  <2>1. ASSUME NEW j \in DOMAIN inbox, inbox[j] = StreamData(n) PROVE FALSE
    <3>1. inbox[j].kind = "stream" /\ inbox[j].number = n
      BY <2>1 DEF StreamData
    <3>2. FromDevice[i] < n
      BY <1>1, <1>2, <3>1 DEF Connection, StreamsDue
    <3> QED
      BY <1>2, <3>2
  <2>2. n \in 1 .. str
    <3>1. str \in Nat
      BY <1>1, ClientAssumption DEF Connection, ClientTypeOK, Arrived
    <3>2. FromDevice[i] <= str
      BY <1>1, <1>2 DEF Connection, StreamsDue
    <3> QED
      BY <1>2, <3>1, <3>2
  <2> QED
    BY <1>1, <2>1, <2>2 DEF Connection, AllThere
<1> QED
  BY <1>3, <1>4 DEF StreamUnbroken

(* ... and the responses, each behind the stream data sent before it.      *)
LEMMA AnswersOfConn == ConnInv => AnswerIsLast
<1> SUFFICES ASSUME ConnInv, NEW c \in Callers, ret[c].code \in {"OK", "FB_ERROR"},
                    NEW n \in 1 .. before[ret[c].cmd]
             PROVE  n \in lost \/ \E i \in DOMAIN Stored : Stored[i] = n
  BY DEF AnswerIsLast
<1>1. PICK ans, str : Connection(ans, str)
  BY DEF ConnInv, Connected
<1>2. n \in lost \/ \E i \in 1 .. Len(Stored) : Stored[i] = n
  BY <1>1 DEF Connection, Answered, AnswersBehind
<1>3. DOMAIN Stored = 1 .. Len(Stored)
  BY <1>1, WhatIsWhere DEF Connection
<1> QED
  BY <1>2, <1>3

(* What is proved of one connection of one client holds of every client    *)
(* that the program creates, whenever and wherever its connection ends:    *)
(* what reached the client is in order and without a gap, ...              *)
THEOREM StreamStaysUnbroken == LifeSpec => []StreamUnbroken
BY StreamOfConn, ConnInvariance, PTL

(* ... nothing is missing as long as the connection is up, ...             *)
THEOREM StreamIsWholeWhileUp == LifeSpec => [](peer = "up" => StreamInOrder)
<1>1. ConnInv => (peer = "up" => StreamInOrder)
  BY DEF ConnInv, Connected, ClientInv, Connection, AllThere, StreamInOrder
<1> QED
  BY <1>1, ConnInvariance, PTL

(* ... no answer overtakes the stream data before it, ...                  *)
THEOREM AnswersOvertakeNothingEver == LifeSpec => []AnswerIsLast
BY AnswersOfConn, ConnInvariance, PTL

(* ... and all that is proved of the command protocol holds between a new  *)
(* client and its deletion: a command returns OK with its own response     *)
(* only, the permits are those of the commands that timed out, and until   *)
(* one does, no command fails, and no response is left over, freed under   *)
(* its owner or leaked.                                                    *)
THEOREM ProtocolHoldsEver ==
  LifeSpec => [](OwnResponse /\ PermitAccounting /\ NoSpuriousFailure /\ InStep /\ OwnedUntilTimeout
                 /\ NoLeakUntilTimeout)
<1>1. IInv => OwnResponse /\ PermitAccounting /\ NoSpuriousFailure
  BY DEF IInv
<1>2. OwnInv => OwnedUntilTimeout /\ NoLeakUntilTimeout
  BY DEF OwnInv, Owned, OwnedUntilTimeout, TakenIsOwned, CallersOwn, Taken, NoLeakUntilTimeout
<1> QED
  BY <1>1, <1>2, NothingLeftOver, LifeCommandInvariance, PTL
=============================================================================
