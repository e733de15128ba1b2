------------------------ MODULE FunctionblockClient ------------------------
(***************************************************************************)
(* The client at work: the command protocol of FunctionblockCommand and    *)
(* the stream queue (as BoundedFifo, which StreamQ implements) joined by   *)
(* read_thread, which takes responses and stream data off one connection   *)
(* in the order the device sent them.                                      *)
(***************************************************************************)
EXTENDS FunctionblockCommand, FiniteSets

CONSTANTS Apps,       \* application threads that read the stream
          Reader,     \* read_thread
          Capacity,   \* CONFIG_STREAMQ_CAPACITY
          MaxStream   \* bound: stream messages the device sends

ASSUME ClientAssumption == Capacity \in Nat \ {0} /\ MaxStream \in Nat /\ Reader \notin Apps

VARIABLES inbox,           \* what the device sent and read_thread has not read
          answered,        \* number of commands the device answered
          streamed,        \* number of stream messages the device sent
          queue, op, val   \* the stream queue and the calls on it

(* History: the stream messages that were dropped (not unpacked, or their  *)
(* push was interrupted), those that the application got, and for every    *)
(* command answered how many stream messages went before the answer.       *)
VARIABLES lost, popped, before

StreamMsgs == 1 .. MaxStream
Q == INSTANCE BoundedFifo WITH Producers <- {Reader}, Consumers <- Apps, Observers <- {},
                               Msgs <- StreamMsgs, NoMsg <- NULL, Forever <- {}

device == <<answered, streamed, before>>
fifo   == <<queue, op, val>>
stream == <<inbox, device, fifo, lost, popped>>

ClientInit == /\ Init
              /\ Q!Init
              /\ inbox = <<>> /\ answered = 0 /\ streamed = 0
              /\ lost = {} /\ popped = <<>> /\ before = <<>>

-----------------------------------------------------------------------------
(* The device answers the commands in their order, and streams. *)
Response(n)   == [kind |-> "response", number |-> n]
StreamData(n) == [kind |-> "stream", number |-> n]

DeviceAnswers == /\ Alive /\ answered < Len(sent)
                 /\ answered' = answered + 1
                 /\ before' = Append(before, streamed)
                 /\ inbox' = Append(inbox, Response(answered + 1))
                 /\ UNCHANGED <<vars, streamed, fifo, lost, popped>>

DeviceStreams == /\ Alive /\ streamed < MaxStream
                 /\ streamed' = streamed + 1
                 /\ inbox' = Append(inbox, StreamData(streamed + 1))
                 /\ UNCHANGED <<vars, answered, before, fifo, lost, popped>>

-----------------------------------------------------------------------------
(* read_thread is in read_msg, and the next message in the inbox arrives.  *)
Reading(kind) == op[Reader] = "idle" /\ inbox # <<>> /\ Head(inbox).kind = kind

(* Mutant: a response overtakes the stream data before it. *)
ReceiveResponseFirst ==
  /\ op[Reader] = "idle"
  /\ \E i \in DOMAIN inbox :
       /\ inbox[i].kind = "response" /\ \A j \in 1 .. i - 1 : inbox[j].kind # "response"
       /\ inbox' = SubSeq(inbox, 1, i - 1) \o SubSeq(inbox, i + 1, Len(inbox))
  /\ Receive
  /\ UNCHANGED <<device, fifo, lost, popped>>

(* Mutant: a response waits until the stream was read. *)
ReceiveResponseWaits == /\ Reading("response") /\ queue = <<>>
                        /\ Receive
                        /\ inbox' = Tail(inbox)
                        /\ UNCHANGED <<device, fifo, lost, popped>>

ReceiveResponse == /\ Reading("response")
                   /\ Receive
                   /\ inbox' = Tail(inbox)
                   /\ UNCHANGED <<device, fifo, lost, popped>>

DropResponse == /\ Reading("response")
                /\ Drop
                /\ inbox' = Tail(inbox)
                /\ UNCHANGED <<device, fifo, lost, popped>>

(* Mutant: stream data is taken for a response. *)
ReceiveStreamAsResponse ==
  /\ Reading("stream") /\ ReaderAt("read")
  /\ received' = received + 1 /\ rres' = received + 1 /\ rpc' = "test"
  /\ inbox' = Tail(inbox)
  /\ UNCHANGED <<shared, caller, wire, freed, bounds, history, device, fifo, lost, popped>>

ReceiveStream == /\ Reading("stream") /\ ReaderAt("read")
                 /\ Q!CallPush(Reader) /\ val'[Reader] = Head(inbox).number
                 /\ inbox' = Tail(inbox)
                 /\ UNCHANGED <<vars, device, lost, popped>>

DropStream == /\ Reading("stream") /\ ReaderAt("read")
              /\ Cardinality(lost) < MaxDrops
              /\ lost' = lost \cup {Head(inbox).number}
              /\ inbox' = Tail(inbox)
              /\ UNCHANGED <<vars, device, fifo, popped>>

(* Mutant: a push does not wait for a free slot. *)
PushOverfills == /\ Alive
                 /\ Q!Move(Reader, "push", "pushed")
                 /\ queue' = Append(queue, val[Reader])
                 /\ UNCHANGED <<val, vars, inbox, device, lost, popped>>

(* Mutant: a push to a full queue is given up. *)
PushDropsWhenFull == /\ Alive
                     /\ Q!Move(Reader, "push", "pushed")
                     /\ queue' = IF Len(queue) < Capacity THEN Append(queue, val[Reader]) ELSE queue
                     /\ UNCHANGED <<val, vars, inbox, device, lost, popped>>

(* io4e_streamq_push waits until there is room; nothing else is read.      *)
PushStream == /\ Alive /\ Q!Push(Reader)
              /\ UNCHANGED <<vars, inbox, device, lost, popped>>

PushReturns == /\ Alive /\ Q!Finish(Reader, "pushed")
               /\ UNCHANGED <<vars, inbox, device, lost, popped>>

(* A signal handler on read_thread ends sem_timedwait (EINTR) long before  *)
(* IO4E_FOREVER has passed: the push reports a timeout, the message is     *)
(* dropped and nobody frees it.                                            *)
PushInterrupted == /\ Alive /\ Cardinality(lost) < MaxDrops
                   /\ Q!PushGivesUp(Reader)
                   /\ lost' = lost \cup {val[Reader]}
                   /\ UNCHANGED <<vars, inbox, device, popped>>

HandleResponse == (Test \/ Free \/ Store \/ Post \/ PostFails) /\ UNCHANGED stream

-----------------------------------------------------------------------------
(* io4edge_functionblock_read_stream *)
ReadStream(a) == /\ Alive /\ Q!Call(a, "pop")
                 /\ UNCHANGED <<vars, inbox, device, lost, popped>>

PopStream(a) == /\ Alive /\ Q!Pop(a)
                /\ popped' = Append(popped, Head(queue))
                /\ UNCHANGED <<vars, inbox, device, lost>>

(* Mutant: the wait for stream data does not time out. *)
ReadReturnsWithData(a) == /\ Alive /\ Q!Finish(a, "popped")
                          /\ UNCHANGED <<vars, inbox, device, lost, popped>>

ReadReturns(a) == /\ Alive
                  /\ Q!PopGivesUp(a) \/ Q!Finish(a, "popped")
                  /\ UNCHANGED <<vars, inbox, device, lost, popped>>

Issue(c) == Command(c) /\ UNCHANGED stream

ClientNext == \/ DeviceAnswers \/ DeviceStreams
              \/ ReceiveResponse \/ DropResponse \/ ReceiveStream \/ DropStream
              \/ PushStream \/ PushInterrupted \/ PushReturns \/ HandleResponse
              \/ \E a \in Apps : ReadStream(a) \/ PopStream(a) \/ ReadReturns(a)
              \/ \E c \in Callers : Issue(c)

ClientVars == <<vars, stream>>
ClientSpec == ClientInit /\ [][ClientNext]_ClientVars

(* The read thread runs on, and the device answers what it is asked;       *)
(* nothing is assumed of the application.                                  *)
ReaderFairness == /\ WF_ClientVars(DeviceAnswers)
                  /\ WF_ClientVars(ReceiveResponse \/ DropResponse \/ ReceiveStream \/ DropStream)
                  /\ WF_ClientVars(PushStream) /\ WF_ClientVars(PushReturns)
                  /\ WF_ClientVars(HandleResponse)
ReaderFairSpec == ClientSpec /\ ReaderFairness

-----------------------------------------------------------------------------
(* Types; the queue is never overfilled. *)
ClientTypeOK ==
  /\ inbox \in Seq([kind : {"response", "stream"}, number : Nat])
  /\ answered \in 0 .. Len(sent) /\ streamed \in 0 .. MaxStream
  /\ queue \in Seq(StreamMsgs) /\ Len(queue) <= Capacity
  /\ lost \subseteq StreamMsgs /\ popped \in Seq(StreamMsgs)
  /\ before \in [1 .. answered -> 0 .. MaxStream]

(* What read_thread took off the connection: read by the application, in   *)
(* the queue, or in its hand.                                              *)
Stored == popped \o queue
InHand == IF op[Reader] = "push" THEN <<val[Reader]>> ELSE <<>>
FromDevice == Stored \o InHand

(* The client does nothing with commands and responses that the command    *)
(* protocol does not allow: what is shown of FunctionblockCommand holds of *)
(* the client.                                                             *)
ImplementsCommand == Spec

(* Between the device and the application no stream message is duplicated  *)
(* or overtaken by another, and none is lost but for those that cannot be  *)
(* unpacked and those whose push was interrupted.                          *)
StreamInOrder ==
  /\ \A i, j \in DOMAIN FromDevice : i < j => FromDevice[i] < FromDevice[j]
  /\ \A n \in 1 .. streamed :
       \/ n \in lost \/ \E i \in DOMAIN FromDevice : FromDevice[i] = n
       \/ \E i \in DOMAIN inbox : inbox[i] = StreamData(n)

(* An answer never overtakes stream data: when a command returns OK, what  *)
(* the device streamed before its answer is in the queue or was read.      *)
AnswerIsLast ==
  \A c \in Callers : ret[c].code \in {"OK", "FB_ERROR"} =>
    \A n \in 1 .. before[ret[c].cmd] :
      n \in lost \/ \E i \in DOMAIN Stored : Stored[i] = n

(* A full queue that stays full is all that can keep a response from being *)
(* read: if the application makes room in it now and then, whatever it     *)
(* reads, and however often it times out, every response is read.          *)
HeldUpByQueue ==
  []<>(Len(queue) < Capacity) =>
    \A n \in 1 .. MaxCommands : Len(sent) >= n ~> (received >= n \/ ~Alive \/ rpc = "exited")
=============================================================================
