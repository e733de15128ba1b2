-------------------------- MODULE ClientLifecycle --------------------------
(***************************************************************************)
(* From io4edge_functionblock_client_new_from_host_port to _client_delete, *)
(* again and again: the parts of the client, which of them exist when one  *)
(* step of its creation fails, and how delete stops read_thread, which may *)
(* be anywhere in its loop, before it frees what the thread works with.    *)
(* Between the two the client works as in FunctionblockClient, until the   *)
(* device ends the connection; read_thread goes on trying.  The            *)
(* application calls new again after a failure or a deletion, and delete   *)
(* when none of its calls is under way, as the examples do.                *)
(***************************************************************************)
EXTENDS FunctionblockClient

VARIABLES phase,   \* the application's statement in new or delete, or "ready"
          parts,   \* what is allocated or open
          members, \* the members of the client that are not NULL
          thread,  \* read_thread: none, running, cancelling or ended
          peer     \* the device's end of the connection: up or gone

lifecycle == <<phase, parts, members, thread, peer>>

TransportParts == {"transport", "socket"}
QueueParts == {"streamq", "msg"}
AllParts == {"client"} \cup TransportParts \cup QueueParts

LifeInit == /\ ClientInit
            /\ phase = "none" /\ parts = {} /\ members = {}
            /\ thread = "none" /\ peer = "gone"

-----------------------------------------------------------------------------
(* One allocation of new: it succeeds, or new goes on where the function   *)
(* that needed it gives up.                                                *)
Acquire(from, part, to, failed) ==
  /\ phase = from
  /\ \/ phase' = to /\ parts' = parts \cup {part}
     \/ phase' = failed /\ UNCHANGED parts
  /\ UNCHANGED <<members, thread, peer, ClientVars>>

(* Nothing of an earlier client or of its connection is left. *)
Fresh ==
  /\ cmd_mutex' = NULL /\ cmd_context' = CtxFirst /\ cmd_sem' = 0 /\ cmd_response' = NULL
  /\ pc' = [c \in Callers |-> "idle"] /\ want' = [c \in Callers |-> FALSE]
  /\ res' = [c \in Callers |-> NULL] /\ ret' = [c \in Callers |-> NoReturn]
  /\ rpc' = "read" /\ rres' = NULL /\ sent' = <<>> /\ received' = 0 /\ connected' = TRUE
  /\ freed' = {} /\ timeouts' = 0 /\ dropped' = 0 /\ calls' = 0
  /\ settled' = 0 /\ start' = CtxFirst /\ attempts' = 0
  /\ inbox' = <<>> /\ answered' = 0 /\ streamed' = 0 /\ before' = <<>>
  /\ queue' = <<>> /\ op' = [t \in Apps \cup {Reader} |-> "idle"]
  /\ val' = [t \in Apps \cup {Reader} |-> NULL]
  /\ lost' = {} /\ popped' = <<>>

(* calloc; when it fails new returns and nothing has changed. *)
CallocClient == /\ phase \in {"none", "deleted"}
                /\ phase' = "transport" /\ parts' = {"client"} /\ members' = {}
                /\ Fresh
                /\ UNCHANGED <<thread, peer>>

TransportNew == Acquire("transport", "transport", "socket", "errexit")

(* The host is resolved and the socket opened; either may fail.            *)
TransportSocket == Acquire("socket", "socket", "connect", "free_transport")

(* h->transport is set once the socket is connected, which is closed when  *)
(* it cannot be.                                                           *)
TransportConnect ==
  /\ phase = "connect"
  /\ \/ /\ phase' = "streamq" /\ peer' = "up"
        /\ members' = members \cup {"transport"} /\ UNCHANGED parts
     \/ /\ phase' = "free_transport" /\ parts' = parts \ {"socket"}
        /\ UNCHANGED <<members, peer>>
  /\ UNCHANGED <<thread, ClientVars>>

(* Mutant: io4edge_transport_new does not free what it allocated.          *)
TransportFreeNot == /\ phase = "free_transport"
                    /\ phase' = "errexit"
                    /\ UNCHANGED <<parts, members, thread, peer, ClientVars>>

TransportFree == /\ phase = "free_transport"
                 /\ phase' = "errexit" /\ parts' = parts \ {"transport"}
                 /\ UNCHANGED <<members, thread, peer, ClientVars>>

StreamqNew == Acquire("streamq", "streamq", "msg", "errexit")

(* Likewise h->streamq, once the slots are allocated.                      *)
StreamqMsg ==
  /\ phase = "msg"
  /\ \/ /\ phase' = "thread" /\ parts' = parts \cup {"msg"}
        /\ members' = members \cup {"streamq"}
     \/ phase' = "errexit" /\ parts' = parts \ {"streamq"} /\ UNCHANGED members
  /\ UNCHANGED <<thread, peer, ClientVars>>

CreateThread == /\ phase = "thread"
                /\ \/ phase' = "ready" /\ thread' = "running"
                   \/ phase' = "errexit" /\ UNCHANGED thread
                /\ UNCHANGED <<parts, members, peer, ClientVars>>

(* What the two free: nothing, where the member is NULL.                   *)
destroy == IF "transport" \in members THEN TransportParts ELSE {}
io4e_streamq_delete == IF "streamq" \in members THEN QueueParts ELSE {}

(* close ends the connection with the transport.                           *)
Closed == peer' = IF "socket" \in parts' THEN peer ELSE "gone"

ErrExit == /\ phase = "errexit"
           /\ phase' = "none"
           /\ parts' = parts \ (destroy \cup io4e_streamq_delete \cup {"client"})
           /\ members' = {}
           /\ Closed
           /\ UNCHANGED <<thread, ClientVars>>

New == \/ CallocClient \/ TransportNew \/ TransportSocket \/ TransportConnect \/ TransportFree
       \/ StreamqNew \/ StreamqMsg \/ CreateThread \/ ErrExit

-----------------------------------------------------------------------------
(* The client at work, as in FunctionblockClient. *)
Device == /\ peer = "up"
          /\ DeviceAnswers \/ DeviceStreams
          /\ UNCHANGED lifecycle

(* The device, or the network, ends the connection: what has not arrived   *)
(* by then never does.  What the client writes from now on goes nowhere,   *)
(* or its write fails; read_msg fails at once each time it is called.      *)
DeviceEnds == /\ peer = "up"
              /\ peer' = "gone"
              /\ \E n \in 0 .. Len(inbox) : inbox' = SubSeq(inbox, 1, n)
              /\ UNCHANGED <<phase, parts, members, thread, vars, device, fifo, lost, popped>>

ReadThread == /\ thread \in {"running", "cancelling"}
              /\ \/ ReceiveResponse \/ DropResponse \/ ReceiveStream \/ DropStream
                 \/ PushStream \/ PushReturns \/ HandleResponse
              /\ UNCHANGED lifecycle

(* A signal that the application handles falls on read_thread. *)
Interrupted == /\ thread \in {"running", "cancelling"}
               /\ PushInterrupted
               /\ UNCHANGED lifecycle

Application == /\ phase = "ready"
               /\ \/ \E a \in Apps : ReadStream(a) \/ PopStream(a) \/ ReadReturns(a)
                  \/ \E c \in Callers : Issue(c)
               /\ UNCHANGED lifecycle

-----------------------------------------------------------------------------
Calling == \/ \E c \in Callers : pc[c] # "idle"
           \/ \E a \in Apps : op[a] # "idle"

Delete == /\ phase = "ready"
          /\ phase' = "join"
          /\ thread' = "cancelling"
          /\ UNCHANGED <<parts, members, peer, ClientVars>>

(* Mutant: only the wait for a message is a cancellation point. *)
CancellationPointReading == op[Reader] = "idle" /\ rpc = "read"

(* A cancellation is deferred to where the thread waits or logs: select    *)
(* and read in read_msg, sem_timedwait in io4e_streamq_push, the warning   *)
(* that a response is already set.  What the thread has in hand is lost.   *)
CancellationPoint == \/ op[Reader] = "idle" /\ rpc \in {"read", "free"}
                     \/ op[Reader] = "push"

Cancelled == /\ thread = "cancelling" /\ CancellationPoint
             /\ thread' = "ended"
             /\ UNCHANGED <<phase, parts, members, peer, ClientVars>>

(* Mutant: delete does not wait for the thread to end. *)
JoinNot == /\ phase = "join"
           /\ phase' = "streamq_delete"
           /\ UNCHANGED <<parts, members, thread, peer, ClientVars>>

Join == /\ phase = "join"
        /\ thread = "ended" \/ rpc = "exited"
        /\ phase' = "streamq_delete"
        /\ thread' = "none"
        /\ UNCHANGED <<parts, members, peer, ClientVars>>

StreamqDelete == /\ phase = "streamq_delete"
                 /\ phase' = "destroy"
                 /\ parts' = parts \ io4e_streamq_delete /\ members' = members \ {"streamq"}
                 /\ UNCHANGED <<thread, peer, ClientVars>>

Destroy == /\ phase = "destroy"
           /\ phase' = "free"
           /\ parts' = parts \ destroy /\ members' = members \ {"transport"}
           /\ Closed
           /\ UNCHANGED <<thread, ClientVars>>

FreeClient == /\ phase = "free"
              /\ phase' = "deleted" /\ parts' = parts \ {"client"}
              /\ UNCHANGED <<members, thread, peer, ClientVars>>

DeleteSteps == Join \/ StreamqDelete \/ Destroy \/ FreeClient

LifeNext == \/ New \/ Device \/ DeviceEnds \/ ReadThread \/ Interrupted \/ Application
            \/ (~Calling /\ Delete) \/ Cancelled \/ DeleteSteps

LifeVars == <<lifecycle, ClientVars>>
LifeSpec == LifeInit /\ [][LifeNext]_LifeVars

(* The threads run, and read_thread passes no cancellation point for ever  *)
(* once it is cancelled; nobody has to read the stream and the device may  *)
(* be silent.                                                              *)
LifeFairness == /\ WF_LifeVars(ReadThread) /\ SF_LifeVars(Cancelled)
                /\ WF_LifeVars(DeleteSteps)
LifeFairSpec == LifeSpec /\ LifeFairness

-----------------------------------------------------------------------------
(* What read_thread and the calls of the application work with exists as   *)
(* long as they do: delete frees nothing under a running thread.           *)
NoUseAfterFree == thread # "none" \/ Calling => parts = AllParts

(* A creation that fails at any of its steps leaves nothing behind, and a  *)
(* deletion neither, although they only free what a member refers to; and  *)
(* whatever a member refers to is there to be freed, and not freed before  *)
(* by the function that was to set it.                                     *)
AllOrNothing == /\ phase \in {"none", "deleted"} => parts = {}
                /\ destroy \cup io4e_streamq_delete \subseteq parts

(* Unless a command timed out, delete leaves no response behind, wherever  *)
(* it cancels read_thread: all that were read have been freed.             *)
DeletedInStep == phase = "deleted" /\ timeouts = 0 => 1 .. received \subseteq freed

(* What reached the client is in order and has no gap but for what was     *)
(* lost in it, wherever the device ended the connection: only messages     *)
(* younger than all of it can be missing.                                  *)
StreamUnbroken ==
  /\ \A i, j \in DOMAIN FromDevice : i < j => FromDevice[i] < FromDevice[j]
  /\ \A i \in DOMAIN FromDevice : \A n \in 1 .. FromDevice[i] :
       n \in lost \/ \E j \in DOMAIN FromDevice : FromDevice[j] = n

(* Delete returns, also while the queue is full and read_thread waits for  *)
(* ever to push to it.                                                     *)
DeleteReturns == phase = "join" ~> phase = "deleted"
=============================================================================
