------------------------------ MODULE Examples ------------------------------
(***************************************************************************)
(* The example programs of src/examples around the client: what their main *)
(* calls one after the other, the second thread that binaryiotypea starts, *)
(* cancels and joins, and the loop of reconnect that creates a new client  *)
(* whenever a session is over.  A program returns 1 at the first call that *)
(* fails.  The device may be slow, refuse, end a connection or not be      *)
(* there at all; it streams once it has answered the start of the stream.  *)
(***************************************************************************)
EXTENDS ClientLifecycle

CONSTANTS Main,       \* the thread that runs main
          Stim,       \* stim_thread of binaryiotypea
          Rounds      \* bound: how often a loop over calls is run

ASSUME ExamplesAssumption == /\ Main # Stim /\ Callers = {Main, Stim} /\ Apps = {Main}
                             /\ Rounds \in Nat \ {0}

VARIABLES program,    \* the example that runs
          at,         \* its statement, 0 after a call of a session failed
          process,    \* running, succeeded, failed (return 1) or killed
          stim,       \* stim_thread: none, running, cancelling or ended
          disturbed   \* history: the client was disturbed or its queue overrun

example == <<program, at, process, stim, disturbed>>
exvars  == <<example, LifeVars>>

-----------------------------------------------------------------------------
(* The programs between new and delete.  A statement is named for the call *)
(* of the function block API that it comes down to, or for what it does    *)
(* with the second thread.                                                 *)
Repeat(statements) == [i \in 1 .. Rounds * Len(statements) |->
                         statements[((i - 1) % Len(statements)) + 1]]
Reads == Repeat(<<"read">>)

analogintypea  == <<"upload", "download", "start">> \o Repeat(<<"control">>) \o Reads
binaryiotypea  == <<"upload", "download", "control", "control", "spawn", "start">>
                    \o Repeat(<<"control", "control">>) \o Reads \o <<"cancel", "join">>
config         == <<"upload", "download">>
send           == Repeat(<<"control">>)
dumpstream     == <<"start", "read">>   \* the read is repeated for ever
mvbsniffer     == <<"control", "start">> \o Reads
handle_session == <<"control", "start">> \o Reads

Text == [analogintypea |-> analogintypea, binaryiotypea |-> binaryiotypea, config |-> config,
         send |-> send, dumpstream |-> dumpstream, mvbsniffer |-> mvbsniffer,
         reconnect |-> handle_session]

Commands == {"upload", "download", "control", "start"}
Responds == {"download", "control"}   \* those that pass a res_p
Length == Len(Text[program])
Does(statements) == /\ process = "running" /\ phase = "ready"
                    /\ at \in 1 .. Length /\ Text[program][at] \in statements

ExInit == /\ LifeInit
          /\ program \in DOMAIN Text
          /\ at = 1 /\ process = "running" /\ stim = "none" /\ disturbed = FALSE

-----------------------------------------------------------------------------
(* A statement is done: go on, or return 1 (from main, or from             *)
(* handle_session, whereupon reconnect deletes the client).                *)
Proceed(ok) ==
  /\ at' = CASE ~ok -> 0
             [] ok /\ program = "dumpstream" /\ at = Length -> at
             [] OTHER -> at + 1
  /\ process' = IF ok \/ program = "reconnect" THEN process ELSE "failed"

(* Mutant: reconnect returns as well when new fails. *)
CreateOnce == /\ process = "running" /\ New
              /\ process' = IF phase = "errexit" THEN "failed" ELSE process
              /\ UNCHANGED <<program, at, stim>>

(* new; when it fails main returns 1, and reconnect calls new again.       *)
Create == /\ process = "running" /\ New
          /\ process' = IF phase = "errexit" /\ program # "reconnect" THEN "failed" ELSE process
          /\ UNCHANGED <<program, at, stim>>

Calls(statements) == /\ Does(statements) /\ UNCHANGED <<lifecycle, program, stim>>
IssueCommand ==
  /\ Calls(Commands) /\ Issue(Main)
  /\ want'[Main] = (Text[program][at] \in Responds)
  /\ IF pc'[Main] = "idle" THEN Proceed(ret'[Main].code = "OK") ELSE UNCHANGED <<at, process>>

Read == /\ Calls({"read"})
        /\ \/ (ReadStream(Main) \/ PopStream(Main)) /\ UNCHANGED <<at, process>>
           \/ ReadReturns(Main) /\ Proceed(op[Main] = "popped")

Spawn == /\ Does({"spawn"}) /\ Proceed(TRUE)
         /\ stim' = "running"
         /\ UNCHANGED <<program, LifeVars>>

CancelStim == /\ Does({"cancel"}) /\ Proceed(TRUE)
              /\ stim' = IF stim = "running" THEN "cancelling" ELSE stim
              /\ UNCHANGED <<program, LifeVars>>

(* Mutant: main does not wait for the thread. *)
JoinStimNot == Does({"join"}) /\ Proceed(TRUE) /\ UNCHANGED <<program, stim, LifeVars>>

JoinStim == /\ Does({"join"}) /\ stim = "ended" /\ Proceed(TRUE)
            /\ UNCHANGED <<program, stim, LifeVars>>

(* delete, and what comes after it: return 0, or the next session.         *)
Finish == /\ process = "running"
          /\ (at \notin 1 .. Length /\ Delete) \/ DeleteSteps
          /\ at' = IF phase' = "deleted" THEN 1 ELSE at
          /\ process' = IF phase' = "deleted" /\ program # "reconnect" THEN "succeeded" ELSE process
          /\ UNCHANGED <<program, stim>>

MainStep == Create \/ IssueCommand \/ Read \/ Spawn \/ CancelStim \/ JoinStim \/ Finish

-----------------------------------------------------------------------------
(* stim_thread: commands with a pause after each, until one fails.  It     *)
(* leaves to main the commands that main has still to issue.               *)
CommandsLeft == Cardinality({i \in at .. Length : Text[program][i] \in Commands})

StimStep ==
  /\ process = "running" /\ stim \in {"running", "cancelling"}
  /\ pc[Stim] = "idle" => calls + CommandsLeft < MaxCommands
  /\ Issue(Stim) /\ want'[Stim]
  /\ stim' = IF pc[Stim] # "idle" /\ pc'[Stim] = "idle" /\ ret'[Stim].code # "OK"
             THEN "ended" ELSE stim
  /\ UNCHANGED <<lifecycle, program, at, process>>

(* It is cancelled in the pause, or inside command(): in write, in         *)
(* sem_timedwait or where a failure is logged.  cmd_mutex stays locked.    *)
StimCancelled == /\ process = "running" /\ stim = "cancelling"
                 /\ pc[Stim] \in {"idle", "write", "wait", "check"}
                 /\ stim' = "ended"
                 /\ pc' = [pc EXCEPT ![Stim] = "idle"]
                 /\ UNCHANGED <<shared, want, res, ret, reader, wire, freed, bounds, history,
                                stream, lifecycle, program, at, process>>

-----------------------------------------------------------------------------
Others == process = "running" /\ UNCHANGED <<program, at, process, stim>>

(* The stream starts when the device has answered the start.               *)
Streaming == \E i \in 1 .. at :
  /\ i <= Length /\ Text[program][i] = "start"
  /\ i < at \/ (pc[Main] \in {"wait", "take", "clear", "check"} /\ answered = Len(sent))

Answer == Device /\ answered' # answered /\ Others
Stream == Device /\ streamed' # streamed /\ Streaming /\ Others
Disconnect == DeviceEnds /\ Others
ReaderStep == ReadThread /\ Others
ReaderCancelled == Cancelled /\ Others

(* write() to a connection that was reset raises SIGPIPE, which no example *)
(* handles or ignores.                                                     *)
Sigpipe == /\ process = "running" /\ peer = "gone"
           /\ \E c \in Callers : At(c, "write")
           /\ process' = "killed"
           /\ UNCHANGED <<program, at, stim, LifeVars>>

(* read_thread cannot go on by itself: it waits for a slot of a full       *)
(* queue, or it has given up.                                              *)
Stuck == (op[Reader] = "push" /\ Len(queue) = Capacity) \/ rpc = "exited"

(* A wait times out although what it is for has arrived, and only because  *)
(* read_thread is stuck: nobody is to blame but the program.               *)
OwnFault == Stuck /\ \/ timeouts' > timeouts /\ answered = Len(sent)
                     \/ timeouts' = timeouts /\ inbox # <<>>

(* What goes wrong outside the program: the connection ends or cannot be   *)
(* made, memory is short, a write fails, the device reports an error or is *)
(* not heard of in time, or sends what cannot be unpacked.                 *)
TimesOut == timeouts' > timeouts \/ (op[Main] = "pop" /\ op'[Main] = "idle")
Disturbance ==
  \/ peer' = "gone" /\ peer = "up" /\ phase = phase'
  \/ phase' = "errexit" \/ (connected /\ ~connected')
  \/ TimesOut /\ ~OwnFault
  \/ (dropped' > dropped /\ rpc' # "exited") \/ lost' # lost
  \/ \E c \in Callers : ret'[c].code = "FB_ERROR"

(* The device streams more than the queue holds and the program has read,  *)
(* while commands are still to be answered: read_thread will be stuck      *)
(* before it reads their answers, unless the program reads the stream.     *)
Unread == streamed - Len(popped) - Cardinality(lost)
AnswersToCome ==
  \/ answered < Len(sent) \/ stim \in {"running", "cancelling"}
  \/ \E i \in at .. Length : /\ Text[program][i] \in Commands
                            /\ i = at => pc[Main] \in {"idle", "lock", "write"}
Overrun == streamed' > streamed /\ Unread' > Capacity /\ AnswersToCome

Recorded == disturbed' = IF phase' = "transport" THEN FALSE ELSE disturbed \/ Disturbance \/ Overrun

ExNext == /\ \/ MainStep \/ StimStep \/ StimCancelled
             \/ Answer \/ Stream \/ Disconnect \/ ReaderStep \/ ReaderCancelled \/ Sigpipe
          /\ Recorded

ExSpec == ExInit /\ [][ExNext]_exvars

(* A thread that can run does run, but a wait is sure to end in a timeout  *)
(* only where read_thread has nothing left to do for it: the seconds that  *)
(* a call waits are long for a thread that can run.  The device, the       *)
(* network and the signal are free to do nothing.                          *)
ReaderWaits == Stuck \/ (op[Reader] = "idle" /\ rpc = "read" /\ inbox = <<>>)
InTime == TimesOut => ReaderWaits

ExFairness == /\ WF_exvars(MainStep /\ InTime /\ Recorded)
              /\ WF_exvars(StimStep /\ InTime /\ Recorded) /\ WF_exvars(StimCancelled /\ Recorded)
              /\ WF_exvars(ReaderStep /\ Recorded) /\ SF_exvars(ReaderCancelled /\ Recorded)
ExFairSpec == ExSpec /\ ExFairness

(* A device that answers and streams sooner or later. *)
Responsive == WF_exvars(Answer /\ Recorded) /\ WF_exvars(Stream /\ Recorded)

-----------------------------------------------------------------------------
Over == process # "running" \/ ~Alive

(* Whatever the device and the network do, no program hangs in a call: each*)
(* comes to its end, reconnect is between two clients again and again, and *)
(* dumpstream, which goes on as long as the device streams, is again and   *)
(* again between two reads.                                                *)
BetweenReads == program = "dumpstream" /\ at = Length /\ op[Main] = "idle"
NeverHangs == []<>(Over \/ phase \in {"none", "deleted"} \/ BetweenReads)

(* A program that nothing disturbs, and whose queue the device does not    *)
(* overrun while it is to answer commands, does all that it has to (which  *)
(* is to get to reading, for dumpstream), and no call of either of its     *)
(* threads fails.                                                          *)
NoCallFailed == \A c \in Callers : ret[c].code \in {"none", "OK"}
Completes == Responsive => <>(\/ NoCallFailed /\ (process = "succeeded" \/ BetweenReads)
                              \/ disturbed \/ program = "reconnect")

(* reconnect recovers: whatever happened to its sessions before, its       *)
(* sessions succeed from then on unless they are disturbed again and again.*)
DisturbedAgain == []<>disturbed /\ []<>~disturbed
Recovers == program = "reconnect" /\ Responsive =>
              []<>(at > Length \/ process = "killed") \/ DisturbedAgain

(* binaryiotypea cancels its second thread wherever it is, also between the*)
(* lock and the unlock of command(): then nobody is in a call that would   *)
(* have to wait for cmd_mutex for ever.                                    *)
NobodyLockedOut == stim = "ended" /\ cmd_mutex = Stim => ~Calling

(* examples/mvbsniffer/README.md:14 says that reconnect handles a          *)
(* connection loss (refuted: SIGPIPE ends it).                             *)
KeepsRunning == program = "reconnect" => process = "running"
=============================================================================
