-------------------------- MODULE Examples_proofs --------------------------
(***************************************************************************)
(* Proofs that the examples use the client as its life cycle assumes: they *)
(* delete it when none of their calls is under way, so that what is proved *)
(* of the life cycle holds of them.  binaryiotypea goes beyond it where it *)
(* cancels its second thread in the middle of a command, which leaves      *)
(* cmd_mutex locked for ever; the proofs show that this harms nobody.      *)
(***************************************************************************)
EXTENDS Examples, ClientLifecycle_proofs

-----------------------------------------------------------------------------
(* What the programs consist of, however often their loops are run.        *)
LEMMA RepeatIsSeq ==
  ASSUME NEW S, NEW s \in Seq(S), s # <<>>
  PROVE  Repeat(s) \in Seq(S)
<1>1. Len(s) \in Nat \ {0} /\ Rounds \in Nat /\ \A i \in 1 .. Len(s) : s[i] \in S
  BY ElementOfSeq, EmptySeq, LenProperties, ExamplesAssumption
<1>2. PICK m \in Nat : m = Rounds * Len(s)
  BY <1>1
<1>3. ASSUME NEW i \in 1 .. m PROVE s[((i - 1) % Len(s)) + 1] \in S
  <2>1. (i - 1) % Len(s) \in 0 .. Len(s) - 1
    BY <1>1
  <2> QED
    BY <1>1, <2>1
<1>4. [i \in 1 .. m |-> s[((i - 1) % Len(s)) + 1]] \in Seq(S)
  BY <1>2, <1>3
<1> QED
  BY <1>2, <1>4 DEF Repeat

(* binaryiotypea alone has to do with a second thread: it cancels it with  *)
(* its last statement but one, and joins it with the last.                 *)
Ordinary == Commands \cup {"read"}
Ahead == Ordinary \cup {"spawn"}

LEMMA TextOfOthers ==
  ASSUME NEW p \in DOMAIN Text, p # "binaryiotypea"
  PROVE  Text[p] \in Seq(Ordinary)
<1> USE DEF Ordinary, Commands
<1>1. <<"read">> \in Seq(Ordinary) /\ <<"control">> \in Seq(Ordinary)
      /\ <<"read">> # <<>> /\ <<"control">> # <<>>
  OBVIOUS
<1>2. Reads \in Seq(Ordinary) /\ Repeat(<<"control">>) \in Seq(Ordinary)
  BY <1>1, RepeatIsSeq DEF Reads
<1>3. /\ <<"upload", "download", "start">> \in Seq(Ordinary) /\ <<"upload", "download">> \in Seq(Ordinary)
      /\ <<"start", "read">> \in Seq(Ordinary) /\ <<"control", "start">> \in Seq(Ordinary)
  OBVIOUS
<1>4. analogintypea \in Seq(Ordinary) /\ mvbsniffer \in Seq(Ordinary) /\ handle_session \in Seq(Ordinary)
  BY <1>2, <1>3, ConcatProperties DEF analogintypea, mvbsniffer, handle_session
<1>5. config \in Seq(Ordinary) /\ send \in Seq(Ordinary) /\ dumpstream \in Seq(Ordinary)
  BY <1>2, <1>3 DEF config, send, dumpstream
<1>6. \/ Text[p] = analogintypea \/ Text[p] = mvbsniffer \/ Text[p] = handle_session
      \/ Text[p] = config \/ Text[p] = send \/ Text[p] = dumpstream
  BY DEF Text
<1> QED
  BY <1>4, <1>5, <1>6

LEMMA TextOfBinaryiotypea ==
  \E n \in Nat : /\ Len(binaryiotypea) = n + 2
                 /\ \A i \in 1 .. n : binaryiotypea[i] \in Ahead
                 /\ binaryiotypea[n + 1] = "cancel" /\ binaryiotypea[n + 2] = "join"
<1> DEFINE S == Ahead \cup {"cancel", "join"}
           first == <<"upload", "download", "control", "control", "spawn", "start">>
           loop == Repeat(<<"control", "control">>)
           last == <<"cancel", "join">>
<1>1. first \in Seq(Ahead) /\ <<"control", "control">> \in Seq(Ahead) /\ <<"read">> \in Seq(Ahead)
  BY DEF Ahead, Ordinary, Commands
<1>2. loop \in Seq(Ahead) /\ Reads \in Seq(Ahead)
  <2>1. <<"control", "control">> # <<>> /\ <<"read">> # <<>>
    OBVIOUS
  <2> QED
    BY <1>1, <2>1, RepeatIsSeq DEF Reads
<1>3. last \in Seq(S) /\ Len(last) = 2 /\ last[1] = "cancel" /\ last[2] = "join"
  OBVIOUS
<1> HIDE DEF first, loop, last, S
<1>4. PICK front \in Seq(Ahead) : front = first \o loop \o Reads
  BY <1>1, <1>2, ConcatProperties
<1>5. binaryiotypea = front \o last
  BY <1>4 DEF binaryiotypea, first, loop, last
<1>6. Len(front) \in Nat /\ front \in Seq(S) /\ \A i \in 1 .. Len(front) : front[i] \in Ahead
  BY ElementOfSeq, LenProperties, SeqMonotonic DEF S
<1>7. /\ Len(front \o last) = Len(front) + 2
      /\ \A i \in 1 .. Len(front) + 2 :
           (front \o last)[i] = IF i <= Len(front) THEN front[i] ELSE last[i - Len(front)]
  <2>1. /\ Len(front \o last) = Len(front) + Len(last)
        /\ \A i \in 1 .. Len(front) + Len(last) :
             (front \o last)[i] = IF i <= Len(front) THEN front[i] ELSE last[i - Len(front)]
    BY <1>3, <1>6, ConcatProperties
  <2> QED
    BY <1>3, <2>1
<1> QED
  BY <1>3, <1>5, <1>6, <1>7

(* The same of the program that runs. *)
LEMMA Statements ==
  ASSUME program \in DOMAIN Text
  PROVE  /\ Length \in Nat
         /\ program # "binaryiotypea" => \A i \in 1 .. Length : Text[program][i] \in Ordinary
         /\ program = "binaryiotypea" => \A i \in 1 .. Length :
              /\ Text[program][i] = "cancel" <=> i = Length - 1
              /\ Text[program][i] = "join" <=> i = Length
              /\ Text[program][i] \in Ahead \cup {"cancel", "join"}
<1>1. CASE program # "binaryiotypea"
  <2>1. Text[program] \in Seq(Ordinary)
    BY <1>1, TextOfOthers
  <2> QED
    BY <1>1, <2>1, ElementOfSeq, LenProperties DEF Length
<1>2. CASE program = "binaryiotypea"
  <2>1. Text[program] = binaryiotypea
    BY <1>2 DEF Text
  <2>2. PICK n \in Nat : /\ Len(binaryiotypea) = n + 2
                         /\ \A i \in 1 .. n : binaryiotypea[i] \in Ahead
                         /\ binaryiotypea[n + 1] = "cancel" /\ binaryiotypea[n + 2] = "join"
    BY TextOfBinaryiotypea
  <2>3. \A i \in 1 .. n + 2 : i \in 1 .. n \/ i = n + 1 \/ i = n + 2
    BY <2>2
  <2>4. "cancel" \notin Ahead /\ "join" \notin Ahead
    BY DEF Ahead, Ordinary, Commands
  <2> QED
    BY <1>2, <2>1, <2>2, <2>3, <2>4 DEF Length
<1> QED
  BY <1>1, <1>2

-----------------------------------------------------------------------------
StimLive == stim \in {"running", "cancelling"}

(* The second thread was cancelled between the lock and the unlock of      *)
(* command(): cmd_mutex is locked for ever.                                *)
Abandoned == stim = "ended" /\ cmd_mutex = Stim

AtOK == program \in DOMAIN Text /\ at \in 0 .. Length + 1

(* The second thread issues commands as long as it lives, and main outlives*)
(* it: it is at a statement between those that start and join it.          *)
StimOK ==
  /\ stim # "none" => program = "binaryiotypea"
  /\ StimLive /\ process = "running" => phase = "ready" /\ at \in 1 .. Length
  /\ stim = "cancelling" /\ process = "running" => at = Length
  /\ pc[Stim] # "idle" => StimLive

(* main is in a call only at a statement that is this call; and a client is*)
(* created at the first statement, where there is no second thread yet.    *)
MainOK == process = "running" =>
  /\ pc[Main] # "idle" => Does(Commands)
  /\ op[Main] # "idle" => Does({"read"})
  /\ phase \notin {"ready", "join", "streamq_delete", "destroy", "free"} => at = 1 /\ stim = "none"

(* When cmd_mutex is abandoned main is past its last command, and nobody   *)
(* is in a call.                                                           *)
LockedOK == Abandoned => /\ pc[Main] = "idle" /\ pc[Stim] = "idle" /\ op[Main] = "idle"
                         /\ process = "running" => at >= Length

ProgramOK == AtOK /\ StimOK /\ MainOK /\ LockedOK

(* The inductive invariant: commands follow the protocol until then.       *)
ExInv == /\ LifeInv /\ ProgramOK /\ OwnResponse
         /\ Abandoned \/ (IInv /\ OwnInv)

LEMMA InitExamples == ExInit => ExInv
<1> SUFFICES ASSUME ExInit PROVE ExInv
  OBVIOUS
<1>1. /\ pc = [c \in Callers |-> "idle"] /\ op = [t \in Apps \cup {Reader} |-> "idle"]
      /\ Init /\ phase = "none" /\ stim = "none" /\ at = 1 /\ program \in DOMAIN Text
  BY DEF ExInit, LifeInit, ClientInit, Init, Q!Init, Q!Threads
<1>2. ProgramOK
  BY <1>1, Statements, ExamplesAssumption
     DEF ProgramOK, AtOK, StimOK, MainOK, LockedOK, StimLive, Abandoned
<1>3. IInv /\ OwnInv /\ OwnResponse
  BY <1>1, InitInv, InitOwn DEF IInv
<1> QED
  BY <1>2, <1>3, InitOK DEF ExInit, ExInv

(* A step of command() is one caller's.                                    *)
LEMMA OneCaller ==
  ASSUME TypeOK, NEW c \in Callers, Issue(c)
  PROVE  /\ Alive /\ op' = op
         /\ \A d \in Callers : d # c => pc'[d] = pc[d]
         /\ cmd_mutex' \in {cmd_mutex, c, NULL}
<1>1. Alive /\ Command(c) /\ op' = op
  BY DEF Issue, Command, Call, Begin, Write, WriteFails, Wait, Timeout, Take, Clear, NoResponse,
         Mismatch, Match, Settle, Crash, Release, Goto, At, stream, fifo
<1>2. \E s : pc' = [pc EXCEPT ![c] = s]
  BY <1>1 DEF Command, Call, Begin, Write, WriteFails, Wait, Timeout, Take, Clear, NoResponse,
              Mismatch, Match, Settle, Crash, Release, Goto, Return
<1>3. cmd_mutex' \in {cmd_mutex, c, NULL}
  BY <1>1 DEF Command, Call, Begin, Write, WriteFails, Wait, Timeout, Take, Clear, NoResponse,
              Mismatch, Match, Settle, Crash, Release, Return, shared
<1> QED
  BY <1>1, <1>2, <1>3 DEF TypeOK

(* main issues no command that it cannot get the lock for.                 *)
LEMMA NotAbandoned ==
  ASSUME ExInv, Does(Ahead \ {"join"}) \/ (process = "running" /\ StimLive)
  PROVE  ~Abandoned
<1> SUFFICES ASSUME Abandoned, Does(Ahead \ {"join"}) PROVE FALSE
  BY DEF Abandoned, StimLive
<1>1. program = "binaryiotypea" /\ at \in 1 .. Length /\ at >= Length /\ Length \in Nat
  BY Statements DEF ExInv, ProgramOK, AtOK, StimOK, LockedOK, Abandoned, Does
<1>2. at = Length
  BY <1>1
<1>3. Text[program][at] = "join"
  BY <1>1, <1>2, Statements DEF ExInv, ProgramOK, AtOK
<1> QED
  BY <1>3 DEF Does

(* Past its last statement, or after a call that failed, main is in no     *)
(* call, and the second thread is not there any more.                      *)
LEMMA NobodyCalls ==
  ASSUME ExInv, process = "running", at \notin 1 .. Length
  PROVE  ~Calling
<1>1. pc[Main] = "idle" /\ op[Main] = "idle"
  BY DEF ExInv, ProgramOK, MainOK, Does
<1>2. pc[Stim] = "idle"
  BY DEF ExInv, ProgramOK, StimOK
<1> QED
  BY <1>1, <1>2, ExamplesAssumption DEF Calling

(* Whatever the examples do is a step of the life cycle, but for the       *)
(* cancellation of the second thread.                                      *)
LEMMA ExampleStep == ExInv /\ ExNext => LifeNext \/ UNCHANGED LifeVars \/ StimCancelled
<1> SUFFICES ASSUME ExInv, ExNext PROVE LifeNext \/ UNCHANGED LifeVars \/ StimCancelled
  OBVIOUS
<1>0. Main \in Callers /\ Stim \in Callers /\ Main \in Apps
  BY ExamplesAssumption
<1>1. CASE Create
  BY <1>1 DEF Create, LifeNext
<1>2. CASE IssueCommand
  BY <1>0, <1>2 DEF IssueCommand, Calls, Does, Application, LifeNext
<1>3. CASE Read
  BY <1>0, <1>3 DEF Read, Calls, Does, Application, LifeNext
<1>4. CASE Spawn \/ CancelStim \/ JoinStim \/ Sigpipe
  BY <1>4 DEF Spawn, CancelStim, JoinStim, Sigpipe
<1>5. CASE Finish
  BY <1>5, NobodyCalls DEF Finish, LifeNext
<1>6. CASE StimStep
  <2>1. phase = "ready"
    BY <1>6 DEF StimStep, ExInv, ProgramOK, StimOK, StimLive
  <2> QED
    BY <1>0, <1>6, <2>1 DEF StimStep, Application, LifeNext
<1>7. CASE Answer \/ Stream \/ Disconnect \/ ReaderStep \/ ReaderCancelled
  BY <1>7 DEF Answer, Stream, Disconnect, ReaderStep, ReaderCancelled, LifeNext
<1> QED
  BY <1>1, <1>2, <1>3, <1>4, <1>5, <1>6, <1>7 DEF ExNext, MainStep

(* What is not the program's doing leaves it and its calls alone.          *)
World == Answer \/ Stream \/ Disconnect \/ ReaderStep \/ ReaderCancelled \/ Sigpipe

LEMMA WorldProgram ==
  ASSUME ExInv, World
  PROVE  /\ AtOK' /\ StimOK' /\ MainOK'
         /\ UNCHANGED <<program, at, stim, cmd_mutex, pc, ret>> /\ op'[Main] = op[Main]
<1>1. UNCHANGED <<program, at, stim>> /\ process' \in {process, "killed"}
  BY DEF World, Answer, Stream, Disconnect, ReaderStep, ReaderCancelled, Sigpipe, Others
<1>2. UNCHANGED <<cmd_mutex, pc, ret, phase>> /\ op'[Main] = op[Main]
  <2>1. CASE ReaderStep
    <3>1. /\ UNCHANGED <<cmd_mutex, caller, lifecycle>>
          /\ op' = op \/ \E o : op' = [op EXCEPT ![Reader] = o]
      BY <2>1, ReaderAlone DEF ReaderStep
    <3>2. Main \in Apps /\ Main # Reader /\ op = [t \in Apps \cup {Reader} |-> op[t]]
      BY ExamplesAssumption, ClientAssumption DEF ExInv, LifeInv, CallsOK
    <3> QED
      BY <3>1, <3>2 DEF caller, lifecycle
  <2>2. CASE ~ReaderStep
    BY <2>2 DEF World, Answer, Stream, Disconnect, ReaderCancelled, Sigpipe, Device, DeviceAnswers,
                DeviceStreams, DeviceEnds, Cancelled, LifeVars, lifecycle, ClientVars, vars, shared,
                caller, stream, fifo
  <2> QED
    BY <2>1, <2>2
<1>3. Length' = Length
  BY <1>1 DEF Length
<1> QED
  BY <1>1, <1>2, <1>3 DEF ExInv, ProgramOK, AtOK, StimOK, MainOK, StimLive, Does

(* So commands follow the protocol, ...                                    *)
LEMMA ProtocolFollowed ==
  ExInv /\ ExNext /\ ~StimCancelled /\ ~Abandoned => LifeInv' /\ IInv' /\ OwnInv' /\ OwnResponse'
<1>1. LifeInv /\ [LifeNext]_LifeVars => LifeInv'
  BY NextOK
<1>2. IInv /\ OwnInv /\ [Next]_vars => IInv' /\ OwnInv'
  BY NextInv, NextOwn
<1>3. Init' => IInv' /\ OwnInv'
  <2>1. Init => IInv /\ OwnInv
    BY InitInv, InitOwn
  <2> QED
    BY <2>1, PTL
<1>4. IInv' => OwnResponse'
  BY DEF IInv
<1> QED
  BY <1>1, <1>2, <1>3, <1>4, ExampleStep, LifeSteps DEF ExInv

(* ... and when cmd_mutex is abandoned main joins the thread and deletes   *)
(* the client, and nobody does anything with the lock any more.            *)
LEMMA AbandonedSteps ==
  ASSUME ExInv, Abandoned, ExNext
  PROVE  JoinStim \/ Finish \/ World
<1>1. /\ program = "binaryiotypea" /\ stim = "ended" /\ cmd_mutex = Stim
      /\ pc[Main] = "idle" /\ pc[Stim] = "idle" /\ op[Main] = "idle"
      /\ process = "running" => at >= Length
  BY DEF ExInv, ProgramOK, StimOK, LockedOK, Abandoned
<1>2. at \in 0 .. Length + 1 /\ Length \in Nat
  BY Statements DEF ExInv, ProgramOK, AtOK
<1>3. ~Does(Ahead \ {"join"}) /\ ~Does({"cancel"})
  <2>1. ~Does(Ahead \ {"join"})
    BY NotAbandoned
  <2>2. at \in 1 .. Length /\ at = Length => Text[program][at] # "cancel"
    BY <1>1, <1>2, Statements DEF ExInv, ProgramOK, AtOK
  <2> QED
    BY <1>1, <1>2, <2>1, <2>2 DEF Does
<1>4. ~Create
  <2>1. ASSUME New PROVE phase \notin {"ready", "join", "streamq_delete", "destroy", "free"}
    BY <2>1 DEF New, CallocClient, TransportNew, TransportSocket, TransportConnect, TransportFree,
                StreamqNew, StreamqMsg, Acquire, CreateThread, ErrExit
  <2> QED
    BY <1>1, <2>1 DEF Create, ExInv, ProgramOK, MainOK
<1>5. ~IssueCommand /\ ~Read /\ ~Spawn /\ ~CancelStim /\ ~StimStep /\ ~StimCancelled
  BY <1>1, <1>3 DEF IssueCommand, Read, Calls, Spawn, CancelStim, StimStep, StimCancelled, Does, Ahead,
                    Ordinary, Commands
<1> QED
  BY <1>4, <1>5 DEF ExNext, MainStep, World

LEMMA AbandonedStays ==
  ASSUME ExInv, Abandoned, ExNext
  PROVE  /\ UNCHANGED <<cmd_mutex, ret, pc, stim, program>>
         /\ process' = "running" => at' >= Length
         /\ op'[Main] = "idle"
<1>1. /\ program = "binaryiotypea" /\ op[Main] = "idle"
      /\ process = "running" => at >= Length
  BY DEF ExInv, ProgramOK, StimOK, LockedOK, Abandoned
<1>2. at \in 0 .. Length + 1 /\ Length \in Nat
  BY Statements DEF ExInv, ProgramOK, AtOK
<1>3. CASE JoinStim
  <2>1. UNCHANGED <<cmd_mutex, ret, pc, stim, op, program>>
    BY <1>3 DEF JoinStim, LifeVars, ClientVars, vars, shared, caller, stream, fifo
  <2>2. Length' = Length /\ at' = at + 1
    BY <1>1, <1>3 DEF JoinStim, Proceed, Length
  <2> QED
    BY <1>1, <1>2, <1>3, <2>1, <2>2 DEF JoinStim, Does
<1>4. CASE Finish
  <2>1. UNCHANGED <<cmd_mutex, ret, pc, stim, op, program>>
    BY <1>4 DEF Finish, Delete, DeleteSteps, Join, StreamqDelete, Destroy, FreeClient, ClientVars, vars,
                shared, caller, stream, fifo
  <2>2. process = "running" /\ (process' = "running" => at' = at)
    BY <1>1, <1>4 DEF Finish
  <2> QED
    BY <1>1, <2>1, <2>2 DEF Length
<1>5. CASE World
  <2>1. process = "running"
    BY <1>5 DEF World, Answer, Stream, Disconnect, ReaderStep, ReaderCancelled, Sigpipe, Others
  <2> QED
    BY <1>1, <1>5, <2>1, WorldProgram DEF Length
<1> QED
  BY <1>3, <1>4, <1>5, AbandonedSteps

(* The steps of main, of the second thread and of the rest of the world,   *)
(* one by one.                                                             *)
LEMMA CreateProgram ==
  ASSUME ExInv, Create
  PROVE  AtOK' /\ StimOK' /\ MainOK'
<1>1. phase \notin {"ready", "join", "streamq_delete", "destroy", "free"} /\ process = "running"
  BY DEF Create, New, CallocClient, TransportNew, TransportSocket, TransportConnect, TransportFree,
         StreamqNew, StreamqMsg, Acquire, CreateThread, ErrExit
<1>2. at = 1 /\ stim = "none" /\ pc[Main] = "idle" /\ pc[Stim] = "idle" /\ op[Main] = "idle"
  BY <1>1 DEF ExInv, ProgramOK, MainOK, StimOK, StimLive, Does
<1>3. pc'[Main] = "idle" /\ pc'[Stim] = "idle" /\ op'[Main] = "idle"
  <2>1. CASE CallocClient
    BY <2>1, ExamplesAssumption DEF CallocClient, Fresh
  <2>2. CASE ~CallocClient
    <3>1. pc' = pc /\ op' = op
      BY <2>2 DEF Create, New, TransportNew, TransportSocket, TransportConnect, TransportFree,
                  StreamqNew, StreamqMsg, Acquire, CreateThread, ErrExit, ClientVars, vars, caller, stream, fifo
    <3> QED
      BY <1>2, <3>1
  <2> QED
    BY <2>1, <2>2
<1>4. program' = program /\ at' = 1 /\ stim' = "none"
  BY <1>2 DEF Create
<1> QED
  BY <1>3, <1>4, Statements DEF ExInv, ProgramOK, AtOK, StimOK, MainOK, StimLive, Length

(* A call of main, under way or done.                                      *)
LEMMA CallsProgram ==
  ASSUME ExInv, NEW statements \in SUBSET Ordinary, Does(statements),
         UNCHANGED <<lifecycle, program, stim>>, pc'[Stim] = pc[Stim],
         \/ UNCHANGED <<at, process>>
         \/ \E ok \in BOOLEAN : Proceed(ok)
  PROVE  AtOK' /\ (process' = "running" => phase' = "ready") /\ StimOK'
<1>1. /\ program \in DOMAIN Text /\ at \in 1 .. Length /\ Length \in Nat /\ phase' = "ready"
      /\ Length' = Length /\ process = "running"
  BY Statements DEF ExInv, ProgramOK, AtOK, Does, lifecycle, Length
<1>2. program = "binaryiotypea" => at # Length
  BY <1>1, Statements DEF Does, Ordinary, Commands
<1>3. at' \in {at, 0, at + 1}
  BY DEF Proceed
<1>4. AtOK'
  BY <1>1, <1>3 DEF AtOK
<1>5. ASSUME StimLive', process' = "running"
      PROVE  at' \in 1 .. Length /\ stim # "cancelling"
  <2>1. program = "binaryiotypea" /\ stim # "cancelling"
    BY <1>1, <1>2, <1>5 DEF ExInv, ProgramOK, StimOK, StimLive
  <2>2. at' = at \/ at' = at + 1
    BY <1>5, <2>1 DEF Proceed
  <2> QED
    BY <1>1, <1>2, <2>1, <2>2
<1>6. StimOK'
  BY <1>1, <1>5 DEF ExInv, ProgramOK, StimOK, StimLive
<1> QED
  BY <1>1, <1>4, <1>6

LEMMA IssueProgram ==
  ASSUME ExInv, IssueCommand
  PROVE  AtOK' /\ StimOK' /\ MainOK'
<1>1. Does(Commands) /\ UNCHANGED <<lifecycle, program, stim>> /\ Issue(Main)
  BY DEF IssueCommand, Calls
<1>2. TypeOK
  BY <1>1, NotAbandoned DEF Does, Ahead, Ordinary, Commands, ExInv, IInv
<1>3. op' = op /\ pc'[Stim] = pc[Stim]
  BY <1>1, <1>2, OneCaller, ExamplesAssumption
<1>4. \/ pc'[Main] = "idle" /\ \E ok \in BOOLEAN : Proceed(ok)
      \/ pc'[Main] # "idle" /\ UNCHANGED <<at, process>>
  BY DEF IssueCommand
<1>5. AtOK' /\ StimOK' /\ (process' = "running" => phase' = "ready")
  BY <1>1, <1>3, <1>4, CallsProgram DEF Ordinary
<1>6. op[Main] = "idle"
  BY <1>1 DEF ExInv, ProgramOK, MainOK, Does, Commands
<1>7. UNCHANGED <<at, process>> => Does(Commands)'
  BY <1>1 DEF Does, lifecycle, Length
<1> QED
  BY <1>3, <1>4, <1>5, <1>6, <1>7 DEF MainOK

LEMMA ReadProgram ==
  ASSUME ExInv, Read
  PROVE  AtOK' /\ StimOK' /\ MainOK'
<1>1. Does({"read"}) /\ UNCHANGED <<lifecycle, program, stim>>
  BY DEF Read, Calls
<1>2. pc' = pc /\ (op' = op \/ \E s : op' = [op EXCEPT ![Main] = s])
  BY DEF Read, ReadStream, PopStream, ReadReturns, Q!Call, Q!Pop, Q!PopGivesUp, Q!Finish, Q!Move, vars,
         caller
<1>3. \/ op'[Main] = "idle" /\ \E ok \in BOOLEAN : Proceed(ok)
      \/ UNCHANGED <<at, process>>
  <2>1. ASSUME ReadReturns(Main), Proceed(op[Main] = "popped") PROVE <1>3!1
    <3>1. op' = [op EXCEPT ![Main] = "idle"]
      BY <2>1 DEF ReadReturns, Q!PopGivesUp, Q!Finish, Q!Move
    <3>2. Main \in DOMAIN op
      BY ExamplesAssumption DEF ExInv, LifeInv, CallsOK
    <3> QED
      BY <2>1, <3>1, <3>2
  <2> QED
    BY <2>1 DEF Read
<1>4. AtOK' /\ StimOK' /\ (process' = "running" => phase' = "ready")
  BY <1>1, <1>2, <1>3, CallsProgram DEF Ordinary
<1>5. pc[Main] = "idle"
  BY <1>1 DEF ExInv, ProgramOK, MainOK, Does, Commands
<1>6. UNCHANGED <<at, process>> => Does({"read"})'
  BY <1>1 DEF Does, lifecycle, Length
<1> QED
  BY <1>2, <1>3, <1>4, <1>5, <1>6 DEF MainOK

(* main starts, cancels and joins the second thread.                       *)
LEMMA ThreadProgram ==
  ASSUME ExInv, Spawn \/ CancelStim \/ JoinStim
  PROVE  AtOK' /\ StimOK' /\ MainOK'
<1> DEFINE st == Text[program][at]
<1>1. /\ process = "running" /\ phase = "ready" /\ at \in 1 .. Length /\ program \in DOMAIN Text
      /\ Length \in Nat /\ st \in {"spawn", "cancel", "join"}
  BY Statements DEF Spawn, CancelStim, JoinStim, Does, ExInv, ProgramOK, AtOK
<1>2. program = "binaryiotypea"
  BY <1>1, Statements DEF Ordinary, Commands
<1>3. at' = at + 1 /\ UNCHANGED <<program, process, LifeVars>>
  BY <1>2 DEF Spawn, CancelStim, JoinStim, Proceed
<1>4. UNCHANGED <<pc, op, phase>> /\ Length' = Length
  BY <1>3 DEF LifeVars, lifecycle, ClientVars, vars, caller, stream, fifo, Length
<1>5. pc[Main] = "idle" /\ op[Main] = "idle"
  BY <1>1 DEF ExInv, ProgramOK, MainOK, Does, Commands
<1>6. AtOK' /\ MainOK'
  BY <1>1, <1>3, <1>4, <1>5 DEF AtOK, MainOK
<1>7. CASE Spawn
  <2>1. st = "spawn" /\ stim' = "running"
    BY <1>7 DEF Spawn, Does
  <2>2. at # Length
    BY <1>1, <1>2, <2>1, Statements
  <2> QED
    BY <1>1, <1>2, <1>3, <1>4, <1>6, <2>1, <2>2 DEF ExInv, ProgramOK, StimOK, StimLive
<1>8. CASE CancelStim
  <2>1. st = "cancel" /\ stim' = IF stim = "running" THEN "cancelling" ELSE stim
    BY <1>8 DEF CancelStim, Does
  <2>2. at = Length - 1
    BY <1>1, <1>2, <2>1, Statements
  <2>3. stim # "cancelling"
    BY <1>1, <2>2 DEF ExInv, ProgramOK, StimOK
  <2> QED
    BY <1>1, <1>2, <1>3, <1>4, <1>6, <2>1, <2>2, <2>3 DEF ExInv, ProgramOK, StimOK, StimLive
<1>9. CASE JoinStim
  BY <1>1, <1>2, <1>3, <1>4, <1>6, <1>9 DEF JoinStim, ExInv, ProgramOK, StimOK, StimLive
<1> QED
  BY <1>7, <1>8, <1>9

LEMMA FinishProgram ==
  ASSUME ExInv, Finish
  PROVE  AtOK' /\ StimOK' /\ MainOK'
<1>1. /\ process = "running" /\ UNCHANGED <<program, stim, pc, op>>
      /\ at' = IF phase' = "deleted" THEN 1 ELSE at
      /\ process' = IF phase' = "deleted" /\ program # "reconnect" THEN "succeeded" ELSE process
  BY DEF Finish, Delete, DeleteSteps, Join, StreamqDelete, Destroy, FreeClient, ClientVars, vars, caller,
         stream, fifo
<1>2. /\ phase' \in {"join", "streamq_delete", "destroy", "free", "deleted"}
      /\ phase # "ready" \/ at \notin 1 .. Length
  BY DEF Finish, Delete, DeleteSteps, Join, StreamqDelete, Destroy, FreeClient
<1>3. ~StimLive /\ pc[Main] = "idle" /\ op[Main] = "idle"
  BY <1>1, <1>2 DEF ExInv, ProgramOK, StimOK, MainOK, Does
<1>4. Length' = Length /\ Length \in Nat
  BY <1>1, Statements DEF Length, ExInv, ProgramOK, AtOK
<1>5. AtOK'
  BY <1>1, <1>4 DEF ExInv, ProgramOK, AtOK
<1>6. StimOK'
  BY <1>1, <1>3 DEF ExInv, ProgramOK, StimOK, StimLive
<1>7. MainOK'
  BY <1>1, <1>2, <1>3 DEF ExInv, ProgramOK, StimOK, StimLive, MainOK
<1> QED
  BY <1>5, <1>6, <1>7

LEMMA StimProgram ==
  ASSUME ExInv, StimStep
  PROVE  AtOK' /\ StimOK' /\ MainOK'
<1>1. /\ process = "running" /\ StimLive /\ Issue(Stim) /\ UNCHANGED <<lifecycle, program, at, process>>
      /\ stim' = stim \/ (stim' = "ended" /\ pc'[Stim] = "idle")
  BY DEF StimStep, StimLive
<1>2. TypeOK
  BY <1>1, NotAbandoned DEF ExInv, IInv
<1>3. pc'[Main] = pc[Main] /\ op' = op /\ phase' = phase /\ Length' = Length
  BY <1>1, <1>2, OneCaller, ExamplesAssumption DEF lifecycle, Length
<1>4. AtOK' /\ StimOK'
  BY <1>1, <1>3 DEF ExInv, ProgramOK, AtOK, StimOK, StimLive
<1>5. phase = "ready"
  BY <1>1 DEF ExInv, ProgramOK, StimOK
<1>6. MainOK'
  BY <1>1, <1>3, <1>5 DEF ExInv, ProgramOK, MainOK, Does
<1> QED
  BY <1>4, <1>6

(* The second thread is cancelled in its pause, and nothing changes; or in *)
(* the middle of command(), and it leaves cmd_mutex locked.                *)
LEMMA CancelledExamples ==
  ASSUME ExInv, StimCancelled
  PROVE  ExInv'
<1>1. /\ process = "running" /\ stim = "cancelling" /\ stim' = "ended"
      /\ pc[Stim] \in {"idle", "write", "wait", "check"} /\ pc' = [pc EXCEPT ![Stim] = "idle"]
      /\ UNCHANGED <<shared, want, res, ret, reader, wire, freed, bounds, history, stream, lifecycle,
                     program, at, process>>
  BY DEF StimCancelled
<1>2. program = "binaryiotypea" /\ phase = "ready" /\ at = Length /\ Length \in Nat
  BY <1>1, Statements DEF ExInv, ProgramOK, AtOK, StimOK, StimLive
<1>3. pc[Main] = "idle" /\ op[Main] = "idle"
  <2>1. Text[program][at] = "join" \/ at \notin 1 .. Length
    BY <1>2, Statements DEF ExInv, ProgramOK, AtOK
  <2> QED
    BY <1>1, <2>1 DEF ExInv, ProgramOK, MainOK, Does, Commands
<1>4. TypeOK /\ IInv /\ OwnInv /\ Alive
  <2>1. ~Abandoned
    BY <1>1 DEF Abandoned
  <2> QED
    BY <1>1, <1>3, <2>1, ExamplesAssumption DEF ExInv, IInv, Alive
<1>5. pc'[Stim] = "idle" /\ pc'[Main] = "idle" /\ op' = op /\ phase' = phase /\ Length' = Length
  BY <1>1, <1>3, <1>4, ExamplesAssumption DEF TypeOK, stream, fifo, lifecycle, Length
<1>6. LifeInv'
  BY <1>1, <1>2, <1>5 DEF ExInv, LifeInv, PartsOK, ThreadOK, CallsOK, lifecycle, destroy,
                          io4e_streamq_delete
<1>7. ProgramOK'
  BY <1>1, <1>2, <1>3, <1>5
     DEF ExInv, ProgramOK, AtOK, StimOK, MainOK, LockedOK, StimLive, Abandoned
<1>8. OwnResponse'
  BY <1>1 DEF ExInv, OwnResponse
<1>9. CASE pc[Stim] = "idle"
  <2>1. pc' = pc
    BY <1>1, <1>4, <1>9 DEF TypeOK
  <2>2. UNCHANGED vars
    BY <1>1, <2>1 DEF vars, caller
  <2> QED
    BY <1>4, <1>6, <1>7, <1>8, <2>2, NextInv, NextOwn DEF ExInv
<1>10. CASE pc[Stim] # "idle"
  <2>1. cmd_mutex = Stim
    BY <1>1, <1>4, <1>10, ExamplesAssumption DEF IInv, Running, LockInv, Inside
  <2>2. Abandoned'
    BY <1>1, <2>1 DEF Abandoned, shared
  <2> QED
    BY <1>6, <1>7, <1>8, <2>2 DEF ExInv
<1> QED
  BY <1>9, <1>10

(* cmd_mutex is abandoned by the cancellation only: a thread that ends     *)
(* because its command failed has unlocked it.                             *)
LEMMA OnlyByCancellation ==
  ASSUME ExInv, ExNext, ~StimCancelled, ~Abandoned
  PROVE  ~Abandoned'
<1>1. CASE IssueCommand
  <2>1. stim' = stim /\ cmd_mutex' \in {cmd_mutex, Main, NULL}
    BY <1>1, OneCaller, ExamplesAssumption DEF IssueCommand, Calls, ExInv, IInv
  <2> QED
    BY <2>1, ExamplesAssumption, CommandAssumption DEF Abandoned
<1>2. CASE StimStep
  <2>1. Alive /\ pc'[Main] = pc[Main]
    BY <1>2, OneCaller, ExamplesAssumption DEF StimStep, ExInv, IInv
  <2>2. ASSUME stim' = "ended" PROVE pc'[Stim] = "idle"
    BY <1>2, <2>2 DEF StimStep
  <2>3. ASSUME stim' = "ended" PROVE Alive'
    BY <2>1, <2>2, <2>3, ExamplesAssumption DEF Alive
  <2> QED
    BY ProtocolFollowed, <2>2, <2>3, ExamplesAssumption DEF Abandoned, IInv, Running, LockInv, Inside
<1>3. CASE Create
  <2>1. stim' = stim /\ cmd_mutex' \in {cmd_mutex, NULL}
    BY <1>3 DEF Create, New, CallocClient, Fresh, TransportNew, TransportSocket, TransportConnect,
                TransportFree, StreamqNew, StreamqMsg, Acquire, CreateThread, ErrExit, ClientVars, vars, shared
  <2> QED
    BY <2>1, ExamplesAssumption, CommandAssumption DEF Abandoned
<1>4. CASE Read \/ Spawn \/ CancelStim \/ JoinStim \/ Finish
  <2>1. cmd_mutex' = cmd_mutex
    BY <1>4 DEF Read, ReadStream, PopStream, ReadReturns, Spawn, CancelStim, JoinStim, Finish,
                Delete, DeleteSteps, Join, StreamqDelete, Destroy, FreeClient, LifeVars,
                ClientVars, vars, shared
  <2>2. stim' = stim \/ stim' # "ended"
    BY <1>4 DEF Read, Calls, Spawn, CancelStim, JoinStim, Finish
  <2> QED
    BY <2>1, <2>2 DEF Abandoned
<1>5. CASE Answer \/ Stream \/ Disconnect \/ ReaderStep \/ ReaderCancelled \/ Sigpipe
  BY <1>5, WorldProgram DEF World, Abandoned
<1> QED
  BY <1>1, <1>2, <1>3, <1>4, <1>5 DEF ExNext, MainStep

LEMMA NextExamples == ExInv /\ [ExNext]_exvars => ExInv'
<1> SUFFICES ASSUME ExInv, [ExNext]_exvars PROVE ExInv'
  OBVIOUS
<1>1. CASE UNCHANGED exvars
  <2>1. UNCHANGED <<LifeVars, vars, program, at, process, stim>>
    BY <1>1 DEF exvars, example, LifeVars, ClientVars
  <2>2. LifeInv' /\ (IInv /\ OwnInv => IInv' /\ OwnInv')
    BY <2>1, NextOK, NextInv, NextOwn DEF ExInv
  <2>3. UNCHANGED <<pc, op, ret, cmd_mutex, phase>> /\ Length' = Length
    BY <2>1 DEF LifeVars, lifecycle, ClientVars, vars, shared, caller, stream, fifo, Length
  <2> QED
    BY <2>1, <2>2, <2>3 DEF ExInv, ProgramOK, AtOK, StimOK, MainOK, LockedOK, StimLive, Abandoned,
                            OwnResponse, Does
<1>2. CASE StimCancelled
  BY <1>2, CancelledExamples
<1>3. CASE ExNext /\ ~StimCancelled
  <2>1. LifeInv'
    BY <1>3, ExampleStep, NextOK DEF ExInv
  <2>2. AtOK' /\ StimOK' /\ MainOK'
    BY <1>3, CreateProgram, IssueProgram, ReadProgram, ThreadProgram, FinishProgram, StimProgram,
       WorldProgram DEF ExNext, MainStep, World
  <2>3. CASE Abandoned
    <3>1. /\ UNCHANGED <<cmd_mutex, ret, pc, stim, program>>
          /\ process' = "running" => at' >= Length
          /\ op'[Main] = "idle"
      BY <1>3, <2>3, AbandonedStays
    <3>2. Length' = Length
      BY <3>1 DEF Length
    <3> QED
      BY <2>1, <2>2, <2>3, <3>1, <3>2 DEF ExInv, ProgramOK, LockedOK, Abandoned, OwnResponse
  <2>4. CASE ~Abandoned
    <3>1. IInv' /\ OwnInv' /\ OwnResponse'
      BY <1>3, <2>4, ProtocolFollowed
    <3>2. ~Abandoned'
      BY <1>3, <2>4, OnlyByCancellation
    <3> QED
      BY <2>1, <2>2, <3>1, <3>2 DEF ExInv, ProgramOK, LockedOK
  <2> QED
    BY <2>3, <2>4
<1> QED
  BY <1>1, <1>2, <1>3

LEMMA ExamplesInvariance == ExSpec => []ExInv
BY InitExamples, NextExamples, PTL DEF ExSpec

-----------------------------------------------------------------------------
(* The life cycle assumes that the application deletes a client when none  *)
(* of its calls is under way.  Every example does, however its calls fail, *)
(* for any number of rounds: but for the cancellation of the thread of     *)
(* binaryiotypea, whatever an example does is a step of the life cycle.    *)
THEOREM ExamplesFollowLifecycle == ExSpec => [][LifeNext \/ StimCancelled]_LifeVars
<1>1. ExInv /\ [ExNext]_exvars => [LifeNext \/ StimCancelled]_LifeVars
  BY ExampleStep DEF exvars
<1> QED
  BY <1>1, ExamplesInvariance, PTL DEF ExSpec

(* The other six examples are life cycles of clients: all that is proved of*)
(* these holds of them.                                                    *)
THEOREM ExamplesImplementLifecycle ==
  ExSpec /\ program # "binaryiotypea" => LifeSpec
<1>1. ExInv /\ program # "binaryiotypea" /\ [ExNext]_exvars => [LifeNext]_LifeVars
  <2> SUFFICES ASSUME ExInv, program # "binaryiotypea", [ExNext]_exvars
               PROVE  [LifeNext]_LifeVars
    OBVIOUS
  <2>1. ~StimCancelled
    BY DEF StimCancelled, ExInv, ProgramOK, StimOK
  <2> QED
    BY <2>1, ExampleStep DEF exvars
<1>2. program # "binaryiotypea" /\ [ExNext]_exvars => (program # "binaryiotypea")'
  <2>1. ExNext => program' = program
    BY DEF ExNext, MainStep, Create, IssueCommand, Read, Calls, Spawn, CancelStim, JoinStim, Finish,
           StimStep, StimCancelled, Answer, Stream, Disconnect, ReaderStep, ReaderCancelled, Sigpipe,
           Others
  <2> QED
    BY <2>1 DEF exvars, example
<1>3. ExInit => LifeInit
  BY DEF ExInit
<1> QED
  BY <1>1, <1>2, <1>3, ExamplesInvariance, PTL DEF ExSpec, LifeSpec

(* No example frees a client under a thread that uses it: binaryiotypea    *)
(* joins its second thread first.                                          *)
THEOREM ExamplesUseNothingFreed == ExSpec => []NoUseAfterFree
<1>1. ExInv => NoUseAfterFree
  BY LifeUsesNothingFreed DEF ExInv
<1> QED
  BY <1>1, ExamplesInvariance, PTL

(* A thread cancelled in the middle of command() never unlocks cmd_mutex,  *)
(* and nobody ever waits for it.                                           *)
THEOREM AbandonedLockHarmsNobody == ExSpec => []NobodyLockedOut
<1>1. ExInv => NobodyLockedOut
  <2> SUFFICES ASSUME ExInv, Abandoned PROVE ~Calling
    BY DEF NobodyLockedOut, Abandoned
  <2> QED
    BY ExamplesAssumption DEF ExInv, ProgramOK, LockedOK, Calling
<1> QED
  BY <1>1, ExamplesInvariance, PTL

(* Every command of every example that succeeds got its own response, and  *)
(* that of a thread that is cancelled later on too.                        *)
THEOREM ExamplesGetTheirResponses == ExSpec => []OwnResponse
<1>1. ExInv => OwnResponse
  BY DEF ExInv
<1> QED
  BY <1>1, ExamplesInvariance, PTL

-----------------------------------------------------------------------------
(* The stream, too, goes on as it should when cmd_mutex is abandoned: what *)
(* is left to do with the connection is read_thread's, which needs no lock.*)
ReaderHolds == rpc \in Pending \cup {"post"} => rres \in Responses

LEMMA ReaderTypes == TypeOK /\ ReaderHolds /\ ReadThread => TypeOK' /\ ReaderHolds'
<1> SUFFICES ASSUME TypeOK, ReaderHolds, ReadThread PROVE TypeOK' /\ ReaderHolds'
  OBVIOUS
<1>1. CASE ReceiveStream \/ DropStream \/ PushStream \/ PushReturns
  <2>1. UNCHANGED vars
    BY <1>1 DEF ReceiveStream, DropStream, PushStream, PushReturns
  <2> QED
    BY <2>1 DEF vars, shared, caller, reader, wire, bounds, history, TypeOK, ReaderHolds
<1>2. CASE ReceiveResponse \/ DropResponse
  <2>1. Receive \/ Drop
    BY <1>2 DEF ReceiveResponse, DropResponse
  <2>2. received + 1 \in Responses /\ received + 1 \in 0 .. Len(sent)
    BY <2>1 DEF Receive, Drop, TypeOK, Responses
  <2>3. UNCHANGED <<shared, caller, wire, timeouts, calls, history>>
    BY <2>1 DEF Receive, Drop, bounds
  <2>4. /\ rpc' \in {rpc, "test"} /\ rres' \in {rres, received + 1} /\ received' = received + 1
        /\ freed' \subseteq freed \cup {received + 1} /\ dropped' \in Nat
        /\ rpc' = "read" \/ rres' = received + 1
    BY <2>1 DEF Receive, Drop, ReaderAt, TypeOK, bounds
  <2> QED
    BY <2>2, <2>3, <2>4 DEF shared, caller, wire, history, TypeOK, ReaderHolds, ReaderStates, Pending
<1>3. CASE HandleResponse
  <2> USE DEF TypeOK, ReaderHolds, ReaderStates, Pending, ReaderAt
  <2>1. CASE Test
    BY <2>1 DEF Test, shared, caller, wire, bounds, history
  <2>2. CASE Free
    BY <2>2 DEF Free, shared, caller, wire, bounds, history
  <2>3. CASE Store
    BY <2>3 DEF Store, caller, wire, bounds, history
  <2>4. CASE Post
    BY <2>4, CommandAssumption DEF Post, caller, wire, bounds, history
  <2>5. CASE PostFails
    BY <2>5 DEF PostFails, shared, caller, wire, history
  <2> QED
    BY <1>3, <2>1, <2>2, <2>3, <2>4, <2>5 DEF HandleResponse
<1> QED
  BY <1>1, <1>2, <1>3 DEF ReadThread

ExConnInv == TypeOK /\ ConnInv /\ (Abandoned => ReaderHolds)

LEMMA CancelledConn ==
  ASSUME ExInv, ExConnInv, StimCancelled
  PROVE  ExConnInv'
<1>1. /\ stim = "cancelling" /\ process = "running" /\ pc' = [pc EXCEPT ![Stim] = "idle"]
      /\ pc[Stim] \in {"idle", "write", "wait", "check"}
      /\ UNCHANGED <<shared, want, res, ret, reader, wire, freed, bounds, history, stream, lifecycle>>
  BY DEF StimCancelled
<1>2. TypeOK'
  BY <1>1, ExamplesAssumption
     DEF ExConnInv, TypeOK, CallerStates, shared, reader, wire, bounds, history
<1>3. UNCHANGED <<Received, phase, members, peer, answered, streamed>>
  BY <1>1 DEF Received, reader, wire, stream, device, lifecycle
<1>4. ConnInv'
  BY <1>3, ConnectionStays DEF ExConnInv, ConnInv, PeerOK
<1>5. ReaderHolds'
  <2>1. ~Abandoned /\ StimLive
    BY <1>1 DEF Abandoned, StimLive
  <2>2. pc[Main] # "crashed"
    <3>1. program = "binaryiotypea" /\ at = Length /\ at \in 1 .. Length
      BY <1>1, <2>1 DEF ExInv, ProgramOK, StimOK, StimLive
    <3>2. Text[program][at] = "join"
      BY <3>1, Statements DEF ExInv, ProgramOK, AtOK
    <3> QED
      BY <1>1, <3>2 DEF ExInv, ProgramOK, MainOK, Does, Commands
  <2>3. Running /\ TypeOK
    BY <1>1, <2>1, <2>2, ExamplesAssumption DEF ExInv, IInv, Alive
  <2>4. ReaderHolds
    BY <2>3 DEF Running, HeldInv, TypeOK, ReaderHolds, Responses
  <2> QED
    BY <1>1, <2>4 DEF ReaderHolds, reader
<1> QED
  BY <1>2, <1>4, <1>5 DEF ExConnInv

LEMMA NextExConn == ExInv /\ ExConnInv /\ ExInv' /\ [ExNext]_exvars => ExConnInv'
<1> SUFFICES ASSUME ExInv, ExConnInv, ExInv', [ExNext]_exvars PROVE ExConnInv'
  OBVIOUS
<1>1. TypeOK /\ ConnInv /\ LifeInv
  BY DEF ExConnInv, ExInv
<1>2. CASE StimCancelled
  BY <1>2, CancelledConn
<1>3. CASE ~StimCancelled /\ ~Abandoned
  <2>1. IInv /\ [LifeNext]_LifeVars
    BY <1>3, ExampleStep DEF ExInv, exvars
  <2>2. ConnInv'
    BY <1>1, <2>1, NextConn
  <2>3. IInv' /\ ~Abandoned'
    <3>1. CASE UNCHANGED exvars
      <4>1. UNCHANGED <<stim, cmd_mutex, vars>>
        BY <3>1 DEF exvars, example, LifeVars, ClientVars, vars, shared
      <4> QED
        BY <1>3, <2>1, <4>1, NextInv DEF Abandoned
    <3>2. CASE ExNext
      BY <1>3, <3>2, OnlyByCancellation, ProtocolFollowed
    <3> QED
      BY <3>1, <3>2
  <2> QED
    BY <2>2, <2>3 DEF ExConnInv, IInv
<1>4. CASE ~StimCancelled /\ Abandoned
  <2>1. CASE ReaderStep
    BY <1>1, <1>4, <2>1, WorkConn, ReaderTypes DEF ReaderStep, ExConnInv
  <2>2. CASE ~ReaderStep
    <3>1. UNCHANGED LifeVars \/ Device \/ DeviceEnds \/ Delete \/ Cancelled \/ DeleteSteps
      <4>1. CASE UNCHANGED exvars
        BY <4>1 DEF exvars
      <4>2. CASE ExNext
        BY <1>4, <2>2, <4>2, AbandonedSteps
           DEF JoinStim, Finish, World, Answer, Stream, Disconnect, ReaderCancelled, Sigpipe
      <4> QED
        BY <4>1, <4>2
    <3>2. UNCHANGED vars
      BY <3>1 DEF LifeVars, ClientVars, Device, DeviceAnswers, DeviceStreams, DeviceEnds, Delete,
                  Cancelled, DeleteSteps, Join, StreamqDelete, Destroy, FreeClient
    <3>3. TypeOK' /\ ReaderHolds'
      BY <1>4, <3>2 DEF ExConnInv, vars, shared, caller, reader, wire, bounds, history, TypeOK,
                        ReaderHolds
    <3>4. ConnInv'
      <4>1. CASE UNCHANGED LifeVars
        <5>1. UNCHANGED <<ClientVars, phase, members, peer, answered, streamed>>
          BY <4>1 DEF LifeVars, lifecycle, ClientVars, stream, device
        <5> QED
          BY <1>1, <5>1, ConnectionStays, ReceivedStays DEF ConnInv, PeerOK
      <4> QED
        BY <1>1, <3>1, <4>1, SendConn, EndConn, DeleteConn
    <3> QED
      BY <3>3, <3>4 DEF ExConnInv
  <2> QED
    BY <2>1, <2>2
<1> QED
  BY <1>2, <1>3, <1>4

LEMMA ExConnInvariance == ExSpec => []ExConnInv
<1>1. ExInit => ExConnInv
  <2> SUFFICES ASSUME ExInit PROVE ExConnInv
    OBVIOUS
  <2>1. ClientInv /\ Init /\ phase = "none" /\ peer = "gone" /\ stim = "none"
    BY ClientStarts DEF ExInit, LifeInit, ClientInit
  <2>2. TypeOK /\ ~Abandoned
    BY <2>1, InitInv DEF IInv, Abandoned
  <2> QED
    BY <2>1, <2>2 DEF ExConnInv, ConnInv, PeerOK, Connected, ClientInv
<1> QED
  BY <1>1, NextExConn, ExamplesInvariance, PTL DEF ExSpec

(* What reaches an example from the device's stream is in order and        *)
(* without a gap, whenever its connection ends and whenever binaryiotypea  *)
(* cancels its second thread.                                              *)
THEOREM ExamplesStreamUnbroken == ExSpec => []StreamUnbroken
<1>1. ExConnInv => StreamUnbroken
  BY StreamOfConn DEF ExConnInv
<1> QED
  BY <1>1, ExConnInvariance, PTL

(* No response of a command of an example overtakes the stream data that   *)
(* the device sent before it.                                              *)
THEOREM ExamplesAnswersOvertakeNothing == ExSpec => []AnswerIsLast
<1>1. ExConnInv => AnswerIsLast
  BY AnswersOfConn DEF ExConnInv
<1> QED
  BY <1>1, ExConnInvariance, PTL

(* new leaves an example with all the parts of a client or with none, and  *)
(* delete with none, also with cmd_mutex locked for ever.                  *)
THEOREM ExamplesLeaveNothingBehind == ExSpec => []AllOrNothing
<1>1. ExInv => AllOrNothing
  BY LifeLeavesNothing DEF ExInv
<1> QED
  BY <1>1, ExamplesInvariance, PTL
=============================================================================
