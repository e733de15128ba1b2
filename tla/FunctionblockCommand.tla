------------------------ MODULE FunctionblockCommand ------------------------
(***************************************************************************)
(* The command/response protocol of the functionblock client              *)
(* (src/src/functionblock.c): command() on the application's threads, the  *)
(* response half of read_thread, and what they share: cmd_mutex,           *)
(* cmd_context, cmd_sem and cmd_response.  The i-th command written is     *)
(* answered by response i; the device answers in order.  One action per    *)
(* step between two accesses to shared state.                              *)
(***************************************************************************)
EXTENDS Naturals, Sequences

CONSTANTS Callers,      \* application threads that issue commands
          NULL,         \* the NULL pointer; also: no caller
          CtxFirst,     \* 'A', the first context
          CtxLast,      \* 'Z', the context after which 'A' follows
          CtxMod,       \* contexts are chars: 256 values
          SemMax,       \* SEM_VALUE_MAX
          MaxCommands,  \* bound: calls of command()
          MaxAttempts,  \* bound: commands since the last one that matched
          MaxTimeouts,  \* bound: commands that time out
          MaxDrops      \* bound: responses the reader cannot unpack

ASSUME CommandAssumption ==
  /\ CtxMod \in Nat \ {0} /\ CtxFirst \in 0 .. CtxMod - 1 /\ CtxLast \in 0 .. CtxMod - 1
  /\ SemMax \in Nat \ {0}
  /\ MaxCommands \in Nat /\ MaxTimeouts \in Nat /\ MaxDrops \in Nat
  /\ MaxAttempts \in 1 .. CtxMod
  /\ NULL \notin Callers /\ NULL \notin Nat

VARIABLES cmd_mutex,     \* the caller that holds it, or NULL
          cmd_context,   \* cmd_context[0]
          cmd_sem,       \* permits: responses signalled and not yet waited for
          cmd_response,  \* the response the reader stored, or NULL
          pc,            \* pc[c]: the statement of command() that c is at
          want,          \* want[c]: c passes a res_p
          res,           \* res[c]: the response c took or was handed
          ret,           \* ret[c]: what the last command of c returned
          rpc, rres,     \* the reader's statement and its response
          sent,          \* contexts of the commands written, oldest first
          received,      \* number of responses read from the socket
          connected      \* FALSE once a write failed

(* History: the responses freed so far; the number of timeouts, of dropped *)
(* responses and of calls; the position in sent, the context and the number*)
(* of attempts when a response last matched.                               *)
VARIABLES freed, timeouts, dropped, calls, settled, start, attempts

shared  == <<cmd_mutex, cmd_context, cmd_sem, cmd_response>>
caller  == <<pc, want, res, ret>>
reader  == <<rpc, rres, received>>
wire    == <<sent, connected>>
bounds  == <<timeouts, dropped, calls>>
history == <<settled, start, attempts>>
vars    == <<shared, caller, reader, wire, freed, bounds, history>>

CallerStates == {"idle", "lock", "write", "wait", "take", "clear", "check", "use", "crashed"}
ReaderStates == {"read", "test", "free", "store", "post", "exited"}
Responses == Nat \ {0}
Codes == {"OK", "FB_ERROR", "FAIL", "TIMEOUT"}
NoReturn == [code |-> "none", cmd |-> NULL, res |-> NULL]

-----------------------------------------------------------------------------
(* io4edge_functionblock_client_new_from_host_port *)
Init == /\ cmd_mutex = NULL /\ cmd_context = CtxFirst /\ cmd_sem = 0 /\ cmd_response = NULL
        /\ pc = [c \in Callers |-> "idle"] /\ want = [c \in Callers |-> FALSE]
        /\ res = [c \in Callers |-> NULL] /\ ret = [c \in Callers |-> NoReturn]
        /\ rpc = "read" /\ rres = NULL
        /\ sent = <<>> /\ received = 0 /\ connected = TRUE
        /\ freed = {} /\ timeouts = 0 /\ dropped = 0 /\ calls = 0
        /\ settled = 0 /\ start = CtxFirst /\ attempts = 0

(* The process lives as long as no thread crashed; then nothing moves.     *)
Alive == \A c \in Callers : pc[c] # "crashed"
At(c, statement) == Alive /\ pc[c] = statement
ReaderAt(statement) == Alive /\ rpc = statement

Goto(c, from, to) == At(c, from) /\ pc' = [pc EXCEPT ![c] = to]

(* The char is incremented in place; a match advances it once more, and    *)
(* only there is it compared with the last context.                        *)
Increment(ctx) == (ctx + 1) % CtxMod
Advance(ctx) == IF Increment(ctx) = CtxLast THEN CtxFirst ELSE Increment(ctx)

(* Unlock and return: code, and the response the caller is handed (or not).*)
Return(c, code, handed) ==
  /\ cmd_mutex' = NULL
  /\ ret' = [ret EXCEPT ![c] = [code |-> code, cmd |-> Len(sent),
                                res |-> IF code \in {"OK", "FB_ERROR"} THEN res[c] ELSE NULL]]
  /\ res' = [res EXCEPT ![c] = IF handed THEN @ ELSE NULL]
  /\ pc' = [pc EXCEPT ![c] = IF handed THEN "use" ELSE "idle"]
  /\ UNCHANGED want

-----------------------------------------------------------------------------
(* A wrapper calls command(); want is whether it passes a res_p. *)
Call(c) == /\ calls < MaxCommands
           /\ Goto(c, "idle", "lock")
           /\ calls' = calls + 1
           /\ \E w \in BOOLEAN : want' = [want EXCEPT ![c] = w]
           /\ ret' = [ret EXCEPT ![c] = NoReturn]
           /\ UNCHANGED <<shared, res, reader, wire, freed, timeouts, dropped, history>>

Begin(c) == /\ cmd_mutex = NULL /\ attempts < MaxAttempts
            /\ Goto(c, "lock", "write")
            /\ cmd_mutex' = c
            /\ cmd_context' = Increment(cmd_context)
            /\ attempts' = attempts + 1
            /\ UNCHANGED <<cmd_sem, cmd_response, want, res, ret, reader, wire, freed, bounds, settled, start>>

Write(c) == /\ connected
            /\ Goto(c, "write", "wait")
            /\ sent' = Append(sent, cmd_context)
            /\ UNCHANGED <<shared, want, res, ret, reader, connected, freed, bounds, history>>

(* Mutant: the error path of the write does not unlock. *)
WriteFailsLocked(c) == /\ Goto(c, "write", "idle")
                       /\ connected' = FALSE
                       /\ UNCHANGED <<shared, want, res, ret, reader, sent, freed, bounds, history>>

WriteFails(c) == /\ At(c, "write")
                 /\ connected' = FALSE
                 /\ Return(c, "FAIL", FALSE)
                 /\ UNCHANGED <<cmd_context, cmd_sem, cmd_response, reader, sent, freed, bounds, history>>

(* Mutant: the caller does not wait for a permit. *)
WaitNot(c) == /\ Goto(c, "wait", "take")
              /\ cmd_sem' = cmd_sem - 1
              /\ UNCHANGED <<cmd_mutex, cmd_context, cmd_response, want, res, ret, reader, wire, freed, bounds, history>>

Wait(c) == /\ cmd_sem > 0
           /\ Goto(c, "wait", "take")
           /\ cmd_sem' = cmd_sem - 1
           /\ UNCHANGED <<cmd_mutex, cmd_context, cmd_response, want, res, ret, reader, wire, freed, bounds, history>>

Timeout(c) == /\ At(c, "wait") /\ cmd_sem = 0 /\ timeouts < MaxTimeouts
              /\ timeouts' = timeouts + 1
              /\ Return(c, "TIMEOUT", FALSE)
              /\ UNCHANGED <<cmd_context, cmd_sem, cmd_response, reader, wire, freed, dropped, calls, history>>

Take(c) == /\ Goto(c, "take", "clear")
           /\ res' = [res EXCEPT ![c] = cmd_response]
           /\ UNCHANGED <<shared, want, ret, reader, wire, freed, bounds, history>>

(* Mutant: the response stays in cmd_response. *)
ClearNot(c) == Goto(c, "clear", "check") /\ UNCHANGED <<shared, want, res, ret, reader, wire, freed, bounds, history>>

Clear(c) == /\ Goto(c, "clear", "check")
            /\ cmd_response' = NULL
            /\ UNCHANGED <<cmd_mutex, cmd_context, cmd_sem, want, res, ret, reader, wire, freed, bounds, history>>

(* Mutant: the context is not compared. *)
MatchesAny(c) == res[c] # NULL

Matches(c) == res[c] # NULL /\ sent[res[c]] = cmd_context

NoResponse(c) == /\ At(c, "check") /\ res[c] = NULL
                 /\ Return(c, "FAIL", FALSE)
                 /\ UNCHANGED <<cmd_context, cmd_sem, cmd_response, reader, wire, freed, bounds, history>>

Mismatch(c) == /\ At(c, "check") /\ res[c] # NULL /\ ~Matches(c)
               /\ freed' = freed \cup {res[c]}
               /\ Return(c, "FAIL", FALSE)
               /\ UNCHANGED <<cmd_context, cmd_sem, cmd_response, reader, wire, bounds, history>>

(* The context matches: the device's status decides what is returned, and  *)
(* the response is freed unless it is handed over: keeps is the set of the *)
(* codes with which it is not freed.                                       *)
Settle(c, keeps) ==
  /\ At(c, "check") /\ Matches(c)
  /\ cmd_context' = Advance(cmd_context)
  /\ start' = Advance(cmd_context) /\ attempts' = 0 /\ settled' = Len(sent)
  /\ \E code \in {"OK", "FB_ERROR"} :
       /\ Return(c, code, code = "OK" /\ want[c])
       /\ freed' = IF code \in keeps THEN freed ELSE freed \cup {res[c]}
  /\ UNCHANGED <<cmd_sem, cmd_response, reader, wire, bounds>>

(* Mutants: it is freed although it is handed over; it is not freed when   *)
(* the device reports an error.                                            *)
MatchFreesAll(c) == Settle(c, {})
MatchLeaksErrors(c) == Settle(c, IF want[c] THEN {"OK", "FB_ERROR"} ELSE {"FB_ERROR"})

Match(c) == Settle(c, IF want[c] THEN {"OK"} ELSE {})

(* The memory of a freed response may still hold the old bytes (then the   *)
(* actions above apply), or the process dies using or freeing it again.    *)
Crash(c) == /\ res[c] \in freed
            /\ \/ Goto(c, "check", "crashed")
               \/ Goto(c, "use", "crashed")
            /\ UNCHANGED <<shared, want, res, ret, reader, wire, freed, bounds, history>>

(* A wrapper is done with the response command() handed to it. *)
Release(c) == /\ Goto(c, "use", "idle")
              /\ freed' = freed \cup {res[c]}
              /\ res' = [res EXCEPT ![c] = NULL]
              /\ UNCHANGED <<shared, want, ret, reader, wire, bounds, history>>

-----------------------------------------------------------------------------
(* Mutant: the response is signalled before it is stored. *)
ReceiveSignals == /\ ReaderAt("read") /\ received < Len(sent)
                  /\ received' = received + 1 /\ rres' = received + 1
                  /\ rpc' = "test" /\ cmd_sem' = cmd_sem + 1
                  /\ UNCHANGED <<cmd_mutex, cmd_context, cmd_response, caller, wire, freed, bounds, history>>

(* read_thread reads a response and unpacks it, or fails to. *)
Receive == /\ ReaderAt("read") /\ received < Len(sent)
           /\ received' = received + 1
           /\ rres' = received + 1
           /\ rpc' = "test"
           /\ UNCHANGED <<shared, caller, wire, freed, bounds, history>>

(* Mutant: a response that cannot be unpacked is signalled all the same. *)
DropSignals == /\ ReaderAt("read") /\ received < Len(sent) /\ dropped < MaxDrops
               /\ received' = received + 1 /\ dropped' = dropped + 1
               /\ cmd_sem' = cmd_sem + 1 /\ freed' = freed \cup {received + 1}
               /\ UNCHANGED <<cmd_mutex, cmd_context, cmd_response, caller, rpc, rres, wire, timeouts, calls, history>>

Drop == /\ ReaderAt("read") /\ received < Len(sent) /\ dropped < MaxDrops
        /\ received' = received + 1
        /\ dropped' = dropped + 1
        /\ freed' = freed \cup {received + 1}
        /\ UNCHANGED <<shared, caller, rpc, rres, wire, timeouts, calls, history>>

Test == /\ ReaderAt("test")
        /\ rpc' = IF cmd_response # NULL THEN "free" ELSE "store"
        /\ UNCHANGED <<shared, caller, rres, received, wire, freed, bounds, history>>

(* cmd_response is read again; freeing NULL is harmless. *)
Free == /\ ReaderAt("free")
        /\ rpc' = "store"
        /\ freed' = freed \cup ({cmd_response} \ {NULL})
        /\ UNCHANGED <<shared, caller, rres, received, wire, bounds, history>>

Store == /\ ReaderAt("store")
         /\ rpc' = "post"
         /\ cmd_response' = rres
         /\ UNCHANGED <<cmd_mutex, cmd_context, cmd_sem, caller, rres, received, wire, freed, bounds, history>>

Post == /\ ReaderAt("post") /\ cmd_sem < SemMax
        /\ rpc' = "read" /\ rres' = NULL
        /\ cmd_sem' = cmd_sem + 1
        /\ UNCHANGED <<cmd_mutex, cmd_context, cmd_response, caller, received, wire, freed, bounds, history>>

PostFails == /\ ReaderAt("post") /\ cmd_sem = SemMax
             /\ rpc' = "exited" /\ rres' = NULL
             /\ freed' = freed \cup {rres}
             /\ dropped' = dropped + 1
             /\ UNCHANGED <<shared, caller, received, wire, timeouts, calls, history>>

Command(c) == \/ Call(c) \/ Begin(c) \/ Write(c) \/ WriteFails(c)
              \/ Wait(c) \/ Timeout(c) \/ Take(c) \/ Clear(c)
              \/ NoResponse(c) \/ Mismatch(c) \/ Match(c) \/ Crash(c) \/ Release(c)
Next == \/ \E c \in Callers : Command(c)
        \/ Receive \/ Drop \/ Test \/ Free \/ Store \/ Post \/ PostFails

Spec == Init /\ [][Next]_vars

(* A thread inside command() runs on and sem_timedwait expires; nothing is *)
(* assumed of the device, of the reader or of who gets the mutex next.     *)
Fairness == \A c \in Callers :
  /\ WF_vars(Write(c) \/ WriteFails(c)) /\ WF_vars(Wait(c) \/ Timeout(c))
  /\ WF_vars(Take(c)) /\ WF_vars(Clear(c))
  /\ WF_vars(NoResponse(c) \/ Mismatch(c) \/ Match(c) \/ Crash(c))
FairSpec == Spec /\ Fairness

-----------------------------------------------------------------------------
(* Types; the context stays a char and the semaphore below its maximum. *)
TypeOK ==
  /\ cmd_mutex \in Callers \cup {NULL} /\ cmd_context \in 0 .. CtxMod - 1
  /\ cmd_sem \in 0 .. SemMax /\ cmd_response \in {NULL} \cup Responses
  /\ pc \in [Callers -> CallerStates] /\ want \in [Callers -> BOOLEAN]
  /\ res \in [Callers -> {NULL} \cup Responses]
  /\ ret \in [Callers -> [code : {"none"} \cup Codes, cmd : {NULL} \cup Nat,
                          res : {NULL} \cup Responses]]
  /\ rpc \in ReaderStates /\ rres \in {NULL} \cup Responses
  /\ sent \in Seq(0 .. CtxMod - 1) /\ received \in 0 .. Len(sent)
  /\ connected \in BOOLEAN /\ freed \subseteq Responses
  /\ timeouts \in Nat /\ dropped \in Nat /\ calls \in Nat
  /\ settled \in 0 .. Len(sent) /\ start \in 0 .. CtxMod - 1 /\ attempts \in 0 .. MaxAttempts

Waiting == cmd_mutex # NULL /\ pc[cmd_mutex] = "wait"
Count(b) == IF b THEN 1 ELSE 0
InFlight == Len(sent) - received
Unposted == Count(rpc \in {"test", "free", "store", "post"})

(* The permits of cmd_sem: every command that timed out leaves the permit  *)
(* of its late response behind, whatever is done afterwards.  (Nothing in  *)
(* command() ever takes the surplus back.)                                 *)
PermitAccounting ==
  cmd_sem + Unposted + InFlight + dropped = timeouts + Count(Waiting)

(* A command that returns OK, or the device's error, returns what the      *)
(* device answered to this very command, however late responses arrive.    *)
OwnResponse ==
  \A c \in Callers : ret[c].code \in {"OK", "FB_ERROR"} => ret[c].res = ret[c].cmd

(* Until a command times out the client is in step with the device: no     *)
(* permit or response is left over between commands, ...                   *)
InStep == timeouts = 0 /\ cmd_mutex = NULL =>
            /\ cmd_sem = 0 /\ cmd_response = NULL
            /\ rpc = "read" /\ InFlight = 0

(* ... no command fails unless its write does, ...                         *)
NoSpuriousFailure == timeouts = 0 /\ connected =>
                       \A c \in Callers : ret[c].code # "FAIL"

(* ... the response that a caller took is its own to free, ...             *)
TakenIsOwned == \A c \in Callers :
                  pc[c] \in {"clear", "check", "use"} /\ res[c] # NULL => res[c] \notin freed
OwnedUntilTimeout == timeouts = 0 => TakenIsOwned

(* ... and every response that was read is freed or somebody's to free.    *)
NoLeak == \A i \in 1 .. received :
            \/ i \in freed \/ i = cmd_response \/ i = rres
            \/ \E c \in Callers : res[c] = i
NoLeakUntilTimeout == timeouts = 0 => NoLeak

(* Every way out of command() unlocks cmd_mutex. *)
MutexReleased == cmd_mutex # NULL ~> (cmd_mutex = NULL \/ ~Alive)

(* What io4edge_internal.h:49 says: a single char string (refuted). *)
ContextIsOneChar == cmd_context # 0
=============================================================================
