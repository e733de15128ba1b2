-------------------- MODULE FunctionblockCommand_proofs --------------------
(***************************************************************************)
(* Proofs about the command/response protocol, for every set of callers,   *)
(* every context alphabet and every bound.                                 *)
(***************************************************************************)
EXTENDS FunctionblockCommand, Integers, TLAPS

Window   == settled + 1 .. Len(sent)  \* commands written since the last match
Inside   == {"write", "wait", "take", "clear", "check"}
Written  == {"wait", "take", "clear", "check"}
Pending  == {"test", "free", "store"}  \* the reader holds a response not yet stored
Readable == IF rpc \in Pending THEN received - 1 ELSE received

(* One caller at a time is between the lock and the unlock. *)
LockInv == \A c \in Callers : pc[c] \in Inside <=> cmd_mutex = c

(* The context is as many increments from the last match as there were     *)
(* attempts, and the commands written since then have different contexts.  *)
ContextInv ==
  /\ cmd_context = (start + attempts) % CtxMod
  /\ \A i \in Window : \E k \in 1 .. attempts : sent[i] = (start + k) % CtxMod
  /\ \A i, j \in Window : sent[i] = sent[j] => i = j

CurrentInv ==
  \A c \in Callers :
    /\ pc[c] = "write" => attempts > 0 /\ \A i \in Window : sent[i] # cmd_context
    /\ pc[c] \in Written => settled < Len(sent) /\ sent[Len(sent)] = cmd_context

(* Every response that can still be taken is younger than the last match,  *)
(* and the one a caller took is older than the one stored after it.        *)
HeldInv ==
  /\ settled <= Readable
  /\ rpc \in Pending \cup {"post"} => rres = received /\ received > 0
  /\ cmd_response # NULL => settled < cmd_response /\ cmd_response <= Readable
  /\ \A c \in Callers :
       /\ pc[c] = "use" => res[c] # NULL
       /\ pc[c] \in {"clear", "check"} /\ res[c] # NULL => settled < res[c] /\ res[c] <= Readable
       /\ pc[c] = "clear" /\ res[c] # NULL => cmd_response # NULL /\ res[c] <= cmd_response
       /\ pc[c] = "check" /\ res[c] # NULL /\ cmd_response # NULL => res[c] < cmd_response

(* Until a command times out, the response and its permit travel together. *)
StepInv ==
  timeouts = 0 =>
    /\ cmd_response # NULL =>
         cmd_sem > 0 \/ rpc = "post" \/ \E c \in Callers : pc[c] \in {"take", "clear"}
    /\ cmd_sem > 0 \/ rpc = "post" => cmd_response = Len(sent)
    /\ \A c \in Callers : /\ pc[c] = "take" => cmd_response = Len(sent)
                          /\ pc[c] \in {"clear", "check"} => res[c] = Len(sent)
    /\ rpc = "exited" => dropped > 0

Running == LockInv /\ ContextInv /\ CurrentInv /\ HeldInv /\ StepInv

(* The inductive invariant. *)
IInv == /\ TypeOK /\ PermitAccounting /\ OwnResponse /\ NoSpuriousFailure
        /\ Alive => Running

-----------------------------------------------------------------------------
(* Remainders of the contexts: a sum of a context and at most CtxMod. *)
LEMMA Wrap ==
  ASSUME NEW k \in Nat, k < 2 * CtxMod
  PROVE  k % CtxMod = IF k < CtxMod THEN k ELSE k - CtxMod
<1>1. CtxMod \in Nat /\ CtxMod > 0
  BY CommandAssumption
<1>2. CASE k < CtxMod
  BY <1>1, <1>2
<1>3. CASE k >= CtxMod
  <2>1. k - CtxMod \in 0 .. CtxMod - 1  BY <1>1, <1>3
  <2> QED  BY <1>1, <1>3, <2>1
<1> QED  BY <1>1, <1>2, <1>3

(* The next attempt has the next context. *)
LEMMA ContextMoves ==
  ASSUME NEW s \in 0 .. CtxMod - 1, NEW a \in 0 .. CtxMod - 1
  PROVE  /\ Increment((s + a) % CtxMod) = (s + (a + 1)) % CtxMod
         /\ (s + (a + 1)) % CtxMod \in 0 .. CtxMod - 1
         /\ (s + 0) % CtxMod = s
<1>1. CtxMod \in Nat /\ CtxMod > 0 /\ s \in Nat /\ a \in Nat /\ s < CtxMod /\ a < CtxMod
  BY CommandAssumption
<1>2. (s + a) % CtxMod = IF s + a < CtxMod THEN s + a ELSE s + a - CtxMod
  BY <1>1, Wrap
<1>3. (s + (a + 1)) % CtxMod = IF s + (a + 1) < CtxMod THEN s + (a + 1) ELSE s + (a + 1) - CtxMod
  BY <1>1, Wrap
<1>4. (s + 0) % CtxMod = s
  BY <1>1
<1>5. Increment((s + a) % CtxMod) = (s + (a + 1)) % CtxMod
  <2> DEFINE x == (s + a) % CtxMod
  <2>1. x \in Nat /\ x < CtxMod  BY <1>1, <1>2
  <2>2. (x + 1) % CtxMod = IF x + 1 < CtxMod THEN x + 1 ELSE x + 1 - CtxMod
    <3> HIDE DEF x
    <3> QED  BY <1>1, <2>1, Wrap
  <2> QED  BY <1>1, <1>2, <1>3, <2>1, <2>2 DEF Increment
<1> QED  BY <1>1, <1>3, <1>4, <1>5

(* At most CtxMod attempts have different contexts. *)
LEMMA ContextDistinct ==
  ASSUME NEW s \in 0 .. CtxMod - 1, NEW j \in 1 .. CtxMod, NEW k \in 1 .. CtxMod,
         (s + j) % CtxMod = (s + k) % CtxMod
  PROVE  j = k
<1>1. CtxMod \in Nat /\ CtxMod > 0 /\ s \in Nat /\ s < CtxMod
  BY CommandAssumption
<1>2. /\ (s + j) % CtxMod = IF s + j < CtxMod THEN s + j ELSE s + j - CtxMod
      /\ (s + k) % CtxMod = IF s + k < CtxMod THEN s + k ELSE s + k - CtxMod
  BY <1>1, Wrap
<1> QED  BY <1>1, <1>2

(* A context stays a char. *)
LEMMA ContextType ==
  ASSUME NEW x \in 0 .. CtxMod - 1
  PROVE  Increment(x) \in 0 .. CtxMod - 1 /\ Advance(x) \in 0 .. CtxMod - 1
BY CommandAssumption DEF Increment, Advance

-----------------------------------------------------------------------------
LEMMA InitInv == Init => IInv
<1> SUFFICES ASSUME Init PROVE IInv
  OBVIOUS
<1> USE CommandAssumption DEF Init
<1>1. TypeOK
  BY DEF TypeOK, CallerStates, ReaderStates, NoReturn, Codes, Responses
<1>2. PermitAccounting
  BY DEF PermitAccounting, Unposted, InFlight, Waiting, Count
<1>3. OwnResponse /\ NoSpuriousFailure
  BY DEF OwnResponse, NoSpuriousFailure, NoReturn
<1>4. LockInv /\ CurrentInv /\ StepInv
  BY DEF LockInv, Inside, CurrentInv, Written, StepInv
<1>5. ContextInv
  BY ContextMoves DEF ContextInv, Window
<1>6. HeldInv
  BY DEF HeldInv, Readable, Pending
<1> QED  BY <1>1, <1>2, <1>3, <1>4, <1>5, <1>6 DEF IInv, Running

-----------------------------------------------------------------------------
(* Until a timeout: a caller that is not waiting for a response leaves     *)
(* nothing in flight; a response in the reader's hands has a waiting caller.*)
LEMMA Quiet ==
  ASSUME TypeOK, PermitAccounting, LockInv, NEW c \in Callers,
         pc[c] \in {"write", "take", "clear", "check"}, timeouts = 0
  PROVE  /\ cmd_sem = 0 /\ received = Len(sent) /\ dropped = 0
         /\ rpc \notin {"test", "free", "store", "post"}
<1>1. Count(Waiting) = 0
  BY DEF LockInv, Inside, Waiting, Count
<1>2. Len(sent) \in Nat /\ received \in 0 .. Len(sent) /\ cmd_sem \in Nat /\ dropped \in Nat
  BY CommandAssumption DEF TypeOK
<1>3. Unposted \in {0, 1} /\ (rpc \in {"test", "free", "store", "post"} => Unposted = 1)
  BY DEF Unposted, Count
<1> QED  BY <1>1, <1>2, <1>3 DEF PermitAccounting, InFlight

LEMMA Busy ==
  ASSUME TypeOK, PermitAccounting, LockInv, timeouts = 0,
         rpc \in {"test", "free", "store", "post"}
  PROVE  /\ received = Len(sent)
         /\ \A c \in Callers : pc[c] \notin {"write", "take", "clear", "check"}
<1>1. Count(Waiting) \in {0, 1}  BY DEF Count
<1>2. Len(sent) \in Nat /\ received \in 0 .. Len(sent) /\ cmd_sem \in Nat /\ dropped \in Nat
  BY CommandAssumption DEF TypeOK
<1>3. Unposted = 1  BY DEF Unposted, Count
<1> QED  BY <1>1, <1>2, <1>3, Quiet DEF PermitAccounting, InFlight

(* A response whose context matches is the answer to the command of the    *)
(* caller that took it, and nothing is left behind it.                     *)
LEMMA MatchOwn ==
  ASSUME TypeOK, ContextInv, CurrentInv, HeldInv, NEW c \in Callers,
         pc[c] = "check", Matches(c)
  PROVE  /\ res[c] = Len(sent) /\ received = Len(sent) /\ Readable = Len(sent)
         /\ rpc \notin Pending /\ cmd_response = NULL
<1>1. /\ Len(sent) \in Nat /\ received \in Nat /\ received <= Len(sent) /\ settled \in Nat
      /\ cmd_response # NULL => cmd_response \in Nat
      /\ res[c] \in Nat
  BY DEF TypeOK, Responses, Matches
<1>2. Readable <= received /\ Readable \in Int
  BY <1>1 DEF Readable
<1>3. settled < res[c] /\ res[c] <= Readable
  BY DEF HeldInv, Matches
<1>4. settled < Len(sent) /\ sent[Len(sent)] = cmd_context
  BY DEF CurrentInv, Written
<1>5. res[c] \in Window /\ Len(sent) \in Window
  BY <1>1, <1>2, <1>3, <1>4 DEF Window
<1>6. res[c] = Len(sent)
  BY <1>4, <1>5 DEF ContextInv, Matches
<1>7. received = Len(sent) /\ Readable = Len(sent)
  BY <1>1, <1>2, <1>3, <1>6
<1>8. rpc \notin Pending
  BY <1>1, <1>7 DEF Readable
<1>9. cmd_response = NULL
  BY <1>1, <1>3, <1>6, <1>7 DEF HeldInv, Matches
<1> QED  BY <1>6, <1>7, <1>8, <1>9

(* Writing a command appends its context. *)
LEMMA WriteAppends ==
  ASSUME TypeOK, NEW c \in Callers, Write(c)
  PROVE  /\ sent' \in Seq(0 .. CtxMod - 1) /\ Len(sent) \in Nat /\ Len(sent') = Len(sent) + 1
         /\ \A i \in 1 .. Len(sent) : sent'[i] = sent[i]
         /\ sent'[Len(sent) + 1] = cmd_context
         /\ settled \in Nat /\ settled <= Len(sent)
BY DEF TypeOK, Write

(* A step preserves the invariant. *)
LEMMA NextInv == IInv /\ [Next]_vars => IInv'
<1> SUFFICES ASSUME IInv, [Next]_vars PROVE IInv'
  OBVIOUS
<1> USE CommandAssumption
<1>a. TypeOK /\ PermitAccounting /\ OwnResponse /\ NoSpuriousFailure /\ (Alive => Running)
  BY DEF IInv
<1>0. CASE UNCHANGED vars
  <2>1. UNCHANGED vars  BY <1>0
  <2> QED
    BY <2>1, <1>a DEF IInv, vars, shared, caller, reader, wire, bounds, history, Running, Alive,
       TypeOK, PermitAccounting, OwnResponse, NoSpuriousFailure, LockInv, ContextInv, CurrentInv,
       HeldInv, StepInv, Unposted, InFlight, Waiting, Window, Readable
<1>1. ASSUME NEW c \in Callers, Call(c) PROVE IInv'
  <2>0. Alive /\ Running  BY <1>1, <1>a DEF Call, At, Goto
  <2>1. TypeOK'
    <3>1. /\ cmd_mutex' \in Callers \cup {NULL} /\ cmd_context' \in 0 .. CtxMod - 1
          /\ cmd_sem' \in 0 .. SemMax /\ cmd_response' \in {NULL} \cup Responses
      BY <1>1, <1>a, ContextType DEF Call, At, Goto, shared, reader, wire, history, TypeOK,
                                     Responses
    <3>2. /\ pc' \in [Callers -> CallerStates] /\ want' \in [Callers -> BOOLEAN]
          /\ res' \in [Callers -> {NULL} \cup Responses]
      BY <1>1, <1>a DEF Call, At, Goto, shared, reader, wire, history, TypeOK, CallerStates
    <3>3. ret' \in [Callers -> [code : {"none"} \cup Codes, cmd : {NULL} \cup Nat, res : {NULL} \cup Responses]]
      BY <1>1, <1>a DEF Call, At, Goto, shared, reader, wire, history, TypeOK, NoReturn, Codes
    <3>4. /\ rpc' \in ReaderStates /\ rres' \in {NULL} \cup Responses
          /\ sent' \in Seq(0 .. CtxMod - 1) /\ received' \in 0 .. Len(sent')
          /\ connected' \in BOOLEAN
      BY <1>1, <1>a DEF Call, At, Goto, shared, reader, wire, history, TypeOK, ReaderStates,
                        Responses
    <3>5. freed' \subseteq Responses
      BY <1>1, <1>a DEF Call, At, Goto, shared, reader, wire, history, TypeOK, Responses,
                        Matches
    <3>6. /\ timeouts' \in Nat /\ dropped' \in Nat /\ calls' \in Nat
          /\ settled' \in 0 .. Len(sent') /\ start' \in 0 .. CtxMod - 1 /\ attempts' \in 0 .. MaxAttempts
      BY <1>1, <1>a, ContextType DEF Call, At, Goto, shared, reader, wire, history, TypeOK,
                                     Responses
    <3> QED  BY <3>1, <3>2, <3>3, <3>4, <3>5, <3>6 DEF TypeOK
  <2>2. PermitAccounting'
    BY <1>1, <1>a, <2>0 DEF Call, At, Goto, shared, reader, wire, history, TypeOK,
                            PermitAccounting, Unposted, InFlight, Waiting, Count, Running,
                            LockInv, Inside
  <2>3. OwnResponse'
    BY <1>1, <1>a, <2>0 DEF Call, At, Goto, shared, reader, wire, history, TypeOK, OwnResponse,
                            NoReturn, Codes
  <2>4. NoSpuriousFailure'
    BY <1>1, <1>a, <2>0 DEF Call, At, Goto, shared, reader, wire, history, TypeOK,
                            NoSpuriousFailure, NoReturn, Codes
  <2>5. LockInv'
    BY <1>1, <1>a, <2>0 DEF Call, At, Goto, shared, reader, wire, history, TypeOK, Running,
                            LockInv, Inside, CallerStates
  <2>6. ContextInv'
    BY <1>1, <1>a, <2>0 DEF Call, At, Goto, shared, reader, wire, history, TypeOK, Running,
                            ContextInv, Window
  <2>7. CurrentInv'
    BY <1>1, <1>a, <2>0 DEF Call, At, Goto, shared, reader, wire, history, TypeOK, Running,
                            CurrentInv, Window, Written
  <2>8. HeldInv'
    BY <1>1, <1>a, <2>0 DEF Call, At, Goto, shared, reader, wire, history, TypeOK, Running,
                            HeldInv, Readable, Pending, Responses
  <2>9. StepInv'
    BY <1>1, <1>a, <2>0 DEF Call, At, Goto, shared, reader, wire, history, TypeOK, Running,
                            StepInv
  <2> QED  BY <2>1, <2>2, <2>3, <2>4, <2>5, <2>6, <2>7, <2>8, <2>9 DEF IInv, Running
<1>2. ASSUME NEW c \in Callers, Begin(c) PROVE IInv'
  <2>0. Alive /\ Running  BY <1>2, <1>a DEF Begin, At, Goto
  <2>1. TypeOK'
    <3>1. /\ cmd_mutex' \in Callers \cup {NULL} /\ cmd_context' \in 0 .. CtxMod - 1
          /\ cmd_sem' \in 0 .. SemMax /\ cmd_response' \in {NULL} \cup Responses
      BY <1>2, <1>a, ContextType DEF Begin, At, Goto, reader, wire, bounds, TypeOK, Responses
    <3>2. /\ pc' \in [Callers -> CallerStates] /\ want' \in [Callers -> BOOLEAN]
          /\ res' \in [Callers -> {NULL} \cup Responses]
      BY <1>2, <1>a DEF Begin, At, Goto, reader, wire, bounds, TypeOK, CallerStates
    <3>3. ret' \in [Callers -> [code : {"none"} \cup Codes, cmd : {NULL} \cup Nat, res : {NULL} \cup Responses]]
      BY <1>2, <1>a DEF Begin, At, Goto, reader, wire, bounds, TypeOK, NoReturn, Codes
    <3>4. /\ rpc' \in ReaderStates /\ rres' \in {NULL} \cup Responses
          /\ sent' \in Seq(0 .. CtxMod - 1) /\ received' \in 0 .. Len(sent')
          /\ connected' \in BOOLEAN
      BY <1>2, <1>a DEF Begin, At, Goto, reader, wire, bounds, TypeOK, ReaderStates, Responses
    <3>5. freed' \subseteq Responses
      BY <1>2, <1>a DEF Begin, At, Goto, reader, wire, bounds, TypeOK, Responses, Matches
    <3>6. /\ timeouts' \in Nat /\ dropped' \in Nat /\ calls' \in Nat
          /\ settled' \in 0 .. Len(sent') /\ start' \in 0 .. CtxMod - 1 /\ attempts' \in 0 .. MaxAttempts
      BY <1>2, <1>a, ContextType DEF Begin, At, Goto, reader, wire, bounds, TypeOK, Responses
    <3> QED  BY <3>1, <3>2, <3>3, <3>4, <3>5, <3>6 DEF TypeOK
  <2>2. PermitAccounting'
    BY <1>2, <1>a, <2>0 DEF Begin, At, Goto, reader, wire, bounds, TypeOK, PermitAccounting,
                            Unposted, InFlight, Waiting, Count, Running, LockInv, Inside
  <2>3. OwnResponse'
    BY <1>2, <1>a, <2>0 DEF Begin, At, Goto, reader, wire, bounds, TypeOK, OwnResponse,
                            NoReturn, Codes
  <2>4. NoSpuriousFailure'
    BY <1>2, <1>a, <2>0 DEF Begin, At, Goto, reader, wire, bounds, TypeOK, NoSpuriousFailure,
                            NoReturn, Codes
  <2>5. LockInv'
    BY <1>2, <1>a, <2>0 DEF Begin, At, Goto, reader, wire, bounds, TypeOK, Running, LockInv,
                            Inside, CallerStates
  <2>6. ContextInv'
    <3>1. attempts \in 0 .. CtxMod - 1 /\ start \in 0 .. CtxMod - 1
      BY <1>2, <1>a DEF Begin, TypeOK
    <3>2. cmd_context' = (start + (attempts + 1)) % CtxMod
      BY <1>2, <2>0, <3>1, ContextMoves DEF Begin, Running, ContextInv
    <3>3. UNCHANGED <<sent, settled, start>> /\ attempts' = attempts + 1
      BY <1>2 DEF Begin, wire
    <3>4. \A k \in 1 .. attempts : k \in 1 .. attempts'
      BY <3>1, <3>3
    <3> QED  BY <2>0, <3>2, <3>3, <3>4 DEF Running, ContextInv, Window
  <2>7. CurrentInv'
    <3>1. attempts \in 0 .. CtxMod - 1 /\ start \in 0 .. CtxMod - 1
      BY <1>2, <1>a DEF Begin, TypeOK
    <3>2. cmd_context' = (start + (attempts + 1)) % CtxMod
      BY <1>2, <2>0, <3>1, ContextMoves DEF Begin, Running, ContextInv
    <3>3. ASSUME NEW i \in Window PROVE sent[i] # cmd_context'
      <4>1. PICK k \in 1 .. attempts : sent[i] = (start + k) % CtxMod
        BY <2>0, <3>3 DEF Running, ContextInv
      <4>2. k \in 1 .. CtxMod /\ attempts + 1 \in 1 .. CtxMod /\ k # attempts + 1
        BY <3>1
      <4> QED  BY <3>1, <3>2, <4>1, <4>2, ContextDistinct
    <3>4. UNCHANGED <<sent, settled>> /\ attempts' > 0
      BY <1>2, <3>1 DEF Begin, wire
    <3>5. \A d \in Callers : pc[d] \notin Inside /\ (pc'[d] \in Inside => d = c) /\ pc'[c] = "write"
      BY <1>2, <1>a, <2>0 DEF Begin, Goto, Running, LockInv, Inside, TypeOK
    <3> QED  BY <3>3, <3>4, <3>5 DEF CurrentInv, Window, Inside, Written
  <2>8. HeldInv'
    BY <1>2, <1>a, <2>0 DEF Begin, At, Goto, reader, wire, bounds, TypeOK, Running, HeldInv,
                            Readable, Pending, Responses
  <2>9. StepInv'
    BY <1>2, <1>a, <2>0 DEF Begin, At, Goto, reader, wire, bounds, TypeOK, Running, StepInv
  <2> QED  BY <2>1, <2>2, <2>3, <2>4, <2>5, <2>6, <2>7, <2>8, <2>9 DEF IInv, Running
<1>3. ASSUME NEW c \in Callers, Write(c) PROVE IInv'
  <2>0. Alive /\ Running  BY <1>3, <1>a DEF Write, At, Goto
  <2>a. /\ sent' \in Seq(0 .. CtxMod - 1) /\ Len(sent) \in Nat /\ Len(sent') = Len(sent) + 1
        /\ \A i \in 1 .. Len(sent) : sent'[i] = sent[i]
        /\ sent'[Len(sent) + 1] = cmd_context
        /\ settled \in Nat /\ settled <= Len(sent)
    BY <1>3, <1>a, WriteAppends
  <2>1. TypeOK'
    <3>1. /\ cmd_mutex' \in Callers \cup {NULL} /\ cmd_context' \in 0 .. CtxMod - 1
          /\ cmd_sem' \in 0 .. SemMax /\ cmd_response' \in {NULL} \cup Responses
      BY <1>3, <1>a, <2>a, ContextType DEF Write, At, Goto, shared, reader, bounds, history,
                                           TypeOK, Responses
    <3>2. /\ pc' \in [Callers -> CallerStates] /\ want' \in [Callers -> BOOLEAN]
          /\ res' \in [Callers -> {NULL} \cup Responses]
      BY <1>3, <1>a, <2>a DEF Write, At, Goto, shared, reader, bounds, history, TypeOK,
                              CallerStates
    <3>3. ret' \in [Callers -> [code : {"none"} \cup Codes, cmd : {NULL} \cup Nat, res : {NULL} \cup Responses]]
      BY <1>3, <1>a, <2>a DEF Write, At, Goto, shared, reader, bounds, history, TypeOK,
                              NoReturn, Codes
    <3>4. /\ rpc' \in ReaderStates /\ rres' \in {NULL} \cup Responses
          /\ sent' \in Seq(0 .. CtxMod - 1) /\ received' \in 0 .. Len(sent')
          /\ connected' \in BOOLEAN
      BY <1>3, <1>a, <2>a DEF Write, At, Goto, shared, reader, bounds, history, TypeOK,
                              ReaderStates, Responses
    <3>5. freed' \subseteq Responses
      BY <1>3, <1>a, <2>a DEF Write, At, Goto, shared, reader, bounds, history, TypeOK,
                              Responses, Matches
    <3>6. /\ timeouts' \in Nat /\ dropped' \in Nat /\ calls' \in Nat
          /\ settled' \in 0 .. Len(sent') /\ start' \in 0 .. CtxMod - 1 /\ attempts' \in 0 .. MaxAttempts
      BY <1>3, <1>a, <2>a, ContextType DEF Write, At, Goto, shared, reader, bounds, history,
                                           TypeOK, Responses
    <3> QED  BY <3>1, <3>2, <3>3, <3>4, <3>5, <3>6 DEF TypeOK
  <2>2. PermitAccounting'
    <3>1. Waiting' /\ ~Waiting
      BY <1>3, <1>a, <2>0 DEF Write, Goto, At, shared, Waiting, Running, LockInv, Inside, TypeOK
    <3>2. /\ UNCHANGED <<cmd_sem, rpc, received, dropped, timeouts>>
          /\ cmd_sem \in Nat /\ received \in Nat /\ dropped \in Nat /\ timeouts \in Nat
      BY <1>3, <1>a DEF Write, shared, reader, bounds, TypeOK
    <3>3. Unposted' = Unposted /\ Unposted \in Nat
      BY <3>2 DEF Unposted, Count
    <3> QED  BY <1>a, <2>a, <3>1, <3>2, <3>3 DEF PermitAccounting, InFlight, Count
  <2>3. OwnResponse'
    BY <1>3, <1>a, <2>0 DEF Write, At, Goto, shared, reader, bounds, history, TypeOK,
                            OwnResponse, NoReturn, Codes
  <2>4. NoSpuriousFailure'
    BY <1>3, <1>a, <2>0 DEF Write, At, Goto, shared, reader, bounds, history, TypeOK,
                            NoSpuriousFailure, NoReturn, Codes
  <2>5. LockInv'
    BY <1>3, <1>a, <2>0 DEF Write, At, Goto, shared, reader, bounds, history, TypeOK, Running,
                            LockInv, Inside, CallerStates
  <2>6. ContextInv'
    <3>1. /\ UNCHANGED <<settled, start, attempts, cmd_context>> /\ pc[c] = "write"
      BY <1>3 DEF Write, Goto, At, shared, history
    <3>2. attempts \in Nat /\ attempts > 0 /\ attempts \in 1 .. attempts
      BY <1>a, <2>0, <3>1 DEF Running, CurrentInv, TypeOK
    <3>3. \A i \in Window' : i \in Window \/ i = Len(sent) + 1
      BY <2>a, <3>1 DEF Window
    <3>4. /\ \A i \in Window : i \in 1 .. Len(sent)
          /\ \A i \in Window : sent[i] # cmd_context
      <4>1. \A i \in Window : i \in 1 .. Len(sent)  BY <2>a DEF Window
      <4> QED  BY <2>0, <3>1, <4>1 DEF Running, CurrentInv
    <3>5. \A i \in Window' : \E k \in 1 .. attempts : sent'[i] = (start + k) % CtxMod
      BY <2>0, <2>a, <3>1, <3>2, <3>3, <3>4 DEF Running, ContextInv
    <3>6. \A i, j \in Window' : sent'[i] = sent'[j] => i = j
      BY <2>0, <2>a, <3>3, <3>4 DEF Running, ContextInv
    <3> QED  BY <2>0, <3>1, <3>5, <3>6 DEF Running, ContextInv
  <2>7. CurrentInv'
    <3>1. \A d \in Callers : (pc'[d] \in Inside => d = c) /\ pc'[c] = "wait"
      BY <1>3, <1>a, <2>0 DEF Write, Goto, At, Running, LockInv, Inside, TypeOK
    <3>2. cmd_context' = cmd_context /\ settled' = settled
      BY <1>3 DEF Write, shared, history
    <3> QED  BY <2>a, <3>1, <3>2 DEF CurrentInv, Inside, Written
  <2>8. HeldInv'
    BY <1>3, <1>a, <2>0 DEF Write, At, Goto, shared, reader, bounds, history, TypeOK, Running,
                            HeldInv, Readable, Pending, Responses
  <2>9. StepInv'
    <3>1. pc[c] = "write" /\ UNCHANGED <<timeouts, dropped, cmd_response, cmd_sem, rpc>>
      BY <1>3 DEF Write, Goto, At, shared, reader, bounds
    <3>2. timeouts = 0 => cmd_sem = 0 /\ rpc # "post"
      BY <1>a, <2>0, <3>1, Quiet DEF Running
    <3>3. \A d \in Callers : pc[d] \notin {"take", "clear", "check"} /\ pc'[d] \notin {"take", "clear", "check"}
      BY <1>3, <1>a, <2>0 DEF Write, Goto, At, Running, LockInv, Inside, TypeOK
    <3> QED  BY <1>a, <2>0, <3>1, <3>2, <3>3 DEF Running, StepInv, TypeOK
  <2> QED  BY <2>1, <2>2, <2>3, <2>4, <2>5, <2>6, <2>7, <2>8, <2>9 DEF IInv, Running
<1>4. ASSUME NEW c \in Callers, WriteFails(c) PROVE IInv'
  <2>0. Alive /\ Running  BY <1>4, <1>a DEF WriteFails, Return, At
  <2>1. TypeOK'
    <3>1. /\ cmd_mutex' \in Callers \cup {NULL} /\ cmd_context' \in 0 .. CtxMod - 1
          /\ cmd_sem' \in 0 .. SemMax /\ cmd_response' \in {NULL} \cup Responses
      BY <1>4, <1>a, ContextType DEF WriteFails, Return, At, reader, bounds, history, TypeOK,
                                     Responses
    <3>2. /\ pc' \in [Callers -> CallerStates] /\ want' \in [Callers -> BOOLEAN]
          /\ res' \in [Callers -> {NULL} \cup Responses]
      BY <1>4, <1>a DEF WriteFails, Return, At, reader, bounds, history, TypeOK, CallerStates
    <3>3. ret' \in [Callers -> [code : {"none"} \cup Codes, cmd : {NULL} \cup Nat, res : {NULL} \cup Responses]]
      BY <1>4, <1>a DEF WriteFails, Return, At, reader, bounds, history, TypeOK, NoReturn, Codes
    <3>4. /\ rpc' \in ReaderStates /\ rres' \in {NULL} \cup Responses
          /\ sent' \in Seq(0 .. CtxMod - 1) /\ received' \in 0 .. Len(sent')
          /\ connected' \in BOOLEAN
      BY <1>4, <1>a DEF WriteFails, Return, At, reader, bounds, history, TypeOK, ReaderStates,
                        Responses
    <3>5. freed' \subseteq Responses
      BY <1>4, <1>a DEF WriteFails, Return, At, reader, bounds, history, TypeOK, Responses,
                        Matches
    <3>6. /\ timeouts' \in Nat /\ dropped' \in Nat /\ calls' \in Nat
          /\ settled' \in 0 .. Len(sent') /\ start' \in 0 .. CtxMod - 1 /\ attempts' \in 0 .. MaxAttempts
      BY <1>4, <1>a, ContextType DEF WriteFails, Return, At, reader, bounds, history, TypeOK,
                                     Responses
    <3> QED  BY <3>1, <3>2, <3>3, <3>4, <3>5, <3>6 DEF TypeOK
  <2>2. PermitAccounting'
    BY <1>4, <1>a, <2>0 DEF WriteFails, Return, At, reader, bounds, history, TypeOK,
                            PermitAccounting, Unposted, InFlight, Waiting, Count, Running,
                            LockInv, Inside
  <2>3. OwnResponse'
    BY <1>4, <1>a, <2>0 DEF WriteFails, Return, At, reader, bounds, history, TypeOK,
                            OwnResponse, NoReturn, Codes
  <2>4. NoSpuriousFailure'
    BY <1>4, <1>a, <2>0 DEF WriteFails, Return, At, reader, bounds, history, TypeOK,
                            NoSpuriousFailure, NoReturn, Codes
  <2>5. LockInv'
    BY <1>4, <1>a, <2>0 DEF WriteFails, Return, At, reader, bounds, history, TypeOK, Running,
                            LockInv, Inside, CallerStates
  <2>6. ContextInv'
    BY <1>4, <1>a, <2>0 DEF WriteFails, Return, At, reader, bounds, history, TypeOK, Running,
                            ContextInv, Window
  <2>7. CurrentInv'
    BY <1>4, <1>a, <2>0 DEF WriteFails, Return, At, reader, bounds, history, TypeOK, Running,
                            CurrentInv, Window, Written
  <2>8. HeldInv'
    BY <1>4, <1>a, <2>0 DEF WriteFails, Return, At, reader, bounds, history, TypeOK, Running,
                            HeldInv, Readable, Pending, Responses
  <2>9. StepInv'
    BY <1>4, <1>a, <2>0 DEF WriteFails, Return, At, reader, bounds, history, TypeOK, Running,
                            StepInv
  <2> QED  BY <2>1, <2>2, <2>3, <2>4, <2>5, <2>6, <2>7, <2>8, <2>9 DEF IInv, Running
<1>5. ASSUME NEW c \in Callers, Wait(c) PROVE IInv'
  <2>0. Alive /\ Running  BY <1>5, <1>a DEF Wait, At, Goto
  <2>1. TypeOK'
    <3>1. /\ cmd_mutex' \in Callers \cup {NULL} /\ cmd_context' \in 0 .. CtxMod - 1
          /\ cmd_sem' \in 0 .. SemMax /\ cmd_response' \in {NULL} \cup Responses
      BY <1>5, <1>a, ContextType DEF Wait, At, Goto, reader, wire, bounds, history, TypeOK,
                                     Responses
    <3>2. /\ pc' \in [Callers -> CallerStates] /\ want' \in [Callers -> BOOLEAN]
          /\ res' \in [Callers -> {NULL} \cup Responses]
      BY <1>5, <1>a DEF Wait, At, Goto, reader, wire, bounds, history, TypeOK, CallerStates
    <3>3. ret' \in [Callers -> [code : {"none"} \cup Codes, cmd : {NULL} \cup Nat, res : {NULL} \cup Responses]]
      BY <1>5, <1>a DEF Wait, At, Goto, reader, wire, bounds, history, TypeOK, NoReturn, Codes
    <3>4. /\ rpc' \in ReaderStates /\ rres' \in {NULL} \cup Responses
          /\ sent' \in Seq(0 .. CtxMod - 1) /\ received' \in 0 .. Len(sent')
          /\ connected' \in BOOLEAN
      BY <1>5, <1>a DEF Wait, At, Goto, reader, wire, bounds, history, TypeOK, ReaderStates,
                        Responses
    <3>5. freed' \subseteq Responses
      BY <1>5, <1>a DEF Wait, At, Goto, reader, wire, bounds, history, TypeOK, Responses,
                        Matches
    <3>6. /\ timeouts' \in Nat /\ dropped' \in Nat /\ calls' \in Nat
          /\ settled' \in 0 .. Len(sent') /\ start' \in 0 .. CtxMod - 1 /\ attempts' \in 0 .. MaxAttempts
      BY <1>5, <1>a, ContextType DEF Wait, At, Goto, reader, wire, bounds, history, TypeOK,
                                     Responses
    <3> QED  BY <3>1, <3>2, <3>3, <3>4, <3>5, <3>6 DEF TypeOK
  <2>2. PermitAccounting'
    BY <1>5, <1>a, <2>0 DEF Wait, At, Goto, reader, wire, bounds, history, TypeOK,
                            PermitAccounting, Unposted, InFlight, Waiting, Count, Running,
                            LockInv, Inside
  <2>3. OwnResponse'
    BY <1>5, <1>a, <2>0 DEF Wait, At, Goto, reader, wire, bounds, history, TypeOK, OwnResponse,
                            NoReturn, Codes
  <2>4. NoSpuriousFailure'
    BY <1>5, <1>a, <2>0 DEF Wait, At, Goto, reader, wire, bounds, history, TypeOK,
                            NoSpuriousFailure, NoReturn, Codes
  <2>5. LockInv'
    BY <1>5, <1>a, <2>0 DEF Wait, At, Goto, reader, wire, bounds, history, TypeOK, Running,
                            LockInv, Inside, CallerStates
  <2>6. ContextInv'
    BY <1>5, <1>a, <2>0 DEF Wait, At, Goto, reader, wire, bounds, history, TypeOK, Running,
                            ContextInv, Window
  <2>7. CurrentInv'
    BY <1>5, <1>a, <2>0 DEF Wait, At, Goto, reader, wire, bounds, history, TypeOK, Running,
                            CurrentInv, Window, Written
  <2>8. HeldInv'
    BY <1>5, <1>a, <2>0 DEF Wait, At, Goto, reader, wire, bounds, history, TypeOK, Running,
                            HeldInv, Readable, Pending, Responses
  <2>9. StepInv'
    BY <1>5, <1>a, <2>0 DEF Wait, At, Goto, reader, wire, bounds, history, TypeOK, Running,
                            StepInv
  <2> QED  BY <2>1, <2>2, <2>3, <2>4, <2>5, <2>6, <2>7, <2>8, <2>9 DEF IInv, Running
<1>6. ASSUME NEW c \in Callers, Timeout(c) PROVE IInv'
  <2>0. Alive /\ Running  BY <1>6, <1>a DEF Timeout, Return, At
  <2>1. TypeOK'
    <3>1. /\ cmd_mutex' \in Callers \cup {NULL} /\ cmd_context' \in 0 .. CtxMod - 1
          /\ cmd_sem' \in 0 .. SemMax /\ cmd_response' \in {NULL} \cup Responses
      BY <1>6, <1>a, ContextType DEF Timeout, Return, At, reader, wire, history, TypeOK,
                                     Responses
    <3>2. /\ pc' \in [Callers -> CallerStates] /\ want' \in [Callers -> BOOLEAN]
          /\ res' \in [Callers -> {NULL} \cup Responses]
      BY <1>6, <1>a DEF Timeout, Return, At, reader, wire, history, TypeOK, CallerStates
    <3>3. ret' \in [Callers -> [code : {"none"} \cup Codes, cmd : {NULL} \cup Nat, res : {NULL} \cup Responses]]
      BY <1>6, <1>a DEF Timeout, Return, At, reader, wire, history, TypeOK, NoReturn, Codes
    <3>4. /\ rpc' \in ReaderStates /\ rres' \in {NULL} \cup Responses
          /\ sent' \in Seq(0 .. CtxMod - 1) /\ received' \in 0 .. Len(sent')
          /\ connected' \in BOOLEAN
      BY <1>6, <1>a DEF Timeout, Return, At, reader, wire, history, TypeOK, ReaderStates,
                        Responses
    <3>5. freed' \subseteq Responses
      BY <1>6, <1>a DEF Timeout, Return, At, reader, wire, history, TypeOK, Responses, Matches
    <3>6. /\ timeouts' \in Nat /\ dropped' \in Nat /\ calls' \in Nat
          /\ settled' \in 0 .. Len(sent') /\ start' \in 0 .. CtxMod - 1 /\ attempts' \in 0 .. MaxAttempts
      BY <1>6, <1>a, ContextType DEF Timeout, Return, At, reader, wire, history, TypeOK,
                                     Responses
    <3> QED  BY <3>1, <3>2, <3>3, <3>4, <3>5, <3>6 DEF TypeOK
  <2>2. PermitAccounting'
    BY <1>6, <1>a, <2>0 DEF Timeout, Return, At, reader, wire, history, TypeOK,
                            PermitAccounting, Unposted, InFlight, Waiting, Count, Running,
                            LockInv, Inside
  <2>3. OwnResponse'
    BY <1>6, <1>a, <2>0 DEF Timeout, Return, At, reader, wire, history, TypeOK, OwnResponse,
                            NoReturn, Codes
  <2>4. NoSpuriousFailure'
    BY <1>6, <1>a, <2>0 DEF Timeout, Return, At, reader, wire, history, TypeOK,
                            NoSpuriousFailure, NoReturn, Codes
  <2>5. LockInv'
    BY <1>6, <1>a, <2>0 DEF Timeout, Return, At, reader, wire, history, TypeOK, Running,
                            LockInv, Inside, CallerStates
  <2>6. ContextInv'
    BY <1>6, <1>a, <2>0 DEF Timeout, Return, At, reader, wire, history, TypeOK, Running,
                            ContextInv, Window
  <2>7. CurrentInv'
    BY <1>6, <1>a, <2>0 DEF Timeout, Return, At, reader, wire, history, TypeOK, Running,
                            CurrentInv, Window, Written
  <2>8. HeldInv'
    BY <1>6, <1>a, <2>0 DEF Timeout, Return, At, reader, wire, history, TypeOK, Running,
                            HeldInv, Readable, Pending, Responses
  <2>9. StepInv'
    BY <1>6, <1>a, <2>0 DEF Timeout, Return, At, reader, wire, history, TypeOK, Running, StepInv
  <2> QED  BY <2>1, <2>2, <2>3, <2>4, <2>5, <2>6, <2>7, <2>8, <2>9 DEF IInv, Running
<1>7. ASSUME NEW c \in Callers, Take(c) PROVE IInv'
  <2>0. Alive /\ Running  BY <1>7, <1>a DEF Take, At, Goto
  <2>1. TypeOK'
    BY <1>7, <1>a, <2>0, ContextType DEF Take, At, Goto, shared, reader, wire, bounds, history,
                                         TypeOK, CallerStates, ReaderStates, NoReturn, Codes,
                                         Responses
  <2>2. PermitAccounting'
    BY <1>7, <1>a, <2>0 DEF Take, At, Goto, shared, reader, wire, bounds, history, TypeOK,
                            PermitAccounting, Unposted, InFlight, Waiting, Count, Running,
                            LockInv, Inside
  <2>3. OwnResponse'
    BY <1>7, <1>a, <2>0 DEF Take, At, Goto, shared, reader, wire, bounds, history, TypeOK,
                            OwnResponse, NoReturn, Codes
  <2>4. NoSpuriousFailure'
    BY <1>7, <1>a, <2>0 DEF Take, At, Goto, shared, reader, wire, bounds, history, TypeOK,
                            NoSpuriousFailure, NoReturn, Codes
  <2>5. LockInv'
    BY <1>7, <1>a, <2>0 DEF Take, At, Goto, shared, reader, wire, bounds, history, TypeOK,
                            Running, LockInv, Inside, CallerStates
  <2>6. ContextInv'
    BY <1>7, <1>a, <2>0 DEF Take, At, Goto, shared, reader, wire, bounds, history, TypeOK,
                            Running, ContextInv, Window
  <2>7. CurrentInv'
    BY <1>7, <1>a, <2>0 DEF Take, At, Goto, shared, reader, wire, bounds, history, TypeOK,
                            Running, CurrentInv, Window, Written
  <2>8. HeldInv'
    BY <1>7, <1>a, <2>0 DEF Take, At, Goto, shared, reader, wire, bounds, history, TypeOK,
                            Running, HeldInv, Readable, Pending, Responses
  <2>9. StepInv'
    BY <1>7, <1>a, <2>0 DEF Take, At, Goto, shared, reader, wire, bounds, history, TypeOK,
                            Running, StepInv
  <2> QED  BY <2>1, <2>2, <2>3, <2>4, <2>5, <2>6, <2>7, <2>8, <2>9 DEF IInv, Running
<1>8. ASSUME NEW c \in Callers, Clear(c) PROVE IInv'
  <2>0. Alive /\ Running  BY <1>8, <1>a DEF Clear, At, Goto
  <2>1. TypeOK'
    BY <1>8, <1>a, <2>0, ContextType DEF Clear, At, Goto, reader, wire, bounds, history, TypeOK,
                                         CallerStates, ReaderStates, NoReturn, Codes, Responses
  <2>2. PermitAccounting'
    BY <1>8, <1>a, <2>0 DEF Clear, At, Goto, reader, wire, bounds, history, TypeOK,
                            PermitAccounting, Unposted, InFlight, Waiting, Count, Running,
                            LockInv, Inside
  <2>3. OwnResponse'
    BY <1>8, <1>a, <2>0 DEF Clear, At, Goto, reader, wire, bounds, history, TypeOK, OwnResponse,
                            NoReturn, Codes
  <2>4. NoSpuriousFailure'
    BY <1>8, <1>a, <2>0 DEF Clear, At, Goto, reader, wire, bounds, history, TypeOK,
                            NoSpuriousFailure, NoReturn, Codes
  <2>5. LockInv'
    BY <1>8, <1>a, <2>0 DEF Clear, At, Goto, reader, wire, bounds, history, TypeOK, Running,
                            LockInv, Inside, CallerStates
  <2>6. ContextInv'
    BY <1>8, <1>a, <2>0 DEF Clear, At, Goto, reader, wire, bounds, history, TypeOK, Running,
                            ContextInv, Window
  <2>7. CurrentInv'
    BY <1>8, <1>a, <2>0 DEF Clear, At, Goto, reader, wire, bounds, history, TypeOK, Running,
                            CurrentInv, Window, Written
  <2>8. HeldInv'
    <3>1. /\ UNCHANGED <<settled, received, rpc, rres, res>> /\ cmd_response' = NULL
      BY <1>8 DEF Clear, Goto, At, reader, history
    <3>2. Readable' = Readable  BY <3>1 DEF Readable
    <3>3. \A d \in Callers : pc'[d] = IF d = c THEN "check" ELSE pc[d]
      BY <1>8, <1>a DEF Clear, Goto, At, TypeOK
    <3>4. pc[c] = "clear" /\ \A d \in Callers : pc[d] \in Inside => d = c
      BY <1>8, <2>0 DEF Clear, Goto, At, Running, LockInv, Inside
    <3> QED  BY <2>0, <3>1, <3>2, <3>3, <3>4 DEF Running, HeldInv, Inside
  <2>9. StepInv'
    <3>1. pc[c] = "clear" /\ UNCHANGED <<timeouts, dropped, cmd_sem, rpc, sent, res>> /\ cmd_response' = NULL
      BY <1>8 DEF Clear, Goto, At, wire, reader, bounds
    <3>2. timeouts = 0 => cmd_sem = 0 /\ rpc # "post"
      BY <1>a, <2>0, <3>1, Quiet DEF Running
    <3>3. \A d \in Callers : (pc'[d] \in {"take", "clear", "check"} => d = c) /\ pc'[c] = "check"
      BY <1>8, <1>a, <2>0 DEF Clear, Goto, At, Running, LockInv, Inside, TypeOK
    <3> QED  BY <1>a, <2>0, <3>1, <3>2, <3>3 DEF Running, StepInv, TypeOK
  <2> QED  BY <2>1, <2>2, <2>3, <2>4, <2>5, <2>6, <2>7, <2>8, <2>9 DEF IInv, Running
<1>9. ASSUME NEW c \in Callers, NoResponse(c) PROVE IInv'
  <2>0. Alive /\ Running  BY <1>9, <1>a DEF NoResponse, Return, At
  <2>1. TypeOK'
    <3>1. /\ cmd_mutex' \in Callers \cup {NULL} /\ cmd_context' \in 0 .. CtxMod - 1
          /\ cmd_sem' \in 0 .. SemMax /\ cmd_response' \in {NULL} \cup Responses
      BY <1>9, <1>a, ContextType DEF NoResponse, Return, At, reader, wire, bounds, history,
                                     TypeOK, Responses
    <3>2. /\ pc' \in [Callers -> CallerStates] /\ want' \in [Callers -> BOOLEAN]
          /\ res' \in [Callers -> {NULL} \cup Responses]
      BY <1>9, <1>a DEF NoResponse, Return, At, reader, wire, bounds, history, TypeOK,
                        CallerStates
    <3>3. ret' \in [Callers -> [code : {"none"} \cup Codes, cmd : {NULL} \cup Nat, res : {NULL} \cup Responses]]
      BY <1>9, <1>a DEF NoResponse, Return, At, reader, wire, bounds, history, TypeOK, NoReturn,
                        Codes
    <3>4. /\ rpc' \in ReaderStates /\ rres' \in {NULL} \cup Responses
          /\ sent' \in Seq(0 .. CtxMod - 1) /\ received' \in 0 .. Len(sent')
          /\ connected' \in BOOLEAN
      BY <1>9, <1>a DEF NoResponse, Return, At, reader, wire, bounds, history, TypeOK,
                        ReaderStates, Responses
    <3>5. freed' \subseteq Responses
      BY <1>9, <1>a DEF NoResponse, Return, At, reader, wire, bounds, history, TypeOK,
                        Responses, Matches
    <3>6. /\ timeouts' \in Nat /\ dropped' \in Nat /\ calls' \in Nat
          /\ settled' \in 0 .. Len(sent') /\ start' \in 0 .. CtxMod - 1 /\ attempts' \in 0 .. MaxAttempts
      BY <1>9, <1>a, ContextType DEF NoResponse, Return, At, reader, wire, bounds, history,
                                     TypeOK, Responses
    <3> QED  BY <3>1, <3>2, <3>3, <3>4, <3>5, <3>6 DEF TypeOK
  <2>2. PermitAccounting'
    BY <1>9, <1>a, <2>0 DEF NoResponse, Return, At, reader, wire, bounds, history, TypeOK,
                            PermitAccounting, Unposted, InFlight, Waiting, Count, Running,
                            LockInv, Inside
  <2>3. OwnResponse'
    BY <1>9, <1>a, <2>0 DEF NoResponse, Return, At, reader, wire, bounds, history, TypeOK,
                            OwnResponse, NoReturn, Codes
  <2>4. NoSpuriousFailure'
    <3>1. timeouts = 0 => res[c] = Len(sent)
      BY <1>9, <2>0 DEF NoResponse, At, Running, StepInv
    <3>2. timeouts # 0
      BY <1>9, <1>a, <3>1 DEF NoResponse, TypeOK
    <3> QED  BY <1>9, <3>2 DEF NoResponse, bounds, NoSpuriousFailure
  <2>5. LockInv'
    BY <1>9, <1>a, <2>0 DEF NoResponse, Return, At, reader, wire, bounds, history, TypeOK,
                            Running, LockInv, Inside, CallerStates
  <2>6. ContextInv'
    BY <1>9, <1>a, <2>0 DEF NoResponse, Return, At, reader, wire, bounds, history, TypeOK,
                            Running, ContextInv, Window
  <2>7. CurrentInv'
    BY <1>9, <1>a, <2>0 DEF NoResponse, Return, At, reader, wire, bounds, history, TypeOK,
                            Running, CurrentInv, Window, Written
  <2>8. HeldInv'
    BY <1>9, <1>a, <2>0 DEF NoResponse, Return, At, reader, wire, bounds, history, TypeOK,
                            Running, HeldInv, Readable, Pending, Responses
  <2>9. StepInv'
    BY <1>9, <1>a, <2>0 DEF NoResponse, Return, At, reader, wire, bounds, history, TypeOK,
                            Running, StepInv
  <2> QED  BY <2>1, <2>2, <2>3, <2>4, <2>5, <2>6, <2>7, <2>8, <2>9 DEF IInv, Running
<1>10. ASSUME NEW c \in Callers, Mismatch(c) PROVE IInv'
  <2>0. Alive /\ Running  BY <1>10, <1>a DEF Mismatch, Return, At
  <2>1. TypeOK'
    <3>1. /\ cmd_mutex' \in Callers \cup {NULL} /\ cmd_context' \in 0 .. CtxMod - 1
          /\ cmd_sem' \in 0 .. SemMax /\ cmd_response' \in {NULL} \cup Responses
      BY <1>10, <1>a, ContextType DEF Mismatch, Return, At, reader, wire, bounds, history,
                                      TypeOK, Responses
    <3>2. /\ pc' \in [Callers -> CallerStates] /\ want' \in [Callers -> BOOLEAN]
          /\ res' \in [Callers -> {NULL} \cup Responses]
      BY <1>10, <1>a DEF Mismatch, Return, At, reader, wire, bounds, history, TypeOK,
                         CallerStates
    <3>3. ret' \in [Callers -> [code : {"none"} \cup Codes, cmd : {NULL} \cup Nat, res : {NULL} \cup Responses]]
      BY <1>10, <1>a DEF Mismatch, Return, At, reader, wire, bounds, history, TypeOK, NoReturn,
                         Codes
    <3>4. /\ rpc' \in ReaderStates /\ rres' \in {NULL} \cup Responses
          /\ sent' \in Seq(0 .. CtxMod - 1) /\ received' \in 0 .. Len(sent')
          /\ connected' \in BOOLEAN
      BY <1>10, <1>a DEF Mismatch, Return, At, reader, wire, bounds, history, TypeOK,
                         ReaderStates, Responses
    <3>5. freed' \subseteq Responses
      BY <1>10, <1>a DEF Mismatch, Return, At, reader, wire, bounds, history, TypeOK, Responses,
                         Matches
    <3>6. /\ timeouts' \in Nat /\ dropped' \in Nat /\ calls' \in Nat
          /\ settled' \in 0 .. Len(sent') /\ start' \in 0 .. CtxMod - 1 /\ attempts' \in 0 .. MaxAttempts
      BY <1>10, <1>a, ContextType DEF Mismatch, Return, At, reader, wire, bounds, history,
                                      TypeOK, Responses
    <3> QED  BY <3>1, <3>2, <3>3, <3>4, <3>5, <3>6 DEF TypeOK
  <2>2. PermitAccounting'
    BY <1>10, <1>a, <2>0 DEF Mismatch, Return, At, reader, wire, bounds, history, TypeOK,
                             PermitAccounting, Unposted, InFlight, Waiting, Count, Running,
                             LockInv, Inside
  <2>3. OwnResponse'
    BY <1>10, <1>a, <2>0 DEF Mismatch, Return, At, reader, wire, bounds, history, TypeOK,
                             OwnResponse, NoReturn, Codes
  <2>4. NoSpuriousFailure'
    <3>1. timeouts = 0 => res[c] = Len(sent)
      BY <1>10, <2>0 DEF Mismatch, At, Running, StepInv
    <3>2. sent[Len(sent)] = cmd_context
      BY <1>10, <2>0 DEF Mismatch, At, Running, CurrentInv, Written
    <3>3. timeouts # 0
      BY <1>10, <3>1, <3>2 DEF Mismatch, Matches
    <3> QED  BY <1>10, <3>3 DEF Mismatch, bounds, NoSpuriousFailure
  <2>5. LockInv'
    BY <1>10, <1>a, <2>0 DEF Mismatch, Return, At, reader, wire, bounds, history, TypeOK,
                             Running, LockInv, Inside, CallerStates
  <2>6. ContextInv'
    BY <1>10, <1>a, <2>0 DEF Mismatch, Return, At, reader, wire, bounds, history, TypeOK,
                             Running, ContextInv, Window
  <2>7. CurrentInv'
    BY <1>10, <1>a, <2>0 DEF Mismatch, Return, At, reader, wire, bounds, history, TypeOK,
                             Running, CurrentInv, Window, Written
  <2>8. HeldInv'
    BY <1>10, <1>a, <2>0 DEF Mismatch, Return, At, reader, wire, bounds, history, TypeOK,
                             Running, HeldInv, Readable, Pending, Responses
  <2>9. StepInv'
    BY <1>10, <1>a, <2>0 DEF Mismatch, Return, At, reader, wire, bounds, history, TypeOK,
                             Running, StepInv
  <2> QED  BY <2>1, <2>2, <2>3, <2>4, <2>5, <2>6, <2>7, <2>8, <2>9 DEF IInv, Running
<1>11. ASSUME NEW c \in Callers, Match(c) PROVE IInv'
  <2>0. Alive /\ Running  BY <1>11, <1>a DEF Match, Settle, Return, At
  <2>a. /\ res[c] = Len(sent) /\ received = Len(sent) /\ Readable = Len(sent)
        /\ rpc \notin Pending /\ cmd_response = NULL
    BY <1>11, <1>a, <2>0, MatchOwn DEF Match, Settle, At, Running
  <2>1. TypeOK'
    <3>1. /\ cmd_mutex' \in Callers \cup {NULL} /\ cmd_context' \in 0 .. CtxMod - 1
          /\ cmd_sem' \in 0 .. SemMax /\ cmd_response' \in {NULL} \cup Responses
      BY <1>11, <1>a, ContextType DEF Match, Settle, Return, At, reader, wire, bounds, TypeOK,
                                      Responses
    <3>2. /\ pc' \in [Callers -> CallerStates] /\ want' \in [Callers -> BOOLEAN]
          /\ res' \in [Callers -> {NULL} \cup Responses]
      BY <1>11, <1>a DEF Match, Settle, Return, At, reader, wire, bounds, TypeOK, CallerStates
    <3>3. ret' \in [Callers -> [code : {"none"} \cup Codes, cmd : {NULL} \cup Nat, res : {NULL} \cup Responses]]
      BY <1>11, <1>a DEF Match, Settle, Return, At, reader, wire, bounds, TypeOK, NoReturn,
                         Codes
    <3>4. /\ rpc' \in ReaderStates /\ rres' \in {NULL} \cup Responses
          /\ sent' \in Seq(0 .. CtxMod - 1) /\ received' \in 0 .. Len(sent')
          /\ connected' \in BOOLEAN
      BY <1>11, <1>a DEF Match, Settle, Return, At, reader, wire, bounds, TypeOK, ReaderStates,
                         Responses
    <3>5. freed' \subseteq Responses
      BY <1>11, <1>a DEF Match, Settle, Return, At, reader, wire, bounds, TypeOK, Responses,
                         Matches
    <3>6. /\ timeouts' \in Nat /\ dropped' \in Nat /\ calls' \in Nat
          /\ settled' \in 0 .. Len(sent') /\ start' \in 0 .. CtxMod - 1 /\ attempts' \in 0 .. MaxAttempts
      BY <1>11, <1>a, ContextType DEF Match, Settle, Return, At, reader, wire, bounds, TypeOK,
                                      Responses
    <3> QED  BY <3>1, <3>2, <3>3, <3>4, <3>5, <3>6 DEF TypeOK
  <2>2. PermitAccounting'
    BY <1>11, <1>a, <2>0 DEF Match, Settle, Return, At, reader, wire, bounds, TypeOK,
                             PermitAccounting, Unposted, InFlight, Waiting, Count, Running,
                             LockInv, Inside
  <2>3. OwnResponse'
    <3>1. ret'[c].res = ret'[c].cmd
      BY <1>11, <1>a, <2>a DEF Match, Settle, Return, TypeOK
    <3>2. \A d \in Callers \ {c} : ret'[d] = ret[d]
      BY <1>11, <1>a DEF Match, Settle, Return, TypeOK
    <3> QED  BY <1>a, <3>1, <3>2 DEF OwnResponse
  <2>4. NoSpuriousFailure'
    BY <1>11, <1>a, <2>0 DEF Match, Settle, Return, At, reader, wire, bounds, TypeOK,
                             NoSpuriousFailure, NoReturn, Codes
  <2>5. LockInv'
    BY <1>11, <1>a, <2>0 DEF Match, Settle, Return, At, reader, wire, bounds, TypeOK, Running,
                             LockInv, Inside, CallerStates
  <2>6. ContextInv'
    <3>1. /\ cmd_context' = Advance(cmd_context) /\ start' = cmd_context' /\ attempts' = 0
          /\ settled' = Len(sent) /\ sent' = sent
      BY <1>11 DEF Match, Settle, wire
    <3>2. start' \in 0 .. CtxMod - 1
      BY <1>a, <3>1, ContextType DEF TypeOK
    <3>3. cmd_context' = (start' + attempts') % CtxMod
      BY <3>1, <3>2, ContextMoves
    <3>4. Window' = {}
      BY <1>a, <3>1 DEF Window, TypeOK
    <3> QED  BY <3>3, <3>4 DEF ContextInv
  <2>7. CurrentInv'
    <3>1. \A d \in Callers : pc'[d] \notin Inside
      BY <1>11, <1>a, <2>0 DEF Match, Settle, Return, At, Running, LockInv, Inside, TypeOK
    <3> QED  BY <3>1 DEF CurrentInv, Inside, Written
  <2>8. HeldInv'
    <3>1. \A d \in Callers : pc'[d] \notin Inside
      BY <1>11, <1>a, <2>0 DEF Match, Settle, Return, At, Running, LockInv, Inside, TypeOK
    <3>2. settled' = Len(sent) /\ cmd_response' = NULL /\ Readable' = Len(sent) /\ UNCHANGED <<rpc, rres, received>>
      BY <1>11, <2>a DEF Match, Settle, reader, Readable
    <3>3. Len(sent) \in Nat  BY <1>a DEF TypeOK
    <3>4. \A d \in Callers : pc'[d] = "use" => res'[d] # NULL
      BY <1>11, <1>a, <2>0 DEF Match, Settle, Matches, Return, TypeOK, Running, HeldInv
    <3> QED  BY <2>0, <3>1, <3>2, <3>3, <3>4 DEF Running, HeldInv, Inside, Pending
  <2>9. StepInv'
    BY <1>11, <1>a, <2>0 DEF Match, Settle, Return, At, reader, wire, bounds, TypeOK, Running,
                             StepInv
  <2> QED  BY <2>1, <2>2, <2>3, <2>4, <2>5, <2>6, <2>7, <2>8, <2>9 DEF IInv, Running
<1>12. ASSUME NEW c \in Callers, Release(c) PROVE IInv'
  <2>0. Alive /\ Running  BY <1>12, <1>a DEF Release, At, Goto
  <2>1. TypeOK'
    <3>1. /\ cmd_mutex' \in Callers \cup {NULL} /\ cmd_context' \in 0 .. CtxMod - 1
          /\ cmd_sem' \in 0 .. SemMax /\ cmd_response' \in {NULL} \cup Responses
      BY <1>12, <1>a, ContextType DEF Release, At, Goto, shared, reader, wire, bounds, history,
                                      TypeOK, Responses
    <3>2. /\ pc' \in [Callers -> CallerStates] /\ want' \in [Callers -> BOOLEAN]
          /\ res' \in [Callers -> {NULL} \cup Responses]
      BY <1>12, <1>a DEF Release, At, Goto, shared, reader, wire, bounds, history, TypeOK,
                         CallerStates
    <3>3. ret' \in [Callers -> [code : {"none"} \cup Codes, cmd : {NULL} \cup Nat, res : {NULL} \cup Responses]]
      BY <1>12, <1>a DEF Release, At, Goto, shared, reader, wire, bounds, history, TypeOK,
                         NoReturn, Codes
    <3>4. /\ rpc' \in ReaderStates /\ rres' \in {NULL} \cup Responses
          /\ sent' \in Seq(0 .. CtxMod - 1) /\ received' \in 0 .. Len(sent')
          /\ connected' \in BOOLEAN
      BY <1>12, <1>a DEF Release, At, Goto, shared, reader, wire, bounds, history, TypeOK,
                         ReaderStates, Responses
    <3>5. freed' \subseteq Responses
      BY <1>12, <1>a, <2>0 DEF Release, At, Goto, shared, reader, wire, bounds, history, TypeOK,
                               Responses, Matches, Running, HeldInv, Pending
    <3>6. /\ timeouts' \in Nat /\ dropped' \in Nat /\ calls' \in Nat
          /\ settled' \in 0 .. Len(sent') /\ start' \in 0 .. CtxMod - 1 /\ attempts' \in 0 .. MaxAttempts
      BY <1>12, <1>a, ContextType DEF Release, At, Goto, shared, reader, wire, bounds, history,
                                      TypeOK, Responses
    <3> QED  BY <3>1, <3>2, <3>3, <3>4, <3>5, <3>6 DEF TypeOK
  <2>2. PermitAccounting'
    BY <1>12, <1>a, <2>0 DEF Release, At, Goto, shared, reader, wire, bounds, history, TypeOK,
                             PermitAccounting, Unposted, InFlight, Waiting, Count, Running,
                             LockInv, Inside
  <2>3. OwnResponse'
    BY <1>12, <1>a, <2>0 DEF Release, At, Goto, shared, reader, wire, bounds, history, TypeOK,
                             OwnResponse, NoReturn, Codes
  <2>4. NoSpuriousFailure'
    BY <1>12, <1>a, <2>0 DEF Release, At, Goto, shared, reader, wire, bounds, history, TypeOK,
                             NoSpuriousFailure, NoReturn, Codes
  <2>5. LockInv'
    BY <1>12, <1>a, <2>0 DEF Release, At, Goto, shared, reader, wire, bounds, history, TypeOK,
                             Running, LockInv, Inside, CallerStates
  <2>6. ContextInv'
    BY <1>12, <1>a, <2>0 DEF Release, At, Goto, shared, reader, wire, bounds, history, TypeOK,
                             Running, ContextInv, Window
  <2>7. CurrentInv'
    BY <1>12, <1>a, <2>0 DEF Release, At, Goto, shared, reader, wire, bounds, history, TypeOK,
                             Running, CurrentInv, Window, Written
  <2>8. HeldInv'
    BY <1>12, <1>a, <2>0 DEF Release, At, Goto, shared, reader, wire, bounds, history, TypeOK,
                             Running, HeldInv, Readable, Pending, Responses
  <2>9. StepInv'
    BY <1>12, <1>a, <2>0 DEF Release, At, Goto, shared, reader, wire, bounds, history, TypeOK,
                             Running, StepInv
  <2> QED  BY <2>1, <2>2, <2>3, <2>4, <2>5, <2>6, <2>7, <2>8, <2>9 DEF IInv, Running
<1>13. ASSUME NEW c \in Callers, Crash(c) PROVE IInv'
  <2>0. Alive /\ Running  BY <1>13, <1>a DEF Crash, At, Goto
  <2>1. TypeOK'
    BY <1>13, <1>a, <2>0 DEF Crash, At, Goto, shared, reader, wire, bounds, history, TypeOK,
                             CallerStates
  <2>2. PermitAccounting'
    BY <1>13, <1>a, <2>0 DEF Crash, At, Goto, shared, reader, wire, bounds, history, TypeOK,
                             PermitAccounting, Unposted, InFlight, Waiting, Count
  <2>3. OwnResponse'
    BY <1>13, <1>a, <2>0 DEF Crash, At, Goto, shared, reader, wire, bounds, history, TypeOK,
                             OwnResponse
  <2>4. NoSpuriousFailure'
    BY <1>13, <1>a, <2>0 DEF Crash, At, Goto, shared, reader, wire, bounds, history, TypeOK,
                             NoSpuriousFailure
  <2>5. ~Alive'
    BY <1>13, <1>a DEF Crash, Goto, Alive, TypeOK
  <2> QED  BY <2>1, <2>2, <2>3, <2>4, <2>5 DEF IInv
<1>14. ASSUME Receive PROVE IInv'
  <2>0. Alive /\ Running  BY <1>14, <1>a DEF Receive, ReaderAt
  <2>1. TypeOK'
    <3>1. /\ cmd_mutex' \in Callers \cup {NULL} /\ cmd_context' \in 0 .. CtxMod - 1
          /\ cmd_sem' \in 0 .. SemMax /\ cmd_response' \in {NULL} \cup Responses
      BY <1>14, <1>a, ContextType DEF Receive, ReaderAt, shared, caller, wire, bounds, history,
                                      TypeOK, Responses
    <3>2. /\ pc' \in [Callers -> CallerStates] /\ want' \in [Callers -> BOOLEAN]
          /\ res' \in [Callers -> {NULL} \cup Responses]
      BY <1>14, <1>a DEF Receive, ReaderAt, shared, caller, wire, bounds, history, TypeOK,
                         CallerStates
    <3>3. ret' \in [Callers -> [code : {"none"} \cup Codes, cmd : {NULL} \cup Nat, res : {NULL} \cup Responses]]
      BY <1>14, <1>a DEF Receive, ReaderAt, shared, caller, wire, bounds, history, TypeOK, Codes
    <3>4. /\ rpc' \in ReaderStates /\ rres' \in {NULL} \cup Responses
          /\ sent' \in Seq(0 .. CtxMod - 1) /\ received' \in 0 .. Len(sent')
          /\ connected' \in BOOLEAN
      BY <1>14, <1>a DEF Receive, ReaderAt, shared, caller, wire, bounds, history, TypeOK,
                         ReaderStates, Responses
    <3>5. freed' \subseteq Responses
      BY <1>14, <1>a DEF Receive, ReaderAt, shared, caller, wire, bounds, history, TypeOK,
                         Responses, Matches
    <3>6. /\ timeouts' \in Nat /\ dropped' \in Nat /\ calls' \in Nat
          /\ settled' \in 0 .. Len(sent') /\ start' \in 0 .. CtxMod - 1 /\ attempts' \in 0 .. MaxAttempts
      BY <1>14, <1>a, ContextType DEF Receive, ReaderAt, shared, caller, wire, bounds, history,
                                      TypeOK, Responses
    <3> QED  BY <3>1, <3>2, <3>3, <3>4, <3>5, <3>6 DEF TypeOK
  <2>2. PermitAccounting'
    <3>1. received' = received + 1 /\ Unposted' = 1 /\ dropped' = dropped /\ Unposted = 0
      BY <1>14 DEF Receive, ReaderAt, bounds, Unposted, Count
    <3>2. UNCHANGED <<cmd_sem, timeouts, sent>> /\ Count(Waiting)' = Count(Waiting)
      BY <1>14 DEF Receive, shared, caller, wire, bounds, Waiting, Count
    <3>3. /\ cmd_sem \in Nat /\ received \in Nat /\ dropped \in Nat /\ timeouts \in Nat
          /\ Len(sent) \in Nat /\ Count(Waiting) \in Nat
      BY <1>a DEF TypeOK, Count
    <3> QED  BY <1>a, <3>1, <3>2, <3>3 DEF PermitAccounting, InFlight
  <2>3. OwnResponse'
    BY <1>14, <1>a, <2>0 DEF Receive, ReaderAt, shared, caller, wire, bounds, history, TypeOK,
                             OwnResponse, NoReturn, Codes
  <2>4. NoSpuriousFailure'
    BY <1>14, <1>a, <2>0 DEF Receive, ReaderAt, shared, caller, wire, bounds, history, TypeOK,
                             NoSpuriousFailure, NoReturn, Codes
  <2>5. LockInv'
    BY <1>14, <1>a, <2>0 DEF Receive, ReaderAt, shared, caller, wire, bounds, history, TypeOK,
                             Running, LockInv, Inside, CallerStates
  <2>6. ContextInv'
    BY <1>14, <1>a, <2>0 DEF Receive, ReaderAt, shared, caller, wire, bounds, history, TypeOK,
                             Running, ContextInv, Window
  <2>7. CurrentInv'
    BY <1>14, <1>a, <2>0 DEF Receive, ReaderAt, shared, caller, wire, bounds, history, TypeOK,
                             Running, CurrentInv, Window, Written
  <2>8. HeldInv'
    BY <1>14, <1>a, <2>0 DEF Receive, ReaderAt, shared, caller, wire, bounds, history, TypeOK,
                             Running, HeldInv, Readable, Pending, Responses
  <2>9. StepInv'
    BY <1>14, <1>a, <2>0 DEF Receive, ReaderAt, shared, caller, wire, bounds, history, TypeOK,
                             Running, StepInv
  <2> QED  BY <2>1, <2>2, <2>3, <2>4, <2>5, <2>6, <2>7, <2>8, <2>9 DEF IInv, Running
<1>15. ASSUME Drop PROVE IInv'
  <2>0. Alive /\ Running  BY <1>15, <1>a DEF Drop, ReaderAt
  <2>1. TypeOK'
    <3>1. /\ cmd_mutex' \in Callers \cup {NULL} /\ cmd_context' \in 0 .. CtxMod - 1
          /\ cmd_sem' \in 0 .. SemMax /\ cmd_response' \in {NULL} \cup Responses
      BY <1>15, <1>a, ContextType DEF Drop, ReaderAt, shared, caller, wire, history, TypeOK,
                                      Responses
    <3>2. /\ pc' \in [Callers -> CallerStates] /\ want' \in [Callers -> BOOLEAN]
          /\ res' \in [Callers -> {NULL} \cup Responses]
      BY <1>15, <1>a DEF Drop, ReaderAt, shared, caller, wire, history, TypeOK, CallerStates
    <3>3. ret' \in [Callers -> [code : {"none"} \cup Codes, cmd : {NULL} \cup Nat, res : {NULL} \cup Responses]]
      BY <1>15, <1>a DEF Drop, ReaderAt, shared, caller, wire, history, TypeOK, Codes
    <3>4. /\ rpc' \in ReaderStates /\ rres' \in {NULL} \cup Responses
          /\ sent' \in Seq(0 .. CtxMod - 1) /\ received' \in 0 .. Len(sent')
          /\ connected' \in BOOLEAN
      BY <1>15, <1>a DEF Drop, ReaderAt, shared, caller, wire, history, TypeOK, ReaderStates,
                         Responses
    <3>5. freed' \subseteq Responses
      BY <1>15, <1>a DEF Drop, ReaderAt, shared, caller, wire, history, TypeOK, Responses,
                         Matches
    <3>6. /\ timeouts' \in Nat /\ dropped' \in Nat /\ calls' \in Nat
          /\ settled' \in 0 .. Len(sent') /\ start' \in 0 .. CtxMod - 1 /\ attempts' \in 0 .. MaxAttempts
      BY <1>15, <1>a, ContextType DEF Drop, ReaderAt, shared, caller, wire, history, TypeOK,
                                      Responses
    <3> QED  BY <3>1, <3>2, <3>3, <3>4, <3>5, <3>6 DEF TypeOK
  <2>2. PermitAccounting'
    <3>1. received' = received + 1 /\ Unposted' = 0 /\ dropped' = dropped + 1 /\ Unposted = 0
      BY <1>15 DEF Drop, ReaderAt, Unposted, Count
    <3>2. UNCHANGED <<cmd_sem, timeouts, sent>> /\ Count(Waiting)' = Count(Waiting)
      BY <1>15 DEF Drop, shared, caller, wire, Waiting, Count
    <3>3. /\ cmd_sem \in Nat /\ received \in Nat /\ dropped \in Nat /\ timeouts \in Nat
          /\ Len(sent) \in Nat /\ Count(Waiting) \in Nat
      BY <1>a DEF TypeOK, Count
    <3> QED  BY <1>a, <3>1, <3>2, <3>3 DEF PermitAccounting, InFlight
  <2>3. OwnResponse'
    BY <1>15, <1>a, <2>0 DEF Drop, ReaderAt, shared, caller, wire, history, TypeOK, OwnResponse,
                             NoReturn, Codes
  <2>4. NoSpuriousFailure'
    BY <1>15, <1>a, <2>0 DEF Drop, ReaderAt, shared, caller, wire, history, TypeOK,
                             NoSpuriousFailure, NoReturn, Codes
  <2>5. LockInv'
    BY <1>15, <1>a, <2>0 DEF Drop, ReaderAt, shared, caller, wire, history, TypeOK, Running,
                             LockInv, Inside, CallerStates
  <2>6. ContextInv'
    BY <1>15, <1>a, <2>0 DEF Drop, ReaderAt, shared, caller, wire, history, TypeOK, Running,
                             ContextInv, Window
  <2>7. CurrentInv'
    BY <1>15, <1>a, <2>0 DEF Drop, ReaderAt, shared, caller, wire, history, TypeOK, Running,
                             CurrentInv, Window, Written
  <2>8. HeldInv'
    BY <1>15, <1>a, <2>0 DEF Drop, ReaderAt, shared, caller, wire, history, TypeOK, Running,
                             HeldInv, Readable, Pending, Responses
  <2>9. StepInv'
    BY <1>15, <1>a, <2>0 DEF Drop, ReaderAt, shared, caller, wire, history, TypeOK, Running,
                             StepInv
  <2> QED  BY <2>1, <2>2, <2>3, <2>4, <2>5, <2>6, <2>7, <2>8, <2>9 DEF IInv, Running
<1>16. ASSUME Test PROVE IInv'
  <2>0. Alive /\ Running  BY <1>16, <1>a DEF Test, ReaderAt
  <2>1. TypeOK'
    BY <1>16, <1>a, <2>0, ContextType DEF Test, ReaderAt, shared, caller, wire, bounds, history,
                                          TypeOK, CallerStates, ReaderStates, NoReturn, Codes,
                                          Responses
  <2>2. PermitAccounting'
    BY <1>16, <1>a, <2>0 DEF Test, ReaderAt, shared, caller, wire, bounds, history, TypeOK,
                             PermitAccounting, Unposted, InFlight, Waiting, Count, Running,
                             LockInv, Inside
  <2>3. OwnResponse'
    BY <1>16, <1>a, <2>0 DEF Test, ReaderAt, shared, caller, wire, bounds, history, TypeOK,
                             OwnResponse, NoReturn, Codes
  <2>4. NoSpuriousFailure'
    BY <1>16, <1>a, <2>0 DEF Test, ReaderAt, shared, caller, wire, bounds, history, TypeOK,
                             NoSpuriousFailure, NoReturn, Codes
  <2>5. LockInv'
    BY <1>16, <1>a, <2>0 DEF Test, ReaderAt, shared, caller, wire, bounds, history, TypeOK,
                             Running, LockInv, Inside, CallerStates
  <2>6. ContextInv'
    BY <1>16, <1>a, <2>0 DEF Test, ReaderAt, shared, caller, wire, bounds, history, TypeOK,
                             Running, ContextInv, Window
  <2>7. CurrentInv'
    BY <1>16, <1>a, <2>0 DEF Test, ReaderAt, shared, caller, wire, bounds, history, TypeOK,
                             Running, CurrentInv, Window, Written
  <2>8. HeldInv'
    BY <1>16, <1>a, <2>0 DEF Test, ReaderAt, shared, caller, wire, bounds, history, TypeOK,
                             Running, HeldInv, Readable, Pending, Responses
  <2>9. StepInv'
    BY <1>16, <1>a, <2>0 DEF Test, ReaderAt, shared, caller, wire, bounds, history, TypeOK,
                             Running, StepInv
  <2> QED  BY <2>1, <2>2, <2>3, <2>4, <2>5, <2>6, <2>7, <2>8, <2>9 DEF IInv, Running
<1>17. ASSUME Free PROVE IInv'
  <2>0. Alive /\ Running  BY <1>17, <1>a DEF Free, ReaderAt
  <2>1. TypeOK'
    BY <1>17, <1>a, <2>0, ContextType DEF Free, ReaderAt, shared, caller, wire, bounds, history,
                                          TypeOK, CallerStates, ReaderStates, NoReturn, Codes,
                                          Responses
  <2>2. PermitAccounting'
    BY <1>17, <1>a, <2>0 DEF Free, ReaderAt, shared, caller, wire, bounds, history, TypeOK,
                             PermitAccounting, Unposted, InFlight, Waiting, Count, Running,
                             LockInv, Inside
  <2>3. OwnResponse'
    BY <1>17, <1>a, <2>0 DEF Free, ReaderAt, shared, caller, wire, bounds, history, TypeOK,
                             OwnResponse, NoReturn, Codes
  <2>4. NoSpuriousFailure'
    BY <1>17, <1>a, <2>0 DEF Free, ReaderAt, shared, caller, wire, bounds, history, TypeOK,
                             NoSpuriousFailure, NoReturn, Codes
  <2>5. LockInv'
    BY <1>17, <1>a, <2>0 DEF Free, ReaderAt, shared, caller, wire, bounds, history, TypeOK,
                             Running, LockInv, Inside, CallerStates
  <2>6. ContextInv'
    BY <1>17, <1>a, <2>0 DEF Free, ReaderAt, shared, caller, wire, bounds, history, TypeOK,
                             Running, ContextInv, Window
  <2>7. CurrentInv'
    BY <1>17, <1>a, <2>0 DEF Free, ReaderAt, shared, caller, wire, bounds, history, TypeOK,
                             Running, CurrentInv, Window, Written
  <2>8. HeldInv'
    BY <1>17, <1>a, <2>0 DEF Free, ReaderAt, shared, caller, wire, bounds, history, TypeOK,
                             Running, HeldInv, Readable, Pending, Responses
  <2>9. StepInv'
    BY <1>17, <1>a, <2>0 DEF Free, ReaderAt, shared, caller, wire, bounds, history, TypeOK,
                             Running, StepInv
  <2> QED  BY <2>1, <2>2, <2>3, <2>4, <2>5, <2>6, <2>7, <2>8, <2>9 DEF IInv, Running
<1>18. ASSUME Store PROVE IInv'
  <2>0. Alive /\ Running  BY <1>18, <1>a DEF Store, ReaderAt
  <2>1. TypeOK'
    BY <1>18, <1>a, <2>0, ContextType DEF Store, ReaderAt, caller, wire, bounds, history,
                                          TypeOK, CallerStates, ReaderStates, NoReturn, Codes,
                                          Responses
  <2>2. PermitAccounting'
    BY <1>18, <1>a, <2>0 DEF Store, ReaderAt, caller, wire, bounds, history, TypeOK,
                             PermitAccounting, Unposted, InFlight, Waiting, Count, Running,
                             LockInv, Inside
  <2>3. OwnResponse'
    BY <1>18, <1>a, <2>0 DEF Store, ReaderAt, caller, wire, bounds, history, TypeOK,
                             OwnResponse, NoReturn, Codes
  <2>4. NoSpuriousFailure'
    BY <1>18, <1>a, <2>0 DEF Store, ReaderAt, caller, wire, bounds, history, TypeOK,
                             NoSpuriousFailure, NoReturn, Codes
  <2>5. LockInv'
    BY <1>18, <1>a, <2>0 DEF Store, ReaderAt, caller, wire, bounds, history, TypeOK, Running,
                             LockInv, Inside, CallerStates
  <2>6. ContextInv'
    BY <1>18, <1>a, <2>0 DEF Store, ReaderAt, caller, wire, bounds, history, TypeOK, Running,
                             ContextInv, Window
  <2>7. CurrentInv'
    BY <1>18, <1>a, <2>0 DEF Store, ReaderAt, caller, wire, bounds, history, TypeOK, Running,
                             CurrentInv, Window, Written
  <2>8. HeldInv'
    BY <1>18, <1>a, <2>0 DEF Store, ReaderAt, caller, wire, bounds, history, TypeOK, Running,
                             HeldInv, Readable, Pending, Responses
  <2>9. StepInv'
    <3>1. /\ rpc = "store" /\ rpc' = "post" /\ cmd_response' = rres
          /\ UNCHANGED <<timeouts, dropped, sent, res, pc>>
      BY <1>18 DEF Store, ReaderAt, wire, caller, bounds
    <3>2. timeouts = 0 => /\ rres = Len(sent)
                          /\ \A d \in Callers : pc[d] \notin {"take", "clear", "check"}
      BY <1>a, <2>0, <3>1, Busy DEF Running, HeldInv, Pending
    <3> QED  BY <3>1, <3>2 DEF StepInv
  <2> QED  BY <2>1, <2>2, <2>3, <2>4, <2>5, <2>6, <2>7, <2>8, <2>9 DEF IInv, Running
<1>19. ASSUME Post PROVE IInv'
  <2>0. Alive /\ Running  BY <1>19, <1>a DEF Post, ReaderAt
  <2>1. TypeOK'
    <3>1. /\ cmd_mutex' \in Callers \cup {NULL} /\ cmd_context' \in 0 .. CtxMod - 1
          /\ cmd_sem' \in 0 .. SemMax /\ cmd_response' \in {NULL} \cup Responses
      BY <1>19, <1>a, ContextType DEF Post, ReaderAt, caller, wire, bounds, history, TypeOK,
                                      Responses
    <3>2. /\ pc' \in [Callers -> CallerStates] /\ want' \in [Callers -> BOOLEAN]
          /\ res' \in [Callers -> {NULL} \cup Responses]
      BY <1>19, <1>a DEF Post, ReaderAt, caller, wire, bounds, history, TypeOK, CallerStates
    <3>3. ret' \in [Callers -> [code : {"none"} \cup Codes, cmd : {NULL} \cup Nat, res : {NULL} \cup Responses]]
      BY <1>19, <1>a DEF Post, ReaderAt, caller, wire, bounds, history, TypeOK, Codes
    <3>4. /\ rpc' \in ReaderStates /\ rres' \in {NULL} \cup Responses
          /\ sent' \in Seq(0 .. CtxMod - 1) /\ received' \in 0 .. Len(sent')
          /\ connected' \in BOOLEAN
      BY <1>19, <1>a DEF Post, ReaderAt, caller, wire, bounds, history, TypeOK, ReaderStates,
                         Responses
    <3>5. freed' \subseteq Responses
      BY <1>19, <1>a DEF Post, ReaderAt, caller, wire, bounds, history, TypeOK, Responses,
                         Matches
    <3>6. /\ timeouts' \in Nat /\ dropped' \in Nat /\ calls' \in Nat
          /\ settled' \in 0 .. Len(sent') /\ start' \in 0 .. CtxMod - 1 /\ attempts' \in 0 .. MaxAttempts
      BY <1>19, <1>a, ContextType DEF Post, ReaderAt, caller, wire, bounds, history, TypeOK,
                                      Responses
    <3> QED  BY <3>1, <3>2, <3>3, <3>4, <3>5, <3>6 DEF TypeOK
  <2>2. PermitAccounting'
    BY <1>19, <1>a, <2>0 DEF Post, ReaderAt, caller, wire, bounds, history, TypeOK,
                             PermitAccounting, Unposted, InFlight, Waiting, Count, Running,
                             LockInv, Inside
  <2>3. OwnResponse'
    BY <1>19, <1>a, <2>0 DEF Post, ReaderAt, caller, wire, bounds, history, TypeOK, OwnResponse,
                             NoReturn, Codes
  <2>4. NoSpuriousFailure'
    BY <1>19, <1>a, <2>0 DEF Post, ReaderAt, caller, wire, bounds, history, TypeOK,
                             NoSpuriousFailure, NoReturn, Codes
  <2>5. LockInv'
    BY <1>19, <1>a, <2>0 DEF Post, ReaderAt, caller, wire, bounds, history, TypeOK, Running,
                             LockInv, Inside, CallerStates
  <2>6. ContextInv'
    BY <1>19, <1>a, <2>0 DEF Post, ReaderAt, caller, wire, bounds, history, TypeOK, Running,
                             ContextInv, Window
  <2>7. CurrentInv'
    BY <1>19, <1>a, <2>0 DEF Post, ReaderAt, caller, wire, bounds, history, TypeOK, Running,
                             CurrentInv, Window, Written
  <2>8. HeldInv'
    BY <1>19, <1>a, <2>0 DEF Post, ReaderAt, caller, wire, bounds, history, TypeOK, Running,
                             HeldInv, Readable, Pending, Responses
  <2>9. StepInv'
    BY <1>19, <1>a, <2>0 DEF Post, ReaderAt, caller, wire, bounds, history, TypeOK, Running,
                             StepInv
  <2> QED  BY <2>1, <2>2, <2>3, <2>4, <2>5, <2>6, <2>7, <2>8, <2>9 DEF IInv, Running
<1>20. ASSUME PostFails PROVE IInv'
  <2>0. Alive /\ Running  BY <1>20, <1>a DEF PostFails, ReaderAt
  <2>a. rres \in Responses
    <3>1. rpc \in Pending \cup {"post"}  BY <1>20 DEF PostFails, ReaderAt
    <3>2. rres = received /\ received > 0  BY <2>0, <3>1 DEF Running, HeldInv
    <3> QED  BY <1>a, <3>2 DEF TypeOK, Responses
  <2>1. TypeOK'
    <3>1. /\ cmd_mutex' \in Callers \cup {NULL} /\ cmd_context' \in 0 .. CtxMod - 1
          /\ cmd_sem' \in 0 .. SemMax /\ cmd_response' \in {NULL} \cup Responses
      BY <1>20, <1>a, <2>a, ContextType DEF PostFails, ReaderAt, shared, caller, wire, history,
                                            TypeOK, Responses
    <3>2. /\ pc' \in [Callers -> CallerStates] /\ want' \in [Callers -> BOOLEAN]
          /\ res' \in [Callers -> {NULL} \cup Responses]
      BY <1>20, <1>a, <2>a DEF PostFails, ReaderAt, shared, caller, wire, history, TypeOK,
                               CallerStates
    <3>3. ret' \in [Callers -> [code : {"none"} \cup Codes, cmd : {NULL} \cup Nat, res : {NULL} \cup Responses]]
      BY <1>20, <1>a, <2>a DEF PostFails, ReaderAt, shared, caller, wire, history, TypeOK, Codes
    <3>4. /\ rpc' \in ReaderStates /\ rres' \in {NULL} \cup Responses
          /\ sent' \in Seq(0 .. CtxMod - 1) /\ received' \in 0 .. Len(sent')
          /\ connected' \in BOOLEAN
      BY <1>20, <1>a, <2>a DEF PostFails, ReaderAt, shared, caller, wire, history, TypeOK,
                               ReaderStates, Responses
    <3>5. freed' \subseteq Responses
      BY <1>20, <1>a, <2>a, <2>0 DEF PostFails, ReaderAt, shared, caller, wire, history, TypeOK,
                                     Responses, Matches, Running, HeldInv, Pending
    <3>6. /\ timeouts' \in Nat /\ dropped' \in Nat /\ calls' \in Nat
          /\ settled' \in 0 .. Len(sent') /\ start' \in 0 .. CtxMod - 1 /\ attempts' \in 0 .. MaxAttempts
      BY <1>20, <1>a, <2>a, ContextType DEF PostFails, ReaderAt, shared, caller, wire, history,
                                            TypeOK, Responses
    <3> QED  BY <3>1, <3>2, <3>3, <3>4, <3>5, <3>6 DEF TypeOK
  <2>2. PermitAccounting'
    BY <1>20, <1>a, <2>0 DEF PostFails, ReaderAt, shared, caller, wire, history, TypeOK,
                             PermitAccounting, Unposted, InFlight, Waiting, Count, Running,
                             LockInv, Inside
  <2>3. OwnResponse'
    BY <1>20, <1>a, <2>0 DEF PostFails, ReaderAt, shared, caller, wire, history, TypeOK,
                             OwnResponse, NoReturn, Codes
  <2>4. NoSpuriousFailure'
    BY <1>20, <1>a, <2>0 DEF PostFails, ReaderAt, shared, caller, wire, history, TypeOK,
                             NoSpuriousFailure, NoReturn, Codes
  <2>5. LockInv'
    BY <1>20, <1>a, <2>0 DEF PostFails, ReaderAt, shared, caller, wire, history, TypeOK,
                             Running, LockInv, Inside, CallerStates
  <2>6. ContextInv'
    BY <1>20, <1>a, <2>0 DEF PostFails, ReaderAt, shared, caller, wire, history, TypeOK,
                             Running, ContextInv, Window
  <2>7. CurrentInv'
    BY <1>20, <1>a, <2>0 DEF PostFails, ReaderAt, shared, caller, wire, history, TypeOK,
                             Running, CurrentInv, Window, Written
  <2>8. HeldInv'
    BY <1>20, <1>a, <2>0 DEF PostFails, ReaderAt, shared, caller, wire, history, TypeOK,
                             Running, HeldInv, Readable, Pending, Responses
  <2>9. StepInv'
    BY <1>20, <1>a, <2>0 DEF PostFails, ReaderAt, shared, caller, wire, history, TypeOK,
                             Running, StepInv
  <2> QED  BY <2>1, <2>2, <2>3, <2>4, <2>5, <2>6, <2>7, <2>8, <2>9 DEF IInv, Running
<1> QED
  BY <1>0, <1>1, <1>2, <1>3, <1>4, <1>5, <1>6, <1>7, <1>8, <1>9, <1>10, <1>11, <1>12, <1>13, <1>14, <1>15, <1>16, <1>17, <1>18, <1>19, <1>20
     DEF Next, Command

-----------------------------------------------------------------------------
(* The inductive invariant holds in every reachable state of the protocol. *)
THEOREM Invariance == Spec => []IInv
<1>1. Init => IInv
  BY InitInv
<1>2. IInv /\ [Next]_vars => IInv'
  BY NextInv
<1> QED
  BY <1>1, <1>2, PTL DEF Spec

(* The context stays a char, cmd_sem never exceeds SEM_VALUE_MAX and the   *)
(* client never reads more responses than it wrote commands.               *)
THEOREM TypeCorrect == Spec => []TypeOK
<1>1. IInv => TypeOK
  BY DEF IInv
<1> QED
  BY <1>1, Invariance, PTL

(* The permits of cmd_sem, the responses on their way and those dropped    *)
(* are exactly the timeouts and the waiting caller: a timeout leaves one   *)
(* permit too many for ever.                                               *)
THEOREM PermitsCounted == Spec => []PermitAccounting
<1>1. IInv => PermitAccounting
  BY DEF IInv
<1> QED
  BY <1>1, Invariance, PTL

(* command() never returns the answer to another command, whatever was     *)
(* late, dropped or left over, as long as a context does not come round    *)
(* again before a response matched (MaxAttempts \in 1 .. CtxMod).          *)
THEOREM ResponsesMatch == Spec => []OwnResponse
<1>1. IInv => OwnResponse
  BY DEF IInv
<1> QED
  BY <1>1, Invariance, PTL

(* Without a timeout and without a failed write no command fails.          *)
THEOREM FailuresExplained == Spec => []NoSpuriousFailure
<1>1. IInv => NoSpuriousFailure
  BY DEF IInv
<1> QED
  BY <1>1, Invariance, PTL

-----------------------------------------------------------------------------
(* What holds until the first command times out: the client is in step     *)
(* with the device, and every response that was read has exactly one       *)
(* place: the reader's hand, cmd_response, a caller's hand, or freed.  The *)
(* invariant above says which response can be where; this one adds who may *)
(* still free it.                                                          *)
Taken == {"clear", "check", "use"}  \* the caller has a response in its hand

OnlyRead    == freed \subseteq 1 .. received
ReaderOwns  == IF rpc \in Pending \cup {"post"} THEN rres \notin freed ELSE rres = NULL
StoredOwned == cmd_response # NULL => cmd_response \notin freed
CallersOwn  ==
  /\ \A c \in Callers : /\ pc[c] \notin Taken => res[c] = NULL
                        /\ res[c] # NULL => res[c] \notin freed
                        /\ pc[c] = "use" => res[c] <= settled
  /\ \A c, d \in Callers : pc[c] = "use" /\ pc[d] = "use" /\ res[c] = res[d] => c = d

Owned == Alive /\ OnlyRead /\ ReaderOwns /\ StoredOwned /\ CallersOwn /\ NoLeak
OwnInv == timeouts = 0 => Owned

LEMMA InitOwn == Init => OwnInv
BY CommandAssumption DEF Init, OwnInv, Owned, Alive, OnlyRead, ReaderOwns, StoredOwned, CallersOwn,
   NoLeak, Taken, Pending

-----------------------------------------------------------------------------
(* Timeouts are never taken back. *)
LEMMA TimeoutsGrow == IInv /\ [Next]_vars /\ timeouts' = 0 => timeouts = 0
<1> SUFFICES ASSUME TypeOK, [Next]_vars, timeouts' = 0 PROVE timeouts = 0
  BY DEF IInv
<1>1. ASSUME NEW c \in Callers, Command(c) PROVE timeouts = 0
  <2>1. CASE Timeout(c)
    BY <2>1 DEF Timeout, TypeOK
  <2>2. CASE ~Timeout(c)
    BY <1>1, <2>2 DEF Command, Call, Begin, Write, WriteFails, Wait, Take, Clear, NoResponse,
                      Mismatch, Match, Settle, Crash, Release, bounds
  <2> QED
    BY <2>1, <2>2
<1>2. CASE Receive \/ Drop \/ Test \/ Free \/ Store \/ Post \/ PostFails
  BY <1>2 DEF Receive, Drop, Test, Free, Store, Post, PostFails, bounds
<1>3. CASE UNCHANGED vars
  BY <1>3 DEF vars, bounds
<1> QED
  BY <1>1, <1>2, <1>3 DEF Next

(* What the numbers are. *)
LEMMA Numbers ==
  ASSUME TypeOK
  PROVE  /\ Len(sent) \in Nat /\ received \in Nat /\ received <= Len(sent)
         /\ settled \in Nat /\ NULL \notin Nat
         /\ cmd_response # NULL => cmd_response \in Nat /\ cmd_response > 0
         /\ rres # NULL => rres \in Nat /\ rres > 0
         /\ \A c \in Callers : res[c] # NULL => res[c] \in Nat /\ res[c] > 0
BY CommandAssumption DEF TypeOK, Responses

(* A caller that holds no response moves on, without getting one. *)
LEMMA Elsewhere ==
  ASSUME TypeOK, Owned, NEW c \in Callers, pc[c] \notin Taken,
         NEW s \in CallerStates \ (Taken \cup {"crashed"}), pc' = [pc EXCEPT ![c] = s],
         UNCHANGED <<freed, received, rpc, rres, cmd_response, settled, res>>
  PROVE  Owned'
<1>1. \A d \in Callers : pc'[d] = IF d = c THEN s ELSE pc[d]
  BY DEF TypeOK
<1>2. Alive'
  BY <1>1 DEF Owned, Alive
<1>3. CallersOwn'
  BY <1>1 DEF Owned, CallersOwn, Taken
<1> QED
  BY <1>2, <1>3 DEF Owned, OnlyRead, ReaderOwns, StoredOwned, NoLeak

(* In step: the caller that is past its wait holds the response to its own *)
(* command, which is the last that was read, and the reader none.          *)
LEMMA PastWait ==
  ASSUME IInv, timeouts = 0, Owned, NEW c \in Callers, pc[c] \in {"take", "clear", "check"}
  PROVE  /\ Running /\ received = Len(sent) /\ settled < Len(sent)
         /\ rpc \notin Pending \cup {"post"} /\ rres = NULL
         /\ pc[c] = "take" => cmd_response = Len(sent)
         /\ pc[c] = "clear" => res[c] = Len(sent) /\ cmd_response = res[c]
         /\ pc[c] = "check" => res[c] = Len(sent) /\ cmd_response = NULL /\ Matches(c)
         /\ \A d \in Callers : d # c => pc[d] \notin {"clear", "check"}
<1>1. TypeOK /\ PermitAccounting /\ Running
  BY DEF IInv, Owned
<1>2. received = Len(sent) /\ rpc \notin Pending \cup {"post"}
  BY <1>1, Quiet DEF Running, Pending
<1>3. /\ pc[c] = "take" => cmd_response = Len(sent)
      /\ pc[c] \in {"clear", "check"} => res[c] = Len(sent)
  BY <1>1 DEF Running, StepInv
<1>4. settled < Len(sent) /\ sent[Len(sent)] = cmd_context
  BY <1>1 DEF Running, CurrentInv, Written
<1>5. Readable = Len(sent)
  BY <1>2 DEF Readable
<1>6. pc[c] = "clear" => cmd_response = res[c]
  BY <1>1, <1>3, <1>5, Numbers DEF Running, HeldInv
<1>7. pc[c] = "check" => Matches(c) /\ cmd_response = NULL
  BY <1>1, <1>3, <1>4, <1>5, Numbers DEF Running, HeldInv, Matches
<1>8. \A d \in Callers : d # c => pc[d] \notin {"clear", "check"}
  BY <1>1 DEF Running, LockInv, Inside
<1>9. rres = NULL
  BY <1>2 DEF Owned, ReaderOwns
<1> QED
  BY <1>1, <1>2, <1>3, <1>4, <1>6, <1>7, <1>8, <1>9

(* In step: while the reader has a response in its hand nothing is stored, *)
(* and no permit is left.                                                  *)
LEMMA InHandOnly ==
  ASSUME IInv, timeouts = 0, Owned, rpc \in Pending \cup {"post"}
  PROVE  /\ Running /\ received = Len(sent) /\ rres = received /\ settled < received
         /\ cmd_sem = 0
         /\ rpc \in Pending => cmd_response = NULL
         /\ rpc = "post" => cmd_response = rres
<1>1. TypeOK /\ PermitAccounting /\ Running
  BY DEF IInv, Owned
<1>2. received = Len(sent) /\ \A c \in Callers : pc[c] \notin {"write", "take", "clear", "check"}
  BY <1>1, Busy DEF Running, Pending
<1>3. rres = received /\ received > 0
  BY <1>1 DEF Running, HeldInv
<1>4. cmd_sem = 0
  <2>1. Count(Waiting) \in {0, 1} /\ Unposted = 1
    BY DEF Count, Unposted, Pending
  <2>2. cmd_sem \in Nat /\ dropped \in Nat
    BY <1>1, CommandAssumption DEF TypeOK
  <2> QED
    BY <1>1, <1>2, <2>1, <2>2, Numbers DEF PermitAccounting, InFlight
<1>5. rpc \in Pending => cmd_response = NULL
  BY <1>1, <1>2, <1>4 DEF Running, StepInv, Pending
<1>6. rpc = "post" => cmd_response = rres
  BY <1>1, <1>2, <1>3 DEF Running, StepInv
<1>7. settled < received
  <2>1. CASE rpc \in Pending
    BY <1>1, <2>1, Numbers DEF Running, HeldInv, Readable
  <2>2. CASE rpc = "post"
    BY <1>1, <1>3, <1>6, <2>2, Numbers DEF Running, HeldInv
  <2> QED
    BY <2>1, <2>2
<1> QED
  BY <1>1, <1>2, <1>3, <1>4, <1>5, <1>6, <1>7

-----------------------------------------------------------------------------
(* A step of a caller, ... *)
LEMMA CommandOwn ==
  ASSUME IInv, timeouts = 0, timeouts' = 0, Owned, NEW c \in Callers, Command(c)
  PROVE  Owned'
<1>a. TypeOK /\ Running /\ NULL \notin Nat
  BY CommandAssumption DEF IInv, Owned
<1>b. \A s : pc' = [pc EXCEPT ![c] = s] => \A d \in Callers : pc'[d] = IF d = c THEN s ELSE pc[d]
  BY <1>a DEF TypeOK
<1>c. \A r : res' = [res EXCEPT ![c] = r] => \A d \in Callers : res'[d] = IF d = c THEN r ELSE res[d]
  BY <1>a DEF TypeOK
<1>1. CASE Call(c)
  BY <1>1, <1>a, Elsewhere DEF Call, Goto, At, shared, reader, history, CallerStates, Taken
<1>2. CASE Begin(c)
  BY <1>2, <1>a, Elsewhere DEF Begin, Goto, At, reader, CallerStates, Taken
<1>3. CASE Write(c)
  BY <1>3, <1>a, Elsewhere DEF Write, Goto, At, shared, reader, history, CallerStates, Taken
<1>4. CASE WriteFails(c)
  <2>1. res[c] = NULL /\ pc[c] = "write"
    BY <1>4 DEF WriteFails, At, Owned, CallersOwn, Taken
  <2>2. res' = res
    BY <1>4, <1>a, <2>1 DEF WriteFails, Return, TypeOK
  <2>3. pc' = [pc EXCEPT ![c] = "idle"]
    BY <1>4 DEF WriteFails, Return
  <2> QED
    BY <1>4, <1>a, <2>1, <2>2, <2>3, Elsewhere DEF WriteFails, reader, history, CallerStates, Taken
<1>5. CASE Wait(c)
  BY <1>5, <1>a, Elsewhere DEF Wait, Goto, At, reader, history, CallerStates, Taken
<1>6. CASE Timeout(c)
  BY <1>6, <1>a DEF Timeout, TypeOK
<1>7. CASE Take(c)
  <2>1. /\ pc[c] = "take" /\ UNCHANGED <<freed, received, rpc, rres, cmd_response, settled>>
        /\ \A d \in Callers : /\ pc'[d] = IF d = c THEN "clear" ELSE pc[d]
                              /\ res'[d] = IF d = c THEN cmd_response ELSE res[d]
    BY <1>7, <1>b, <1>c DEF Take, Goto, At, shared, reader, history
  <2>2. res[c] = NULL /\ cmd_response # NULL
    BY <1>a, <2>1, PastWait, Numbers DEF Owned, CallersOwn, Taken
  <2>3. NoLeak'
    BY <1>a, <2>1, <2>2, Numbers DEF Owned, NoLeak
  <2>4. CallersOwn'
    BY <2>1 DEF Owned, CallersOwn, StoredOwned, Taken
  <2> QED
    BY <2>1, <2>3, <2>4 DEF Owned, Alive, OnlyRead, ReaderOwns, StoredOwned
<1>8. CASE Clear(c)
  <2>1. /\ pc[c] = "clear" /\ UNCHANGED <<freed, received, rpc, rres, settled, res>>
        /\ cmd_response' = NULL
        /\ \A d \in Callers : pc'[d] = IF d = c THEN "check" ELSE pc[d]
    BY <1>8, <1>b DEF Clear, Goto, At, reader, history
  <2>2. cmd_response = res[c]
    BY <2>1, PastWait
  <2>3. NoLeak'
    BY <1>a, <2>1, <2>2, Numbers DEF Owned, NoLeak
  <2>4. CallersOwn'
    BY <2>1 DEF Owned, CallersOwn, Taken
  <2> QED
    BY <2>1, <2>3, <2>4 DEF Owned, Alive, OnlyRead, ReaderOwns, StoredOwned
<1>9. CASE NoResponse(c) \/ Mismatch(c)
  <2>1. pc[c] = "check" /\ ~Matches(c)
    BY <1>9 DEF NoResponse, Mismatch, At, Matches
  <2> QED
    BY <2>1, PastWait
<1>10. CASE Match(c)
  <2>1. /\ pc[c] = "check" /\ UNCHANGED <<received, rpc, rres, cmd_response>>
        /\ settled' = Len(sent)
    BY <1>10 DEF Match, Settle, At, reader
  <2>2. /\ res[c] = Len(sent) /\ cmd_response = NULL /\ rres = NULL
        /\ rpc \notin Pending \cup {"post"} /\ received = Len(sent) /\ settled < Len(sent)
        /\ \A d \in Callers : d # c => pc[d] \notin {"clear", "check"}
    BY <2>1, PastWait
  <2>3. \/ /\ pc' = [pc EXCEPT ![c] = "use"] /\ res' = [res EXCEPT ![c] = res[c]] /\ freed' = freed
        \/ /\ pc' = [pc EXCEPT ![c] = "idle"] /\ res' = [res EXCEPT ![c] = NULL]
           /\ freed' = freed \cup {res[c]}
    BY <1>10 DEF Match, Settle, Return
  <2>4. res[c] # NULL /\ res[c] \in 1 .. received
    BY <1>a, <2>2, Numbers
  <2>5. \A d \in Callers : d # c /\ res[d] # NULL => res[d] # res[c] /\ res[d] <= settled
    BY <1>a, <2>2, Numbers DEF Owned, CallersOwn, Taken
  <2>6. CASE /\ pc' = [pc EXCEPT ![c] = "use"] /\ res' = [res EXCEPT ![c] = res[c]]
             /\ freed' = freed
    <3>1. \A d \in Callers : pc'[d] = (IF d = c THEN "use" ELSE pc[d]) /\ res'[d] = res[d]
      BY <1>a, <2>6 DEF TypeOK
    <3>2. CallersOwn'
      <4>1. \A d \in Callers : /\ pc'[d] \notin Taken => res'[d] = NULL
                               /\ res'[d] # NULL => res'[d] \notin freed'
        BY <2>1, <2>6, <3>1 DEF Owned, CallersOwn, Taken
      <4>2. \A d \in Callers : pc'[d] = "use" => res'[d] <= settled' /\ res'[d] # NULL
        BY <1>a, <2>1, <2>2, <2>4, <2>5, <3>1, Numbers DEF Running, HeldInv
      <4>3. \A d, e \in Callers : pc'[d] = "use" /\ pc'[e] = "use" /\ res'[d] = res'[e] => d = e
        BY <2>5, <3>1, <4>2 DEF Owned, CallersOwn
      <4> QED
        BY <4>1, <4>2, <4>3 DEF CallersOwn
    <3> QED
      BY <2>1, <2>2, <2>6, <3>1, <3>2 DEF Owned, Alive, OnlyRead, ReaderOwns, StoredOwned, NoLeak
  <2>7. CASE /\ pc' = [pc EXCEPT ![c] = "idle"] /\ res' = [res EXCEPT ![c] = NULL]
             /\ freed' = freed \cup {res[c]}
    <3>1. \A d \in Callers : /\ pc'[d] = IF d = c THEN "idle" ELSE pc[d]
                             /\ res'[d] = IF d = c THEN NULL ELSE res[d]
      BY <2>7, <1>b, <1>c
    <3>2. CallersOwn'
      <4>1. \A d \in Callers : /\ pc'[d] \notin Taken => res'[d] = NULL
                               /\ res'[d] # NULL => res'[d] \notin freed'
        BY <2>1, <2>5, <2>7, <3>1 DEF Owned, CallersOwn, Taken
      <4>2. \A d \in Callers : pc'[d] = "use" => res'[d] <= settled'
        BY <1>a, <2>1, <2>2, <2>5, <3>1, Numbers DEF Running, HeldInv
      <4>3. \A d, e \in Callers : pc'[d] = "use" /\ pc'[e] = "use" /\ res'[d] = res'[e] => d = e
        BY <3>1 DEF Owned, CallersOwn
      <4> QED
        BY <4>1, <4>2, <4>3 DEF CallersOwn
    <3>3. NoLeak'
      BY <2>1, <2>7, <3>1 DEF Owned, NoLeak
    <3>4. OnlyRead'
      BY <2>1, <2>4, <2>7 DEF Owned, OnlyRead
    <3> QED
      BY <2>1, <2>2, <2>7, <3>1, <3>2, <3>3, <3>4 DEF Owned, Alive, ReaderOwns, StoredOwned
  <2> QED
    BY <2>3, <2>6, <2>7
<1>11. CASE Crash(c)
  <2>1. pc[c] \in Taken /\ res[c] \in freed
    BY <1>11 DEF Crash, Goto, At, Taken
  <2>2. res[c] # NULL
    BY <1>a, <2>1 DEF TypeOK, Responses
  <2> QED
    BY <2>1, <2>2 DEF Owned, CallersOwn
<1>12. CASE Release(c)
  <2>1. /\ pc[c] = "use" /\ UNCHANGED <<received, rpc, rres, cmd_response, settled>>
        /\ freed' = freed \cup {res[c]}
        /\ \A d \in Callers : /\ pc'[d] = IF d = c THEN "idle" ELSE pc[d]
                              /\ res'[d] = IF d = c THEN NULL ELSE res[d]
    BY <1>12, <1>b, <1>c DEF Release, Goto, At, shared, reader, history
  <2>2. res[c] # NULL /\ res[c] <= settled /\ settled <= received
    <3>1. Readable <= received /\ Readable \in Int /\ settled <= Readable
      BY <1>a, Numbers DEF Readable, Running, HeldInv
    <3> QED
      BY <1>a, <2>1, <3>1, Numbers DEF Owned, CallersOwn, Running, HeldInv
  <2>3. \A d \in Callers : d # c /\ res[d] # NULL => res[d] # res[c]
    <3>1. \A d \in Callers : d # c /\ pc[d] \in {"clear", "check"} /\ res[d] # NULL => settled < res[d]
      BY <1>a DEF Running, HeldInv
    <3> QED
      BY <1>a, <2>1, <2>2, <3>1, Numbers DEF Owned, CallersOwn, Taken
  <2>4. cmd_response # NULL => cmd_response # res[c]
    BY <1>a, <2>2, Numbers DEF Running, HeldInv
  <2>5. rpc \in Pending \cup {"post"} => rres # res[c]
    BY <1>a, <2>2, InHandOnly, Numbers
  <2>6. CallersOwn'
    <3>1. \A d \in Callers : /\ pc'[d] \notin Taken => res'[d] = NULL
                             /\ res'[d] # NULL => res'[d] \notin freed'
                             /\ pc'[d] = "use" => res'[d] <= settled'
      BY <2>1, <2>3 DEF Owned, CallersOwn, Taken
    <3> QED
      BY <2>1, <3>1 DEF Owned, CallersOwn
  <2>7. NoLeak'
    BY <2>1 DEF Owned, NoLeak
  <2>8. OnlyRead'
    <3>1. res[c] \in 1 .. received
      BY <1>a, <2>2, Numbers
    <3> QED
      BY <2>1, <3>1 DEF Owned, OnlyRead
  <2>9. ReaderOwns' /\ StoredOwned' /\ Alive'
    BY <2>1, <2>4, <2>5 DEF Owned, ReaderOwns, StoredOwned, Alive
  <2> QED
    BY <2>6, <2>7, <2>8, <2>9 DEF Owned
<1> QED
  BY <1>1, <1>2, <1>3, <1>4, <1>5, <1>6, <1>7, <1>8, <1>9, <1>10, <1>11, <1>12 DEF Command

(* ... and of the reader. *)
LEMMA ReaderOwn ==
  ASSUME IInv, timeouts = 0, Owned,
         Receive \/ Drop \/ Test \/ Free \/ Store \/ Post \/ PostFails
  PROVE  Owned'
<1>a. TypeOK /\ Running /\ NULL \notin Nat
  BY CommandAssumption DEF IInv, Owned
<1>b. UNCHANGED <<pc, res, settled>>
  BY DEF Receive, Drop, Test, Free, Store, Post, PostFails, caller, history
<1>c. Alive' /\ (\A c \in Callers : res[c] # NULL => res[c] <= received)
      /\ (cmd_response # NULL => cmd_response <= received)
  <2>1. Readable <= received /\ Readable \in Int /\ settled <= Readable
    BY <1>a, Numbers DEF Readable, Running, HeldInv
  <2>2. \A c \in Callers : res[c] # NULL => res[c] <= received
    BY <1>a, <2>1, Numbers DEF Owned, CallersOwn, Taken, Running, HeldInv
  <2>3. cmd_response # NULL => cmd_response <= received
    BY <1>a, <2>1, Numbers DEF Running, HeldInv
  <2> QED
    BY <1>b, <2>2, <2>3 DEF Owned, Alive
<1>d. freed' = freed => CallersOwn'
  BY <1>b DEF Owned, CallersOwn
<1>1. CASE Receive
  <2>1. /\ rpc = "read" /\ received' = received + 1 /\ rres' = received + 1 /\ rpc' = "test"
        /\ UNCHANGED <<freed, cmd_response>>
    BY <1>1 DEF Receive, ReaderAt, shared
  <2>2. rres = NULL /\ received + 1 \notin freed
    BY <1>a, <2>1, Numbers DEF Owned, ReaderOwns, OnlyRead, Pending
  <2>3. NoLeak'
    BY <1>a, <1>b, <2>1, <2>2, Numbers DEF Owned, NoLeak
  <2>4. OnlyRead' /\ ReaderOwns' /\ StoredOwned'
    BY <1>a, <2>1, <2>2, Numbers DEF Owned, OnlyRead, ReaderOwns, StoredOwned, Pending
  <2> QED
    BY <1>c, <1>d, <2>1, <2>3, <2>4 DEF Owned
<1>2. CASE Drop
  <2>1. /\ rpc = "read" /\ received' = received + 1 /\ freed' = freed \cup {received + 1}
        /\ UNCHANGED <<rpc, rres, cmd_response>>
    BY <1>2 DEF Drop, ReaderAt, shared
  <2>2. CallersOwn'
    <3>1. \A c \in Callers : res'[c] # NULL => res'[c] \notin freed'
      BY <1>a, <1>b, <1>c, <2>1, Numbers DEF Owned, CallersOwn
    <3> QED
      BY <1>b, <3>1 DEF Owned, CallersOwn
  <2>3. NoLeak'
    BY <1>a, <1>b, <2>1, Numbers DEF Owned, NoLeak
  <2>4. OnlyRead'
    <3>1. \A i \in freed : i \in 1 .. received + 1
      BY <1>a, Numbers DEF Owned, OnlyRead
    <3>2. received + 1 \in 1 .. received + 1
      BY <1>a, Numbers
    <3> QED
      BY <2>1, <3>1, <3>2 DEF OnlyRead
  <2>5. ReaderOwns'
    BY <2>1 DEF Owned, ReaderOwns, Pending
  <2>6. StoredOwned'
    BY <1>a, <1>c, <2>1, Numbers DEF Owned, StoredOwned
  <2> QED
    BY <1>c, <2>2, <2>3, <2>4, <2>5, <2>6 DEF Owned
<1>3. CASE Test \/ Free \/ Store
  <2>1. /\ rpc \in Pending /\ rpc' \in Pending \cup {"post"} /\ UNCHANGED <<received, rres>>
        /\ freed' = freed \/ freed' = freed \cup ({cmd_response} \ {NULL})
        /\ cmd_response' = cmd_response \/ cmd_response' = rres
    BY <1>3 DEF Test, Free, Store, ReaderAt, shared, Pending
  <2>2. cmd_response = NULL /\ freed' = freed
    BY <2>1, InHandOnly
  <2>3. rres \notin freed
    BY <2>1 DEF Owned, ReaderOwns
  <2>4. NoLeak'
    BY <1>a, <1>b, <2>1, <2>2, Numbers DEF Owned, NoLeak
  <2>5. OnlyRead' /\ ReaderOwns' /\ StoredOwned'
    BY <2>1, <2>2, <2>3 DEF Owned, OnlyRead, ReaderOwns, StoredOwned
  <2> QED
    BY <1>c, <1>d, <2>2, <2>4, <2>5 DEF Owned
<1>4. CASE Post
  <2>1. /\ rpc = "post" /\ rpc' = "read" /\ rres' = NULL
        /\ UNCHANGED <<freed, received, cmd_response>>
    BY <1>4 DEF Post, ReaderAt
  <2>2. cmd_response = rres
    BY <2>1, InHandOnly
  <2>3. NoLeak'
    BY <1>a, <1>b, <2>1, <2>2, Numbers DEF Owned, NoLeak
  <2>4. OnlyRead' /\ ReaderOwns' /\ StoredOwned'
    BY <2>1 DEF Owned, OnlyRead, ReaderOwns, StoredOwned, Pending
  <2> QED
    BY <1>c, <1>d, <2>1, <2>3, <2>4 DEF Owned
<1>5. CASE PostFails
  <2>1. rpc = "post" /\ cmd_sem = SemMax
    BY <1>5 DEF PostFails, ReaderAt
  <2> QED
    BY <2>1, InHandOnly, CommandAssumption
<1> QED
  BY <1>1, <1>2, <1>3, <1>4, <1>5

LEMMA NextOwn == IInv /\ OwnInv /\ [Next]_vars => OwnInv'
<1> SUFFICES ASSUME IInv, OwnInv, [Next]_vars, timeouts' = 0 PROVE Owned'
  BY DEF OwnInv
<1>1. timeouts = 0 /\ Owned
  BY TimeoutsGrow DEF OwnInv
<1>2. CASE UNCHANGED vars
  BY <1>1, <1>2 DEF vars, shared, caller, reader, history, Owned, Alive, OnlyRead, ReaderOwns,
                    StoredOwned, CallersOwn, NoLeak
<1> QED
  BY <1>1, <1>2, CommandOwn, ReaderOwn DEF Next

LEMMA OwnInvariance == Spec => []OwnInv
BY InitOwn, NextOwn, Invariance, PTL DEF Spec

-----------------------------------------------------------------------------
(* Until a command times out command() works with, hands over and frees no *)
(* response that somebody else has freed, for any number of callers.       *)
THEOREM NothingFreedTwice == Spec => []OwnedUntilTimeout
<1>1. TypeOK /\ OwnInv => OwnedUntilTimeout
  BY DEF OwnInv, Owned, CallersOwn, OwnedUntilTimeout, TakenIsOwned
<1> QED
  BY <1>1, OwnInvariance, TypeCorrect, PTL

(* Until a command times out no response that was read is forgotten.       *)
THEOREM NothingLeaks == Spec => []NoLeakUntilTimeout
<1>1. OwnInv => NoLeakUntilTimeout
  BY DEF OwnInv, Owned, NoLeakUntilTimeout
<1> QED
  BY <1>1, OwnInvariance, PTL

(* Nothing is left over between two commands. *)
LEMMA NothingLeftOver == IInv /\ OwnInv => InStep
<1> SUFFICES ASSUME IInv, OwnInv, timeouts = 0, cmd_mutex = NULL
             PROVE  cmd_sem = 0 /\ cmd_response = NULL /\ rpc = "read" /\ InFlight = 0
  BY DEF InStep
<1>1. TypeOK /\ PermitAccounting /\ Running
  BY DEF IInv, OwnInv, Owned
<1>2. cmd_sem \in Nat /\ dropped \in Nat /\ Unposted \in {0, 1} /\ InFlight \in Nat
  BY <1>1, Numbers, CommandAssumption DEF TypeOK, Unposted, Count, InFlight
<1>3. cmd_sem = 0 /\ Unposted = 0 /\ InFlight = 0 /\ dropped = 0
  BY <1>1, <1>2 DEF PermitAccounting, Waiting, Count
<1>4. rpc = "read"
  BY <1>1, <1>3 DEF Unposted, Count, TypeOK, ReaderStates, Running, StepInv
<1>5. \A c \in Callers : pc[c] \notin {"take", "clear"}
  BY <1>1, CommandAssumption DEF Running, LockInv, Inside
<1>6. cmd_response = NULL
  BY <1>1, <1>3, <1>4, <1>5 DEF Running, StepInv
<1> QED
  BY <1>3, <1>4, <1>6

(* Until a command times out nothing is left over between two commands:    *)
(* no permit, no response stored, none with the reader or on its way.      *)
THEOREM StaysInStep == Spec => []InStep
BY NothingLeftOver, OwnInvariance, Invariance, PTL

-----------------------------------------------------------------------------
(* The contexts of the commands with the constants of the source, as long  *)
(* as no command times out and no write fails.  A command advances the     *)
(* context once when it begins and once when its response matches.         *)
Letters == CtxFirst = 65 /\ CtxLast = 90 /\ CtxMod = 256   \* 'A', 'Z', char

ContextOf(k) == (64 + 2 * k) % 256

SentInv == \A k \in 1 .. Len(sent) : sent[k] = ContextOf(k)
NowInv ==
  /\ cmd_mutex = NULL => cmd_context = (65 + 2 * Len(sent)) % 256
  /\ \A c \in Callers : /\ pc[c] = "write" => cmd_context = (66 + 2 * Len(sent)) % 256
                        /\ pc[c] \in Written => cmd_context = (64 + 2 * Len(sent)) % 256
LettersInv == timeouts = 0 /\ connected => SentInv /\ NowInv

LEMMA InitLetters == Letters /\ Init => LettersInv
BY DEF Letters, Init, LettersInv, SentInv, NowInv, Written

(* A match makes the context odd, so that it never is the last letter.     *)
LEMMA NeverLast ==
  ASSUME Letters, NEW n \in Nat
  PROVE  /\ Increment((65 + 2 * n) % 256) = (66 + 2 * n) % 256
         /\ Advance((64 + 2 * n) % 256) = (65 + 2 * n) % 256
BY DEF Letters, Increment, Advance

(* A step that is nobody's lock, write or unlock leaves it as it is.       *)
LEMMA SameContext ==
  ASSUME LettersInv, timeouts = 0, connected,
         UNCHANGED <<sent, cmd_context, cmd_mutex>>,
         \A c \in Callers : /\ pc'[c] = "write" => pc[c] = "write"
                            /\ pc'[c] \in Written => pc[c] \in Written
  PROVE  LettersInv'
BY DEF LettersInv, SentInv, NowInv

LEMMA NextLetters ==
  Letters /\ IInv /\ OwnInv /\ IInv' /\ LettersInv /\ [Next]_vars => LettersInv'
<1> SUFFICES ASSUME Letters, IInv, OwnInv, IInv', LettersInv, [Next]_vars, timeouts' = 0, connected'
             PROVE  LettersInv'
  BY DEF LettersInv
<1>1. TypeOK /\ timeouts = 0 /\ Running /\ SentInv /\ NowInv /\ connected
  <2>1. TypeOK /\ timeouts = 0 /\ Running
    BY TimeoutsGrow DEF IInv, OwnInv, Owned
  <2>2. connected
    <3>1. ASSUME NEW c \in Callers, Command(c) PROVE connected
      BY <3>1 DEF Command, Call, Begin, Write, WriteFails, Wait, Timeout, Take, Clear, NoResponse,
                  Mismatch, Match, Settle, Crash, Release, wire
    <3>2. CASE ~(\E c \in Callers : Command(c))
      BY <3>2 DEF Next, Receive, Drop, Test, Free, Store, Post, PostFails, vars, wire
    <3> QED
      BY <3>1, <3>2
  <2> QED
    BY <2>1, <2>2 DEF LettersInv
<1>2. Len(sent) \in Nat /\ NULL \notin Callers
  BY <1>1, CommandAssumption DEF TypeOK
<1>3. CASE UNCHANGED vars
  BY <1>1, <1>3, SameContext DEF vars, shared, caller, wire
<1>4. CASE Receive \/ Drop \/ Test \/ Free \/ Store \/ Post \/ PostFails
  BY <1>1, <1>4, SameContext DEF Receive, Drop, Test, Free, Store, Post, PostFails, shared, caller, wire
<1>5. ASSUME NEW c \in Callers, Command(c) PROVE LettersInv'
  <2>1. CASE Call(c) \/ Wait(c) \/ Take(c) \/ Clear(c) \/ Crash(c) \/ Release(c)
    <3>1. /\ UNCHANGED <<sent, cmd_context, cmd_mutex>>
          /\ \E s : /\ pc' = [pc EXCEPT ![c] = s] /\ s # "write"
                    /\ s \in Written => pc[c] \in Written
      BY <2>1 DEF Call, Wait, Take, Clear, Crash, Release, Goto, At, shared, wire, Written
    <3> QED
      BY <1>1, <3>1, SameContext DEF TypeOK
  <2>2. CASE Begin(c)
    <3>1. /\ cmd_mutex = NULL /\ cmd_mutex' = c /\ pc' = [pc EXCEPT ![c] = "write"]
          /\ cmd_context' = Increment(cmd_context) /\ sent' = sent
      BY <2>2 DEF Begin, Goto, wire
    <3>2. \A d \in Callers : pc[d] \notin Inside
      BY <1>1, <1>2, <3>1 DEF Running, LockInv
    <3>3. cmd_context' = (66 + 2 * Len(sent)) % 256
      BY <1>1, <1>2, <3>1, NeverLast DEF NowInv
    <3>4. \A d \in Callers : pc'[d] \notin Written
      BY <1>1, <3>1, <3>2 DEF TypeOK, Inside, Written
    <3> QED
      BY <1>1, <1>2, <3>1, <3>3, <3>4 DEF LettersInv, SentInv, NowInv
  <2>3. CASE Write(c)
    <3>1. /\ pc[c] = "write" /\ pc' = [pc EXCEPT ![c] = "wait"]
          /\ sent' = Append(sent, cmd_context) /\ UNCHANGED <<cmd_mutex, cmd_context>>
      BY <2>3 DEF Write, Goto, At, shared
    <3>2. cmd_mutex = c /\ \A d \in Callers : d # c => pc[d] \notin Inside
      BY <1>1, <3>1 DEF Running, LockInv, Inside
    <3>3. Len(sent') = Len(sent) + 1 /\ cmd_context' = (64 + 2 * Len(sent')) % 256
      BY <1>1, <1>2, <2>3, <3>1, WriteAppends DEF NowInv
    <3>4. SentInv'
      <4> SUFFICES ASSUME NEW k \in 1 .. Len(sent') PROVE sent'[k] = ContextOf(k)
        BY DEF SentInv
      <4>1. CASE k \in 1 .. Len(sent)
        BY <1>1, <2>3, <4>1, WriteAppends DEF SentInv
      <4>2. CASE k = Len(sent')
        <5>1. sent'[k] = cmd_context'
          BY <1>1, <2>3, <3>1, <3>3, <4>2, WriteAppends
        <5> QED
          BY <3>3, <4>2, <5>1 DEF ContextOf
      <4> QED
        BY <1>2, <3>3, <4>1, <4>2
    <3>5. \A d \in Callers : pc'[d] # "write"
      BY <1>1, <3>1, <3>2 DEF TypeOK, Inside
    <3> QED
      BY <1>2, <3>1, <3>2, <3>3, <3>4, <3>5 DEF LettersInv, NowInv
  <2>4. CASE WriteFails(c) \/ Timeout(c)
    BY <1>1, <2>4 DEF WriteFails, Timeout, TypeOK
  <2>5. CASE NoResponse(c) \/ Mismatch(c)
    <3>1. ret'[c].code = "FAIL"
      BY <1>1, <2>5 DEF NoResponse, Mismatch, Return, TypeOK
    <3> QED
      BY <3>1 DEF IInv, NoSpuriousFailure
  <2>6. CASE Match(c)
    <3>1. /\ pc[c] = "check" /\ cmd_mutex' = NULL /\ sent' = sent
          /\ cmd_context' = Advance(cmd_context)
          /\ \E s \in {"use", "idle"} : pc' = [pc EXCEPT ![c] = s]
      BY <2>6 DEF Match, Settle, Return, At, wire
    <3>2. \A d \in Callers : d # c => pc[d] \notin Inside
      BY <1>1, <3>1 DEF Running, LockInv, Inside
    <3>3. cmd_context' = (65 + 2 * Len(sent)) % 256
      BY <1>1, <1>2, <3>1, NeverLast DEF NowInv, Written
    <3>4. \A d \in Callers : pc'[d] # "write" /\ pc'[d] \notin Written
      BY <1>1, <3>1, <3>2 DEF TypeOK, Inside, Written
    <3> QED
      BY <1>1, <3>1, <3>3, <3>4 DEF LettersInv, SentInv, NowInv
  <2> QED
    BY <1>5, <2>1, <2>2, <2>3, <2>4, <2>5, <2>6 DEF Command
<1> QED
  BY <1>3, <1>4, <1>5 DEF Next

(* From 'A' the context goes on by two from command to command, over       *)
(* 'Z' and out of the alphabet: the k-th command has the even char 64 + 2k,*)
(* the 96th has the char 0, which ends the string, and so does every 128th *)
(* after it.  (A reset to 'A' never takes place.)                          *)
ContextsRunOver ==
  timeouts = 0 /\ connected =>
    \A k \in 1 .. Len(sent) : /\ sent[k] = (64 + 2 * k) % 256
                              /\ sent[k] = 0 <=> (k + 32) % 128 = 0

THEOREM LettersRunOver == ASSUME Letters PROVE Spec => []ContextsRunOver
<1>1. Init => LettersInv
  BY InitLetters
<1>2. IInv /\ OwnInv /\ IInv' /\ LettersInv /\ [Next]_vars => LettersInv'
  BY NextLetters
<1>3. LettersInv /\ TypeOK => ContextsRunOver
  <2> SUFFICES ASSUME LettersInv, TypeOK, timeouts = 0, connected, NEW k \in 1 .. Len(sent)
               PROVE  sent[k] = (64 + 2 * k) % 256 /\ (sent[k] = 0 <=> (k + 32) % 128 = 0)
    BY DEF ContextsRunOver
  <2>1. k \in Nat /\ sent[k] = (64 + 2 * k) % 256
    BY DEF TypeOK, LettersInv, SentInv, ContextOf
  <2> QED
    BY <2>1
<1>4. IInv => TypeOK
  BY DEF IInv
<1> QED
  BY <1>1, <1>2, <1>3, <1>4, Invariance, OwnInvariance, PTL DEF Spec
=============================================================================
