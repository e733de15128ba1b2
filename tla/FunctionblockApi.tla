-------------------------- MODULE FunctionblockApi --------------------------
(***************************************************************************)
(* The calls of the library around command() and the stream queue: those   *)
(* of functionblock.c, and what the device modules (binaryiotypea,         *)
(* analogintypea, canl2, mvbsniffer) add to them.  Who owns which message  *)
(* on the heap, and what a call reports, whatever the device answered.     *)
(* command() and io4e_streamq_pop are taken as FunctionblockCommand and    *)
(* StreamQ show them: they hand over a message or fail.                    *)
(***************************************************************************)
EXTENDS Naturals

CONSTANT MaxCalls  \* bound: calls of the library

ASSUME ApiAssumption == MaxCalls \in Nat

VARIABLES at,       \* the statement of the call
          call,     \* its number, and the operation
          op,
          message,  \* the response, or stream data, that it looks at
          code,     \* what the last call returned
          live,     \* the messages on the heap: what they are, and of which call
          handed,   \* those the application has to free
          refused   \* history: the stream data that read_stream refused

heap == <<live, handed, refused>>
vars == <<at, call, op, message, code, heap>>

(* No response is looked at; the response is checked, and dropped;         *)
(* unpacked, and handed over; unpacked, and a value copied from it.        *)
Commands == {"upload_configuration", "start_stream", "stop_stream"}
Setters == {"set_output", "set_all_outputs", "exit_error_state", "send_frames", "send_pattern"}
Getters == {"download_configuration", "describe", "function_control_set", "function_control_get"}
Typed   == {"input", "all_inputs"}
Readers == Typed \cup {"value", "ctrl_state"}
Operations == Commands \cup Setters \cup Getters \cup Readers \cup {"read_stream"}

(* The type and action that the response must have.                        *)
Action(o) == CASE o \in Setters -> "function_control_set"
               [] o \in Readers -> "function_control_get"
               [] OTHER         -> o

(* What the device may send: a response of any type and action, its        *)
(* payload of the type that was asked for or another, unpackable or not;   *)
(* stream data with or without its functionspecificstreamdata.             *)
Responses == [action : Getters \cup {"other"}, typed : BOOLEAN, unpackable : BOOLEAN]
StreamData == [present : BOOLEAN, unpackable : BOOLEAN]
Nothing == [present |-> FALSE, unpackable |-> FALSE]

The(what) == <<what, call>>

Init == /\ at = "idle" /\ call = 0 /\ op = "stop_stream" /\ message = Nothing
        /\ code = "OK" /\ live = {} /\ handed = {} /\ refused = {}

Return(c) == at' = "idle" /\ code' = c /\ message' = Nothing /\ UNCHANGED <<call, op>>
Continue(from, to) == at = from /\ at' = to /\ UNCHANGED <<call, op, message, code>>

-----------------------------------------------------------------------------
Request == /\ at = "idle" /\ call < MaxCalls
           /\ call' = call + 1
           /\ op' \in Operations
           /\ at' = IF op' = "read_stream" THEN "pop" ELSE "command"
           /\ UNCHANGED <<message, code, heap>>

(* A timeout, a write that fails, an error of the device: no response.     *)
CommandFails == /\ at = "command"
                /\ Return("FAIL")
                /\ UNCHANGED heap

(* Called without res_p, command() has freed the response.                 *)
CommandDone == /\ at = "command" /\ op \in Commands
               /\ Return("OK")
               /\ UNCHANGED heap

CommandResponds == /\ at = "command" /\ op \notin Commands
                   /\ at' = "check"
                   /\ message' \in Responses
                   /\ live' = live \cup {The("response")}
                   /\ UNCHANGED <<call, op, code, handed, refused>>

(* Mutant: EXIT_PROTO returns without freeing the response. *)
RefuseLeaks == /\ at = "check"
               /\ message.action # Action(op) \/ (op \notin Setters /\ ~message.unpackable)
               /\ Return("PROTOBUF")
               /\ UNCHANGED heap

(* Another type or action, or a payload that cannot be unpacked.           *)
Refuse == /\ at = "check"
          /\ message.action # Action(op) \/ (op \notin Setters /\ ~message.unpackable)
          /\ Return("PROTOBUF")
          /\ live' = live \ {The("response")}
          /\ UNCHANGED <<handed, refused>>

Accept == /\ at = "check" /\ op \in Setters /\ message.action = Action(op)
          /\ Return("OK")
          /\ live' = live \ {The("response")}
          /\ UNCHANGED <<handed, refused>>

(* Mutant: the type and action of the response are not looked at. *)
UnpackUnchecked == /\ Continue("check", "free")
                   /\ op \notin Setters /\ message.unpackable
                   /\ live' = live \cup {The("unpacked")}
                   /\ UNCHANGED <<handed, refused>>

Unpack == /\ Continue("check", "free")
          /\ op \notin Setters /\ message.action = Action(op) /\ message.unpackable
          /\ live' = live \cup {The("unpacked")}
          /\ UNCHANGED <<handed, refused>>

FreeResponse == /\ Continue("free", "copy")
                /\ op \in Readers
                /\ live' = live \ {The("response")}
                /\ UNCHANGED <<handed, refused>>

HandOver == /\ at = "free" /\ op \in Getters
            /\ Return("OK")
            /\ live' = live \ {The("response")}
            /\ handed' = handed \cup {The("unpacked")}
            /\ UNCHANGED refused

(* input and all_inputs look at the type inside the payload, too.          *)
WrongType == /\ at = "copy" /\ op \in Typed /\ ~message.typed
             /\ Return("PROTOBUF")
             /\ live' = live \ {The("unpacked")}
             /\ UNCHANGED <<handed, refused>>

Copy == /\ at = "copy" /\ (op \in Typed => message.typed)
        /\ Return("OK")
        /\ live' = live \ {The("unpacked")}
        /\ UNCHANGED <<handed, refused>>

-----------------------------------------------------------------------------
(* io4edge_functionblock_read_stream *)
PopTimesOut == /\ at = "pop"
               /\ Return("TIMEOUT")
               /\ UNCHANGED heap

Pop == /\ at = "pop" /\ at' = "popped"
       /\ message' \in StreamData
       /\ live' = live \cup {The("stream data")}
       /\ UNCHANGED <<call, op, code, handed, refused>>

(* The stream data stays where it is: neither handed over nor freed.       *)
RefuseStream == /\ at = "popped" /\ ~(message.present /\ message.unpackable)
                /\ Return("PROTOBUF")
                /\ refused' = refused \cup {The("stream data")}
                /\ UNCHANGED <<live, handed>>

HandOverStream == /\ at = "popped" /\ message.present /\ message.unpackable
                  /\ Return("OK")
                  /\ live' = live \cup {The("unpacked")}
                  /\ handed' = handed \cup {The("stream data"), The("unpacked")}
                  /\ UNCHANGED refused

(* The application frees what it was handed. *)
AppFrees == /\ at = "idle"
            /\ \E m \in handed : live' = live \ {m} /\ handed' = handed \ {m}
            /\ UNCHANGED <<at, call, op, message, code, refused>>

Next == \/ Request \/ CommandFails \/ CommandDone \/ CommandResponds
        \/ Refuse \/ Accept \/ Unpack \/ FreeResponse \/ HandOver \/ WrongType \/ Copy
        \/ PopTimesOut \/ Pop \/ RefuseStream \/ HandOverStream \/ AppFrees

Spec == Init /\ [][Next]_vars

-----------------------------------------------------------------------------
(* What the call under way works with, and has to free on every way out. *)
InHand == (IF at \in {"check", "free"} THEN {The("response")} ELSE {})
          \cup (IF at \in {"free", "copy"} THEN {The("unpacked")} ELSE {})
          \cup (IF at = "popped" THEN {The("stream data")} ELSE {})

(* The messages on the heap are those of the application and of the call  *)
(* under way, and those that are nobody's: the stream data, of every call  *)
(* of read_stream that refused what it popped, and of no other.            *)
EveryMessageOwned == live = handed \cup InHand \cup refused

(* A call hands messages over if and only if it returns OK, and then the   *)
(* device answered what was asked.                                         *)
HandsOver == op \in Getters \cup {"read_stream"}
ReturnsWhatWasAsked ==
  [][at # "idle" /\ at' = "idle" =>
       /\ handed' # handed <=> code' = "OK" /\ HandsOver
       /\ code' = "OK" /\ op \in Getters \cup Setters \cup Readers => message.action = Action(op)
       /\ code' = "OK" /\ op \in Typed => message.typed]_vars
=============================================================================
