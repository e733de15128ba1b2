--------------------------- MODULE MessageChannel ---------------------------
(***************************************************************************)
(* What one direction of the transport promises: whole messages, once each *)
(* and in order, until the channel is torn in the middle of a message.     *)
(* Nothing is promised after that.                                         *)
(***************************************************************************)
EXTENDS Naturals, Sequences

CONSTANT Payloads  \* what a message may be

VARIABLES posted,  \* the messages handed to the channel, oldest first
          taken,   \* the messages delivered
          torn     \* whether a part of a message has been lost

cvars == <<posted, taken, torn>>

Init == posted = <<>> /\ taken = <<>> /\ torn = FALSE

Post == \E p \in Payloads : posted' = Append(posted, p) /\ UNCHANGED <<taken, torn>>

Take == /\ ~torn /\ Len(taken) < Len(posted)
        /\ taken' = Append(taken, posted[Len(taken) + 1])
        /\ UNCHANGED <<posted, torn>>

Tear == ~torn /\ torn' = TRUE /\ UNCHANGED <<posted, taken>>

TakeAnything == torn /\ Len(taken') = Len(taken) + 1 /\ UNCHANGED <<posted, torn>>

Next == Post \/ Take \/ Tear \/ TakeAnything

Spec == Init /\ [][Next]_cvars
=============================================================================
