------------------------------ MODULE Deadline ------------------------------
(***************************************************************************)
(* get_timeout of src/src/streamq.c: the time at which a wait of the queue *)
(* ends, for a time_t of 32 bits and one of 64.  Any thread that waits may *)
(* have called it at any time and with any timeout.                        *)
(***************************************************************************)
EXTENDS StreamQ, Integers, FiniteSetsExt

CONSTANTS Narrow,   \* values of a 32 bit integer
          Wide      \* values of a 64 bit integer

ASSUME DeadlineAssumption == /\ Narrow \in Nat /\ Wide \in Nat
                             /\ Narrow % 2 = 0 /\ Wide % 2 = 0
                             /\ 0 < Narrow /\ Narrow < Wide

LastTime(size) == size \div 2 - 1
Signed(n, size) == IF n % size <= LastTime(size) THEN n % size ELSE (n % size) - size

(* Mutant: the sum goes into tv_sec as it is. *)
get_timeout_unclamped(time_t, now, timeout) == Signed((now + timeout) % Wide, time_t)

get_timeout(time_t, now, timeout) ==
  LET until == (now + timeout) % Wide
  IN  Signed(IF time_t = Narrow /\ until > LastTime(Narrow) THEN LastTime(Narrow) ELSE until, time_t)

(* What it is for: the time asked for, or the last time that there is.     *)
(* (Sums of 292 billion years are left out.)                               *)
EndsInTime(time_t, now, timeout) ==
  now + timeout <= LastTime(Wide) =>
    get_timeout(time_t, now, timeout) = Min({now + timeout, LastTime(time_t)})

(* A push or pop that waits, with IO4E_FOREVER too, waits as long as it    *)
(* was asked to, or until the last time that there is: no sum of time and  *)
(* timeout wraps around to a time that is past.                            *)
WaitsLongEnough ==
  \A t \in At({"push_wait", "pop_wait"}), time_t \in {Narrow, Wide} :
    \A now \in 0 .. LastTime(time_t), timeout \in 0 .. LastTime(Wide) :
      EndsInTime(time_t, now, timeout)
=============================================================================
