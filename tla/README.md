# A TLA+ model of io4edge-client-c

io4edge-client-c is the C client library for io4edge function blocks.  An
application connects to a function block of a device over TCP, sends commands
(configuration, function control, stream control) and reads the stream of
samples that the device sends.  The modules in this directory specify the
library.  TLC checks them on small instances, and TLAPS proves the main safety
properties for every value of the constants.

Paths are those of the repository, with its root at `src/`.  `FB` stands for
`src/src/functionblock.c`, `SQ` for `src/src/streamq.c` and `ST` for
`src/src/unix/socket_transport.c`.

1. [Inventory](#1-inventory)
2. [Modules and how they correspond to the code](#2-modules-and-how-they-correspond-to-the-code)
3. [Runs: what is checked](#3-runs-what-is-checked)
4. [Where the program disagrees with what it says](#4-where-the-program-disagrees-with-what-it-says)
5. [Bounds](#5-bounds)
6. [Fairness](#6-fairness)
7. [Proofs](#7-proofs)
8. [What is not modelled](#8-what-is-not-modelled)
9. [Plan](#9-plan)
10. [Running it](#10-running-it)

## 1. Inventory

### Threads and shared state

A client has one thread of its own, `read_thread`.  The application's threads
call the library.  They meet in three places:

```
 application threads                        read_thread
   | command()          cmd_mutex, cmd_context
   |  write_msg ---------------- socket ------------> device
   |  wait cmd_sem <--- cmd_response, cmd_sem <--- store, post <-- response --\
   |                                                                           read_msg <-- device
   | read_stream <----- stream queue (100) <------ push, for ever <-- stream --/
```

- `cmd_mutex` lets one command at a time into `command()`; `read_thread` never
  takes it.
- `cmd_response` is handed from `read_thread` to `command()` and ordered by
  `cmd_sem` alone.
- The stream queue has a mutex and two semaphores of its own.  `read_thread`
  pushes with `IO4E_FOREVER`, so a full queue stops it, responses included.

### Components

| component | source | state | operations |
|---|---|---|---|
| stream queue | `SQ` | ring of pointers, `write_idx`, `read_idx`, `nentries`, `write_sem`, `read_sem`, mutex | new, delete, push, pop, entries |
| command/response protocol | `FB` `command()`, response half of `read_thread` | `cmd_mutex`, `cmd_context`, `cmd_sem`, `cmd_response` | a command on any thread; a response stored and signalled; a timeout; a late response |
| read thread (client at work) | `FB` `read_thread`, `io4edge_functionblock_read_stream` | the message in hand | read, unpack, push to the queue or store |
| socket transport | `ST` | the socket, the frame under way | connect, framed read with a timeout, framed write, destroy |
| client life cycle | `FB` `client_new_from_host_port`, `client_delete` | the handle and what it owns | creation in five steps with an error exit; cancel, join, free |
| function block API, device modules | `FB` wrappers, `binaryiotypea.c`, `analogintypea.c`, `canl2.c`, `mvbsniffer.c` | none of their own; the messages of the call | request, `command()`, check the response, unpack, free or hand over |
| examples | `src/examples` | how far `main` is; `stim_thread` of binaryiotypea; the session of reconnect | a sequence of calls that ends at the first failure; a second thread, cancelled and joined; a new client after every session |
| logging | `logging.c`, `unix/logging.c` | none | print |
| generated protobuf code | a submodule | none | pack, unpack, free_unpacked |
| tests | `src/tests` | none | unit tests of the stream queue |

### What is hard, and what makes each component correct

*Stream queue.*  Any number of threads push and pop with timeouts.  Waiting for
a slot, storing under the mutex and announcing the message are separate steps.
It is correct if it is a bounded FIFO in which every operation takes effect at
one instant (no message lost, overwritten, duplicated or reordered), if a
timeout is reported only when the queue really cannot serve the caller, if no
wakeup is lost, and if a deadline is never a time that is past because a sum of
seconds wrapped around: `IO4E_FOREVER` is the largest timeout there is.

*Command protocol.*  A response may come after its command timed out, may be
undecodable, or never come; then its permit stays in `cmd_sem` and responses and
commands are out of step.  The two threads share `cmd_response` without a lock.
It is correct if a command never returns another command's answer, if every
response is freed once and by its owner, if every exit unlocks, and, while no
command timed out, if no command fails without a reason and nothing is left over
between commands.

*Client at work.*  Responses and stream data come over one connection.  A signal
ends the wait for ever of a push early, and its message is dropped.  It is
correct if what arrives of the stream is in order and nothing but such a drop is
missing, if an answer does not
overtake what the device streamed before it, and if a response is read whenever
the queue has room.

*Transport.*  TCP delivers a frame in any pieces; signals, failing allocations,
timeouts and the end of the connection come between any two of them.  It is
correct if whole messages come out in order until a frame is cut, if nothing but
such a fault costs a message, and if no payload leaks.

*Life cycle.*  Creation may fail at each step.  Deletion cancels a thread that
may be anywhere in its loop, waiting for ever included, with the connection up
or long gone.  It is correct if nothing is freed under a running thread, nothing
stays behind, and delete returns.

*API.*  A call holds up to two messages and has several ways out; the device may
answer with something else than what was asked.  It is correct if exactly what
the application is not handed is freed (it is not, for stream data that is
refused), and if OK means the right answer.

*Examples.*  Two threads of binaryiotypea issue commands, and one is cancelled
in the middle of a call, which leaves `cmd_mutex` locked.  The client does not
tell the application that the connection has ended: it finds out by its
timeouts.  A program that issues commands while the stream runs does not read the
stream meanwhile, so `read_thread` may be stuck ahead of an answer.  The programs
are correct if none hangs in a call whatever the device does, if one that nothing
disturbs does all it has to with no call failing, and if reconnect works again
after any number of failed sessions.

`PROJECT.json` lists each hazard at its line with the properties that cover it.

## 2. Modules and how they correspond to the code

```
 BoundedFifo  <== implements ==  StreamQ
      ^ INSTANCE
 FunctionblockCommand  <== implements ==  FunctionblockClient
                                               ^ EXTENDS
                                          ClientLifecycle
                                               ^ EXTENDS
                                          Examples
 StreamQ  <-- EXTENDS --  Deadline
 MessageChannel  <== implements ==  FstreamReader, FstreamWriter  -- EXTENDS --> Fstream
 FunctionblockApi
```

| module | models | in the abstract |
|---|---|---|
| `StreamQ` | `SQ`, one action per step between two synchronisation calls; `pc[t]` is the statement of a thread, `arg[t]` the message or size it carries | implements `BoundedFifo` |
| `Deadline` | `get_timeout` of `SQ`, for the waits of `StreamQ` | adds a function, no state |
| `BoundedFifo` | the promise of the queue | an operation takes effect between its call and its return |
| `FunctionblockCommand` | `command()` on several threads, the response half of `read_thread`, their shared members | is what `FunctionblockClient` implements |
| `FunctionblockClient` | `read_thread` as a whole, with the command protocol and the queue (as `BoundedFifo`) | |
| `ClientLifecycle` | new and delete around `FunctionblockClient`, again and again, and the end of the connection | |
| `Examples` | the seven example programs around `ClientLifecycle` | |
| `Fstream` | frame layout, length bytes, error codes | |
| `FstreamReader` | `read_msg`, one action per system call and one for what follows a complete read | implements `MessageChannel` |
| `FstreamWriter` | `write_msg`, one action per `write()` and one per end of the loop | implements `MessageChannel` |
| `MessageChannel` | whole messages, once each, in order, until a frame is torn | |
| `FunctionblockApi` | every call around `command()` and `io4e_streamq_pop`: the check of the response, unpacking, who frees what | |
| `MC*` | instances for TLC | |
| `*_proofs` | theorems and proofs of the module they are named after (`StreamQ_proofs`: of `Deadline` too; `ClientLifecycle_proofs`: of `FunctionblockClient` too) | |

**`FunctionblockCommand`.**  A command has the statements `lock`, `write`,
`wait`, `take`, `clear`, `check` and `use` (the wrapper works with the
response); the reader has `read`, `test`, `free`, `store`, `post`.  So
`res = h->cmd_response; h->cmd_response = NULL` (FB 139, 140) is two actions and
`if (h->cmd_response) free; h->cmd_response = res` (FB 508-513) three: the
code has no lock between them.  The i-th command written is answered by response
`i`; `sent[i]` is its context.  Responses are numbers, and `freed` collects those
that were freed.  A freed response that is used again either still holds its old
bytes or ends the process (`Crash`).  `Drop` is a response that cannot be
unpacked; `PostFails` is `sem_post` at `SEM_VALUE_MAX`, which ends
`read_thread`.  `timeouts`, `dropped`, `calls`, `settled`, `start` and `attempts`
are history: they bound the model and let properties and proofs speak of the
past; no action's guard reads them but for a bound.

**`StreamQ`.**  Threads are producers, consumers and observers; a thread may be
several of them.  A wait with a finite timeout may give up whenever its
semaphore is at zero: how long a wait lasts is not modelled, so nothing shown of
the queue depends on a clock.  **`Deadline`** is about the one thing that does:
the time at which a wait ends, as a function of `time_t`'s width, the time and
the timeout.  Its integers wrap around as the program's do.

**`FunctionblockClient`** extends `FunctionblockCommand` and adds the inbox:
what the device sent and the reader has not read, responses and stream data in
order, each a record of its kind and its number.  A responding device is
`DeviceAnswers`, a streaming one `DeviceStreams`.  While `read_thread` is in a
push, no `Receive` is enabled.  The push waits for ever but for
`PushInterrupted`, a signal handler that makes `sem_timedwait` return `EINTR`:
`io4e_streamq_push` reports a timeout (72-75) and `read_thread` goes on without
the message (FB 501-504).

**`ClientLifecycle`** adds `phase` (the statement of new or delete), `parts`
(what exists), `members` (the members of the client that are not NULL), `thread`
and `peer` (the device's end of the connection).  new acquires five parts in four
functions, and each function gives back what it acquired itself when a later step
of it fails: `TransportConnect` closes the socket (`ST` 186), `TransportFree`
frees the transport (215), `StreamqMsg` the queue (`SQ` 22).  Only a function that
succeeds sets a member, and `ErrExit` frees what the members refer to and nothing
else (`FB` 45-48), as delete does: `destroy` and `io4e_streamq_delete` are the
parts they free.  A
cancellation is deferred, so it takes effect only at a cancellation point:
`select` and `read` in `read_msg`, `sem_timedwait` in a push, and the log line
before a response that was left over is freed.  `DeviceEnds` ends the connection
and loses any part of what was on its way; the client is not told, writes may
still succeed, and `read_thread` goes on calling `read_msg` (its failed calls
change nothing and are no steps).  After a failed creation or a deletion new may
be called again, and `Fresh` gives the next client the state that `calloc`, the
initialisers and a new connection give it.

**`Examples`** adds `program`, `at` (the statement of `main` or
`handle_session`), `process` and `stim`.  A program is a sequence of statements,
each named for the call of the function block API it comes down to; loops over a
counter are unrolled `Rounds` times, and the endless loops of dumpstream and
reconnect stay loops.  A call is the whole of `Issue` or `ReadStream` with all
its steps, interleaved with `stim_thread`, `read_thread` and the device;
`StimCancelled` ends `stim_thread` at its cancellation points, also inside
`command()`.  `disturbed` is history since the last call of new.  It is set by
what fails outside the program (`Disturbance`), and by the device streaming more
than the queue holds and the program has read while commands are still to be
answered (`Overrun`).  A timeout is such a failure only if it is not
the program's own (`OwnFault`): `read_thread` is stuck at a full queue, or has
given up, and what the call waits for has been sent.

**`FstreamReader`, `FstreamWriter`.**  `rx` and `tx` are the bytes under way; a
`Read(k)` takes any number of them up to what was asked for.  `skipped` counts
the bytes of frames that were given up in the middle: from then on the reader
may take payload for a header, and `MessageChannel` promises nothing.  The
other side is a device that puts every digit of a length into its own byte.

**`FunctionblockApi`** runs one call at a time: it is about ownership within a
call, and calls share nothing but `command()` and the queue.  `refused` is history:
the stream data that `read_stream` popped and returned an error for.

## 3. Runs: what is checked

Mutants of the code, one or more per property, are kept beside the actions they
change (`(* Mutant: ... *)`); each one breaks its property in the run that checks
it.

| run | instance | shows |
|---|---|---|
| `streamq` | one pusher that also asks for the number of entries, three poppers of which one waits for ever, 2 slots | types; `SlotAccounting`, `EntryAccounting`: the semaphores account for every slot and message; `NoMutualBlock`: no lost wakeup; `WaitsLongEnough`: no deadline wraps around; `ImplementsFifo`; `PushReturns`: a push gets through while the stream is read |
| `command` | 2 callers, 4 commands that may all time out, an undecodable response, a broken connection, an overflowing semaphore | always: `PermitAccounting`, `OwnResponse`, `MutexReleased`; until the first timeout: `InStep`, `NoSpuriousFailure`, `OwnedUntilTimeout`, `NoLeakUntilTimeout` |
| `client` | a caller, two readers of the stream, 2 slots, 3 stream messages, of which one cannot be unpacked or its push is interrupted | `StreamInOrder`, `AnswerIsLast`, `HeldUpByQueue`, and `ImplementsCommand`: what is shown of the command protocol holds of the client |
| `lifecycle` | new fails anywhere; the device ends the connection at any time, signals fall on `read_thread`; delete comes at any time between two calls; then all over again | `NoUseAfterFree`; `AllOrNothing`: nothing stays behind and nothing is freed twice, whichever function fails; `DeletedInStep`, `DeleteReturns`; `StreamUnbroken`: the stream has no gap, whenever the connection ends |
| `fstream_reader` | 2 messages, 2 signals, a failing malloc, the connection ends anywhere | `ImplementsChannel`, `NoFalseAlarm`, `LossHasCause`, `NoPayloadLeak`, `Delivered` |
| `fstream_writer` | 3 messages, a socket of 4 bytes, a break anywhere | `ImplementsChannel`, `Returns`, `Arrives` |
| `api` | any three calls, any answers | `EveryMessageOwned`: the stream data that `read_stream` refuses is all that is never freed; `ReturnsWhatWasAsked` |
| `examples` | every example, loops of two rounds, 1 slot, 2 stream messages, two timeouts; a device that is slow, refuses, ends the connection or is not there | `NoUseAfterFree` with the program's own deletes; `NeverHangs`: each comes to its end, or back to its next read or session; `Completes`: undisturbed, a program does all it has to and no call of either thread fails; `Recovers`: reconnect has a whole session again and again, unless every one is disturbed |

Four more runs end in a counterexample; they are in section 4.

`PermitAccounting` is the central property of the protocol:

    cmd_sem + responses held by the reader or under way + dropped = timeouts + (a caller waits)

Every timeout leaves one permit too many, whatever happens afterwards.
`OwnResponse` says what saves the application all the same: the context is
compared, so a command that returns OK returns its own answer, however late the
others come (until 256 commands in a row go unmatched).

`Completes` and `Recovers` are where the components meet.  `Completes` fails if
any of them makes a call of `main` or of `stim_thread` fail, or wait, for no
reason outside the program: its mutant is a response that posts the semaphore
before it is stored.  It has one proviso, `Overrun`, and the proviso is
needed: without it TLC finds analogintypea and binaryiotypea with a command that
times out although its answer has arrived, because `read_thread` is
in `io4e_streamq_push` with a full queue (`FB` 501) and nobody reads the stream
until the command returns.  This is the program's own failure; it is what
`HeldUpByQueue` says of the client, and no doc promises otherwise.  In the program
it takes more than 100 stream messages, in the model more than one.
Once a program reads the stream and has no more commands to issue, the device may
stream as much as it likes and nothing is excused.

`NeverHangs` does not say that every program ends: dumpstream reads for as long as
the device streams, and reconnect goes on for ever.  It says that neither stays
in a call, dumpstream is between two reads again and again, reconnect between two
clients, and the others come to their end.  `MaxStream` does end every
stream in the model, so the run shows of dumpstream the reads that succeed and the
one that times out, not an endless stream.
`Recovers` fails if anything of a client, a late response, a permit, a locked
mutex, a thread, survives into the next one.

## 4. Where the program disagrees with what it says

| run | the repository says | the run shows |
|---|---|---|
| `command_owner` | `FB` 101: "caller must free the response if it is not NULL" | after a timeout `read_thread` can free a response (510) that `command()` has taken (139) and not cleared yet (140): both free it |
| `command_context` | `io4edge_internal.h:49`: "id of the last command sent as a single char string" | the context advances twice per command (115, 154) and is compared with `'Z'` (155) only after the second: it passes `'Z'`, is never reset, and is the NUL character for the 96th command |
| `fstream_writer_long` | `ST` 14: "2 bytes magic, 4 bytes length" | the fourth byte repeats the third (125, 126): a message of 64 KiB or more announces a wrong length |
| `reconnect_sigpipe` | `src/examples/mvbsniffer/README.md:14`: reconnect "handles the reconnection [...] in case of a connection loss" | neither `write_msg` nor any example ignores SIGPIPE: a command written after the device reset the connection raises it and ends the process |

Only `command_owner` needs a timeout: `InStep`, `OwnedUntilTimeout` and
`NoLeakUntilTimeout` show that nothing of the kind happens before the first one.

## 5. Bounds

Every bound is a constant named in the module that uses it.

- *Contexts* (`CtxFirst`, `CtxLast`, `CtxMod` = 1, 4, 8).  The program has
  `'A'` = 65, `'Z'` = 90 and 256.  What matters is the parity: an odd first
  context, an even last one and an even modulus, so that the comparison with
  `CtxLast` behaves as in the program.  `command_context` and
  `reconnect_sigpipe` use the program's own numbers.
- *Commands and timeouts* (`MaxCommands`, `MaxTimeouts` = 4).  Four commands,
  all of which may time out: three late responses can be under way when the
  fourth command waits.  With two callers one command can begin while the
  response of another is in use.  The proofs have no such bound.
- *`MaxAttempts`* bounds the commands since the last match.  `OwnResponse` is
  true only as long as contexts do not come round, so this one is an assumption
  as well (`MaxAttempts <= CtxMod`); 255 timeouts in a row are out of the
  property's scope.
- *`SemMax`* = 2, so that the overflow of `cmd_sem` is reached.
- *Ring* (`Capacity` = 2; 1 in `lifecycle` and `examples`).  Two slots wrap, are
  full, empty and half full; three poppers compete for one message.  Two threads
  that push are left to the proofs, which have no such bound.
- *Integers* (`Narrow` = 4, `Wide` = 16) stand for 2^32 and 2^64: every time and
  every timeout is tried.  `NoWraparound` has no such bound.
- *`MaxStream`*: more stream messages than slots, so that the queue is full with
  one more in the reader's hand.
- *`Rounds`* = 2, `MaxCommands` = 11 in `examples`: every loop is left and gone
  round, and `stim_thread` has as many commands as `main` leaves.
  `MaxTimeouts` = 2 lets both threads time out, or one of them twice.  An answer
  or a session that fails may do so at every place where it can.
- *Bytes* (`Base` = 2).  A frame keeps its six header bytes, and each "byte" is a
  bit: lengths up to 3 fill two bytes, as lengths up to 65535 do in the program,
  and a payload of 4 reaches the third.  A payload may look like a magic or like
  the beginning of a frame.  The proofs hold for any number of values, 256 too.
- *Faults* (`MaxSignals`, `MaxNoMem`, `MaxDrops`): enough for a fault to hit the
  header, the payload, and the frame that follows a torn one.
- *`MaxCalls`* = 3 in `api`: two calls leave messages with the application
  while a third works; the proof has no such bound.

`CHECK_DEADLOCK FALSE` stands where the system may really stop: the bounds on
commands and messages run out, the device may be silent for ever, the process may
end (`Crash`), and a program that returned does nothing.  The run of the queue
checks deadlock: its threads never stop calling.  What must not stop in the
other runs is the subject of `HeldUpByQueue`, `DeleteReturns` and `NeverHangs`.

## 6. Fairness

Fairness is weak and stated per thread and step unless said otherwise.  It says
that a thread that can run does run.

- `streamq`: the pusher's steps and the poppers' steps; a popper calls
  again after each pop, as the read loops of the examples do.  A thread may be
  passed over for the mutex or the semaphore for ever.
- `command`: a thread inside `command()` runs on and `sem_timedwait` expires.
  Nothing is assumed of the device, of the reader, or of who gets the mutex.
- `client`: `read_thread` runs and the device answers.  Nothing is assumed of
  the application, so `HeldUpByQueue` has to say when a response is read: if
  there is room in the queue again and again.
- `lifecycle`: `read_thread` runs, delete's steps run, and a cancellation is
  taken at some cancellation point that the thread keeps passing (strong
  fairness on `Cancelled`: the kernel does not forget it).  Nobody has to read
  the stream, the device may be silent, and no signal has to come.
- `examples`: `main`, `stim_thread`, `read_thread` and the two cancellations, as
  above.  A wait of a call is sure to time out only where `read_thread` has
  nothing left to do for it (`InTime`, `ReaderWaits`): the timeouts are seconds,
  which is long for a thread that can run.  The device and the network are free
  to do nothing; `Completes` and `Recovers` say so where they need a device that
  answers (`Responsive`).
- `fstream_reader`: `select` does not miss data that stays there, and
  `read_msg` goes on.  `fstream_writer`: the loop goes on and the device reads.

## 7. Proofs

All theorems hold for every value of the constants under the named assumptions
of the modules (`StreamQAssumption`, `CommandAssumption`, ...): positive
capacity, finitely many threads, contexts inside the char, NULL distinct from
everything else.

**`StreamQ_proofs`.**  `TypeCorrect`, `SlotsAccounted` (`SlotAccounting`),
`EntriesAccounted` (`EntryAccounting`), `NoLostWakeup` (`NoMutualBlock`) and
`Refinement` (`Spec => ImplementsFifo`).  `SlotAccounting` is not inductive by
itself: that a pop past its wait finds a message also needs one thread at a time
in the lock (`MutexInv`) and `write_idx` to be `nentries` ahead of `read_idx`
(`RingInv`).  `CarryInv` says what a thread carries, and is what the refinement
needs: what a pop returns is the head of the abstract queue.  A lemma counts how a
move between two statements changes the sets of threads that the accounting
counts.  The refinement has a lemma for each of the three ways in which the ring
changes (a store behind the newest message is invisible, moving `write_idx`
appends, moving `read_idx` removes the head).

`NoWraparound` (`WaitsLongEnough`) is about `Deadline`, for any two even widths:
the sum is taken in the wide type, and what does not fit into the narrow one is
cut at its last time before the conversion.

**`FunctionblockCommand_proofs`.**  `TypeCorrect`, `PermitsCounted`,
`ResponsesMatch` (`OwnResponse`) and `FailuresExplained` (`NoSpuriousFailure`).
The invariant has five parts beside the properties: `LockInv` (who is inside);
`ContextInv` and `CurrentInv` (the context is `attempts` increments from where it
was at the last match, so the commands written since have different contexts);
`HeldInv` (every response that can still be taken is younger than the last
match, and what a caller took is older than what was stored after it); `StepInv`
(without a timeout the response and its permit travel together).
From them: a context that matches is that of the caller's own command.  They
hold as long as no thread crashed; afterwards nothing moves.

In the same module, of what holds until the first timeout: `NothingFreedTwice`
(`OwnedUntilTimeout`), `NothingLeaks` (`NoLeakUntilTimeout`) and `StaysInStep`
(`InStep`).  The accesses of the two threads to `cmd_response` take no lock; what
keeps them apart is that a permit and a response travel together until the first
timeout.  The invariant above says where a response may be; `Owned` adds that
every response has one place at a time, the reader's hand, `cmd_response`, one
caller's hand, or freed, and that no caller without a response holds one.

**`LettersRunOver`**, in the same module, is the general form of the finding
`command_context`, for the program's own numbers (`Letters`: 65, 90 and 256) and
any number of commands: until one times out or is not written, the context of the
k-th command is `(64 + 2k) % 256`; it is never reset to 'A', and it is 0, which
makes it an empty string, for the 96th command and every 128th after it.  The
invariant is the parity: the context is even when it is sent and odd when it is
compared with 'Z', which is even (`NeverLast`).

**`ClientLifecycle_proofs`, one client at work** (`FunctionblockClient`).
`ClientImplementsCommand` (`ImplementsCommand`) and `ClientUsesQueue` (what
`read_thread` and the readers do with the queue is a behaviour of `BoundedFifo`),
so that every theorem about the protocol and the queue holds of the client; `ClientTypesCorrect`,
`StreamReachesApplication` (`StreamInOrder`) and `AnswersOvertakeNothing`
(`AnswerIsLast`).  The invariant `Connection(ans, str)` describes a connection on
which the device has sent the answers up to `ans` and the stream up to `str`: each kind
of message in order, all answers that are due and no others (`AnswersDue`), stream
data younger than all that was taken off the connection (`StreamsDue`), and
ahead of every answer what was streamed before it (`AnswersBehind`).  When
`read_thread` gets to an answer, the head of the inbox is no older stream data,
so all of it was stored or lost.  That the stream goes through push, queue and pop
unchanged is a lemma about concatenation (`Passing`).

**`FunctionblockApi_proofs`.**  `NothingElseLeaks` (`EveryMessageOwned`) and
`NothingElseReturned` (`ReturnsWhatWasAsked`), for call sequences of any length.
One strengthening says that what the application was handed belongs to earlier
calls, so that the call under way frees only its own messages; the other that no
response is unpacked, copied from or handed over before it was found to be of the
type and the action that were asked for.

**`ClientLifecycle_proofs`, one client after the other.**  `NothingFreedInUse`
(`NoUseAfterFree`), `NothingLeftBehind` (`AllOrNothing`) and `NothingForgotten`
(`DeletedInStep`).
The invariant says which parts exist and which members refer to them at every
statement of new and delete (`PartsOK`), the error paths inside the four functions
included: where ERREXIT is reached, the members account for all that exists but the
client itself, and for nothing else.  It says that
the thread is joined before the first of them goes, and that `read_thread`
starts no call of the application's.  Every step between new and delete is one
of the command protocol, and `Fresh` is its initial state, so its invariants hold
of every client in turn: delete finds the client in step, unless a command timed
out, and whatever `read_thread` has in hand when it is cancelled is no response.
`ProtocolHoldsEver` states them all of every client.

When the connection ends, what the device has sent and `read_thread` has not
read may be lost, so `StreamInOrder` does not survive it; `StreamStaysUnbroken`
(`StreamUnbroken`), `StreamIsWholeWhileUp` and `AnswersOvertakeNothingEver`
(`AnswerIsLast`) say what does.  The argument is that a connection that has ended
looks to the client like one on which the device has sent less: there are an
`ans` and an `str`, no greater than what the device did send, for which
`Connection(ans, str)` holds of what is left.  The lemma `CutShort` finds them
for any part of the inbox that remains, and every other step keeps them.  Before
the connection ends they are `answered` and `streamed` (`ConnInv`).

**`Examples_proofs`.**  The life cycle assumes that the application deletes a
client only when none of its calls is under way.  That the examples do so, and
what follows, is proved here for any number of rounds and any bounds:
`ExamplesFollowLifecycle` (each step of an example is one of the life cycle, or
the cancellation of `stim_thread`), `ExamplesImplementLifecycle` (the examples
without a second thread are life cycles, `ExSpec => LifeSpec`),
`ExamplesUseNothingFreed` (`NoUseAfterFree`), `ExamplesLeaveNothingBehind`
(`AllOrNothing`), `ExamplesGetTheirResponses` (`OwnResponse`),
`ExamplesStreamUnbroken` (`StreamUnbroken`), `ExamplesAnswersOvertakeNothing`
(`AnswerIsLast`) and `AbandonedLockHarmsNobody` (`NobodyLockedOut`).

binaryiotypea goes beyond the life cycle: it cancels `stim_thread` where it is,
in the middle of `command()` as well, and `cmd_mutex` stays locked for ever
(`Abandoned`).  Nothing in the library makes that safe.  It is safe because of
the order of the statements of `main`, so the invariant `ExInv` relates the two:
`stim_thread` lives only while `main` is at one of its statements, and is
cancelled only while `main` waits at the last one, the join (`StimOK`); `main` is
in a call only at a statement that is this call (`MainOK`), so it is in none
then, and all that comes after is delete (`LockedOK`).  After that the invariants of the
command protocol are given up, since the caller in the lock is gone, and the
steps that are left are counted instead (`AbandonedSteps`): `main` joins and
deletes, and `read_thread`, which never takes `cmd_mutex`, goes on with the
connection as before (`ExConnInv`).  Which statements a program has is computed
from its text, with loops of any number of rounds (`Statements`).

**`Fstream_proofs`.**  `DeviceLengthIsRead` (every length of four bytes),
`ShortLengthIsTold` (`write_msg`, lengths of two bytes) and `LongLengthIsNot`
(lengths that need the third), the general form of the third finding.  Its lemmas
are about frames: `Cuts` says where each message's frame ends in the bytes of all
of them, and `Carries` that some bytes are those from the end of one frame on.
They show how a frame put behind them, one taken off their front and an end cut
off keep that so, and that what stands at the front is a whole header.

**`FstreamReader_proofs`.**  `ReaderImplementsChannel` (`ImplementsChannel`),
`NoAlarmIsFalse` (`NoFalseAlarm`), `LossesHaveCauses` (`LossHasCause`),
`PayloadsAreFreed` (`NoPayloadLeak`) and `ReaderTypeOK` (`TypeOK`), for any
messages, whatever they look like, and any faults.  The invariant is `Intact`: as
long as nothing was thrown away, what `read_msg` has read of the frame under way,
followed by what is on its way, are the frames of the messages that it has not
returned, all of them if the device did not end within one.  The header that was
read counts as the bytes that `len` stands for.  So the magic is where it is
looked for, the length is the next message's, and a complete payload is that
message.

**`FstreamWriter_proofs`.**  `WriterTypeOK` (`TypeOK`) for payloads of any
length; `WriterImplementsChannel` (`ImplementsChannel`) and
`ShortLengthsAreTold` (`LengthIsTold`) under `Short`: no length needs a third
byte.  The third finding says that they are false without it, so `Short` is as
weak as the code allows.  The invariant says of what the device has read of a
frame, what is in the socket and what is not written yet, put together, what the
reader's says of its bytes.

**Model-checked only.**  All liveness (`PushReturns`, `MutexReleased`,
`HeldUpByQueue`, `DeleteReturns`, `Delivered`, `Returns`, `Arrives`,
`NeverHangs`, `Completes`, `Recovers`) stays with TLC: TLAPS does not reason
about fairness and ENABLED.  Every other property of the passing runs is a
theorem.  Induction with a predicate as a parameter is out of the provers' reach
as well, so no module computes by recursion: where messages end in the bytes of a
stream is stated as a relation (`Cuts`), and what needs the least of a set of
numbers is proved from the library's well-founded orderings (`LeastNumber`: the
first stream message that was cut off).

## 8. What is not modelled

- *Logging*: it keeps no state.  That a log line is a cancellation point is in
  `ClientLifecycle`.
- *Generated protobuf code and protobuf-c*: unpacking allocates a message or
  returns NULL, `free_unpacked` frees it.
- *Contents of requests and payloads*; the values copied out of a payload.
- *Tests and build files.*  `test_streamq.cc` is a test of what `StreamQ`
  models; there are no tests of the client.
- *What the examples print and free.*  dumpstream frees neither the stream data
  nor what it unpacks from it (a hazard without a property).
  `pthread_create` in binaryiotypea is not checked; the model's `Spawn` succeeds.
- *Time*: a finite wait may time out at any moment; `IO4E_FOREVER` is a wait
  without end, but for a signal.  The sum of the two is in `Deadline`.
- *A write that blocks for ever*: `write()` has no timeout, and a device that
  neither reads nor ends the connection can make it wait until the operating
  system gives up.  A request is much smaller than a socket's buffer; the models
  let a write succeed or fail.
- *Memory of stream data*: what is in the queue, or in the hand of
  `read_thread`, when the client is deleted is not freed, and neither is stream
  data that `io4edge_functionblock_read_stream` refuses.  The second is visible in
  `FunctionblockApi` (`refused` in `EveryMessageOwned`), which shows that nothing else leaks in a call; the first is a
  hazard without a property, since nothing in the repository claims otherwise.

## 9. Plan

The order was by importance: what threads share first.

| step | module | state |
|---|---|---|
| 1 | `StreamQ`, `BoundedFifo`, proofs with the refinement | done |
| 2 | `FunctionblockCommand`, proofs of the invariants that hold always | done |
| 3 | `FunctionblockClient`: composition of 1 and 2 | done |
| 4 | `Fstream*`, `MessageChannel` | done |
| 5 | `ClientLifecycle` around 3, first theorems | done |
| 6 | `FunctionblockApi`, first theorem | done |
| 7 | `InStep`, `OwnedUntilTimeout`, `NoLeakUntilTimeout` as theorems | done |
| 8 | `ImplementsCommand`, `StreamInOrder`, `AnswerIsLast` as theorems of `FunctionblockClient` | done |
| 9 | the connection's end, signals and the next client in `ClientLifecycle`; `DeletedInStep` from 7 | done |
| 10 | `Deadline`; `Examples`: the programs around it all | done |
| 11 | `ImplementsChannel`, `LossHasCause`, `NoFalseAlarm`, `NoPayloadLeak` as theorems of `FstreamReader`; `ImplementsChannel` of `FstreamWriter` | done |
| 12 | `ReturnsWhatWasAsked` as a theorem | done |
| 13 | the client's theorems for connections that end and for every client in turn; `LettersRunOver` | done |
| 14 | `Examples`: the theorems of the life cycle, and of the thread cancelled within a command | done |
| 15 | `FunctionblockClient` over the byte stream: the inbox as `MessageChannel`, with a torn frame ahead of a response | open |

## 10. Running it

    tlc -config MCStreamQ.cfg MCStreamQ
    tlapm StreamQ_proofs.tla

and likewise for each run of `PROJECT.json` ("module", "cfg") and each proof
module.  `client`, `command` and `examples` take one to two minutes each, the
others less.
