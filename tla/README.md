# Verification of the onboard-computer plugin

This directory holds TLA+ models of the AFSIM plugin in `src/source`, the TLC
configurations that check them on small instances, and TLAPS proofs of the
properties that matter most. `PROJECT.json` lists the runs, the theorems, the
lines each definition models, and the hazards of the code.

The repository is 16038 files of which 15973 are a vendored Boost; the program
is the 2580 lines of `src/source`.

## The system

The plugin adds two extensions to every simulation
(`OnboardComputerExtension::SimulationCreated`):

    UDP peers --8885--> UdpUnicastReceiver --callback--> OnboardComputer --> platforms, camera
        ^-------echo----------'   (IO thread)                                   |
                                                                                | MoverUpdated
    Python agent <--9000-- UdpJsonSender <----- PlatformDataCollector <---------'
        '--------9001----> UdpJsonSender -----> (commands: SetHeading)   (simulation thread)

| component | state | operations | correct when |
|---|---|---|---|
| `UdpUnicastReceiver` | socket with at most one posted receive, `mRecvbuffer`, `mRemoteEndpoint`, `mReceivedCallback`, the work count of the `io_context` | construct and post the first receive; `SetReceivedCallback`; `HandleReceive`: copy, callback, echo, re-arm; error branch | each datagram reaches callback and echo once, in order, from an unaltered buffer; the thread never waits without a receive nor leaves one; temporary buffers are deleted once |
| `OnboardComputer` | the receiver, the IO thread, (through the framework) orientation of platforms, the camera sensor, real time | `Initialize`; `OnMessageReceived` / `ProcessMessage` (attitude, xiaoxuan, camera); `PendingStart`, `Complete`, destructor | a platform shows what the last message for it says; only malformed text ends the process; the receive loop goes on |
| `UdpJsonSender` | two Winsock sockets, two flags, the WSAStartup reference, the static `sSeq` | `Initialize`, `InitializeReceiver`, `SendPlatformData`/`BuildJson`, `ReceiveAgentData`, `Shutdown` | sockets and Winsock balance on every path; numbers increase |
| `PlatformDataCollector` | `mNextSendTime`, `mHasSentStartFrame`, `mIsShuttingDown`, the observer, the vector of platform data; statics `gLatestAgentCommands`, `gLastCommandLogSimTime` | `AddedToSimulation`, `Initialize`, `Start`, `OnMoverUpdated`, `Complete`, `Shutdown` | frames keep their interval; commands steer the right, unbroken platform, the newest wins, and none is forgotten |
| parser of commands (in `PlatformDataCollector`) | locals of `ParseAgentActionsByRegex` and `FindMatchingBrace` | matches of `"id"`/`"action"`, the scan for the end of the object, the fields in it; `NormalizeRad0To2Pi` | a well-formed text means what the agent said; any text ends the scan; a heading is within one turn |
| `TcpServer`, `ClientSession` | acceptor, one socket per session, a shared buffer for read and write | accept, read, write back | each client hears its own stream in order; a session is released at its end; one bad accept stops nobody. Compiled, but constructed nowhere |
| extension and registration | the prototype computer that is copied for each simulation | `WsfPluginSetup`, `SimulationCreated`, `ProcessInput` | registered once; a computer per simulation, destroyed under its detached thread without losing port, packet or count |
| `UpdateEvent`, `GetPlatformData` | an interval and a reference to a callback; a snapshot | `Execute`; `Start`, `Complete`, `Shutdown` | unused by the rest |

What is hard here:

* **Two threads.** The IO thread runs `HandleReceive` and `ProcessMessage`, the
  simulation thread everything else; `mMutex` of the computer is never taken.
  `ProcessMessage` calls `WsfPlatform::Update` on the IO thread, and if the
  framework notifies `MoverUpdated` from there, the collector runs on it too.
* **Order.** The callback must be installed before the thread starts, the first
  receive posted before `run`, the echo sent before the receive is re-armed,
  the start frame sent before movers count.
* **Failure.** A closed peer turns an echo into an error of the next receive, and any
  receive error ends reception; a malformed text throws through the thread;
  initialisation can fail half way; a failed send still uses up its number and its
  interval.
* **Restarts.** Simulations come and go in one process; statics and the detached
  thread stay, and the port must come free. The destructor of the `io_context` and
  the thread wait on the same completion queue, and the destructor may free an
  operation that the thread is still posting.
* **Text.** Commands are found in JSON by regular expressions and a brace scanner,
  with quotes, escapes and braces inside strings.

`PROJECT.json` lists every hazard with the line where it bites and the
properties that cover it.

## Modules

| module | models |
|---|---|
| `EchoService` | abstract: what the UDP side promises its peers |
| `UdpUnicastReceiver` | the receive loop, the kernel below it, `OnboardComputer::Initialize` around it |
| `OnboardComputer` | extends the receiver: the callback is `ProcessMessage` |
| `UdpJsonSender` | the member functions of the sender, as operators over its variables |
| `PlatformDataCollector` | extends the sender: the collector over the simulations of a process |
| `AgentCommandText` | the parser of command text inside the collector, one step per symbol |
| `AgentSteering` | extends the parser: cached records, and the loops that bring a heading into range |
| `ComputerLife` | registration, the life of one computer per simulation, its destruction under the IO thread |
| `StreamEcho` | abstract: what the TCP server promises a client |
| `TcpEcho` | acceptor and sessions, and the kernel below them |
| `...Proofs` | theorems about the module of that name |
| `TcpProgressProofs` | theorems about `TcpEcho` too: what its liveness rests on |
| `LoopTheorems` | lemmas about bounded loops and positions, for the proofs about the two parsers |
| `MC...` | the small instances |

**UdpUnicastReceiver.** Three actors. The simulation thread takes `Construct`
(or `ConstructThrows`: the bind fails), `SetReceivedCallback`, `StartThread`.
The kernel completes the posted receive: `KernelDelivers` puts the next datagram,
cut to `BUFFER_SIZE`, into the buffer; `KernelRefuses` completes it with a pending
port-unreachable (`refused`); `ReceiveFails` with any other error (`failed`: reset,
abort, whatever Winsock reports), and so does `StartReceive` when `WSARecvFrom` fails
at once. The handler treats them alike; `lastError` is what it printed.
The IO thread takes `Run`, then for each completion `HandleReceive` (allocate and
copy), `InvokeCallback` (which may throw), `Echo` or `EchoThrows`, `Rearm`, `Finish`;
or `HandleReceiveError`, `Finish`. `outstanding_work` is the count that makes
`run` return at zero, taken from the Windows implementation in the vendored Boost
(`win_iocp_io_context::run`, `work_finished`). The steps of the handler are
separate actions because the kernel may complete a receive between any two.

**OnboardComputer.** The message is a sequence of tokens (keys, numbers, words)
rather than characters: `Starts` and `FieldAt` are the double split at `,` and
`=`, and cutting a body cuts between tokens as the buffer may cut a text.
`ParseField` is one pass of the loop, with the exceptions of `at`, `stod` and the
catch around `stoi`: a field with nothing in it throws, one with an empty key and a
value (`=5`) is skipped, and `ParseLoop` is what the passes have come to at each token.
Reading `pair[1]` of a field without a value is undefined: the model
throws or continues with any id of `ThreadIds`. An angle carries its unit, which
is what the divergence between the messages and the collector is about.
Platform calls are synchronous parts of the action.

**PlatformDataCollector.** `phase` is the life of one simulation
(`AddedToSimulation` ... `DestroySender`), repeated up to `MaxRuns` times with
the statics kept. `OnMoverUpdated` is split where it reads or writes shared
state: guards, `Receive`, `HandleAgentCommand`, `ApplyLatestCommand`, `Pace`, `Build`,
`Send`, `SetNextSendTime`, each per thread of `Threads`. `Start` runs the last
three steps too, with `FlagStartFrame` between, as in the code. `Tick` and
`Break` are the simulation: every mover is updated between two ticks. A command
carries a number, so that a heading can be traced to the command that set it.
`ApplyLatestCommand` calls `NormalizeRad0To2Pi`, which `AgentSteering` models bit for
bit: on a heading that absorbs 2 pi (`Absorbing`) it never returns, and the thread
stays in the step `normalize` (`Stuck`), with everything that waits for it.

**AgentCommandText, AgentSteering.** A text is a sequence of symbols: braces, quotes
and backslashes as they stand, one symbol for each field that a regular expression
matches, and `other` for the rest. `FindMatchingBrace` is one action per symbol
(`ScanString`, `ScanCode`, `BraceFound`, `BraceMissing`), with its depth, string
and escape flags. The object of a match begins at the last opening brace before it
(`objStart`, the `rfind`), in a string or not; without an end `Span` is a stretch
from the match on. An id that does not fit an `int` ends the loop and keeps what was
parsed; a number that does not fit a `double` counts as missing. A message carries
what its author meant (`means`), and the parser is compared with it. What a
documented text is and means is said apart from the parser and from left to right
(`InFormat`, `Says`): the quotes from the beginning of the text delimit strings
(`Quoted`), the braces outside of them enclose objects (`Encloses`), each action opens
its object and names no parameter twice, and strings hold nothing that reads like a
field. `DocumentedAssumption` asks this of the documented messages. Angles are
integers in units of the smallest double and `Round` is the rounding of one
operation, so that absorption and rounding up to 2 pi happen; the two loops of
`NormalizeRad0To2Pi` are actions, since one of them may not end.

**ComputerLife.** The simulation thread takes `SimulationCreated` ... `Destroy`, and
then runs the destructor of the `io_context` as the vendored Boost has it: close
the sockets, then take packets until the work count is zero (`DrainCheck`,
`DrainPacket`), then close the queue and free (`DestroyServices`). The IO thread is
in `run`, in a handler, or in `stop`, and meets the destructor in the completion
queue; the stop packet is passed from waiter to waiter. Re-arming is three steps,
`Rearm` (count the work), `PostReceive` (`WSARecvFrom`, or the completion of what
failed at once) and `OnPending` (mark the operation ready), and the destructor may
come between any two. After `WSARecvFrom` it may close the socket, take the aborted
operation from the queue (`shutdown` does not look at `ready_`, as `do_one` does) and
free it. `OnPending` then writes freed memory, which is undefined: the thread goes
on, or the process ends, or the thread is `lost` and anything may follow
(`Undefined`). That `on_pending` finds `ready_` set and posts a live operation again
needs a second thread in `run`, and there is one. `UseAfterFree` and `AbandonedWait`
are what happens to a thread whose `io_context` is gone. Nothing is claimed of a
`lost` thread. The detail of a datagram is in `UdpUnicastReceiver`.

**TcpEcho.** Actors are the clients (connect, send, stop reading, finish, reset), the
kernel (accept, partial reads, partial writes, and sockets running out and coming
back) and the IO thread, which handles completions in their queued order. When a
connection is reset before it is accepted, Boost starts the accept again itself; the
model lets the packet reach `OnAccept` as an error, whose next accept is the same
step. `mSocket` has no variable: it is
assigned and moved out within one step. A session lives as long as an operation of
its own is pending or queued (`Alive`), which is what `shared_from_this` comes to.
A client may stop reading before or after it finished sending: its `received` is what
came back to it, read or not, and a write to it ends only as far as the buffers in
between have room, which they do not owe.
`StreamEcho` says that what a client hears is the beginning of what it said, and
that it hears all of it while it listens; while it does not, more may still reach it.

### Bounds

| bound | where | why it is enough |
|---|---|---|
| `MaxSent = 3`, two peers | receiver | one datagram in the handler, one completing, one queued; an echo to a closed peer between two of the other |
| bodies of 0, 2 and 3 chunks, buffer of 2 | receiver | empty, exact, one over |
| `MaxSent = 2` over 15 messages | onboard | every ordered pair of messages: what one leaves behind for the next |
| buffer of 7 tokens | onboard | one well-formed message is cut after a key |
| `MaxTime = 2`, interval 2 | collector | a frame refused by the pace check and one let through after it |
| `MaxCommands = 2`, two movers | collector | a newer command over an older one, and one that names the other platform |
| one heading that absorbs 2 pi | both collector runs | a command that catches the thread, and another queued behind it |
| `MaxRuns = 2`, `MaxCommands = 1` | collector_runs | a second simulation after a complete, a failed and a half-failed one |
| 22 texts, `SpanLimit = 3` | command_text | strings that hold every brace, quote and escape before, between and after the fields; missing fields, overflows, unbalanced braces |
| doubles of five bits, `TwoPi = 104` | command_text | -1 plus a turn is 103, which rounds to 2 pi itself; from 4096 on a turn is absorbed |
| two computers | teardown | one destroyed at any moment while the next starts; more repeat it |
| one computer | teardown_run | the violation needs no second |
| two clients, 3 and 1 bytes, `max_length = 2` | tcp_echo | a read that fills the buffer, one that leaves a rest, partial reads and writes, another client accepted, stalled or reset between any two |

Past `MaxTime` time is no longer counted but movers go on being updated, so
the bound takes nothing from the liveness property. Deadlock checking is off in
all runs because each instance ends: the last datagram or message is handled,
reception or the process ends, the simulations are over, or the clients are done.

### Fairness

* Receiver: weak fairness of `Initialize` (the simulation thread runs on), of the
  kernel (a posted receive that has a datagram or a refusal to complete with does; no
  receive has to fail otherwise), and of the IO thread as a
  whole. Which outcome a step has (throwing or not) is not constrained. Peers owe
  nothing.
* Collector: weak fairness of the event loop as a whole, that is of time and
  of the simulation thread's callback. The end of the simulation, damage to a
  platform and the agent are never owed. No other thread is assumed to run.
* Parser and headings: weak fairness of the one thread that runs them.
* Life: a destructor that was entered goes on, the IO thread is scheduled, and a
  receive whose socket was closed is aborted. No simulation must start, end or be
  destroyed, and no datagram must come.
* TCP: weak fairness of each kernel operation that can complete, and of the IO
  thread. A write to a client that does not read may pend for ever
  (`ClientSession` has no timeout). Clients owe nothing; that sockets come back is a
  premise of the one property that needs it.

## What the runs show

| run | shows |
|---|---|
| `receiver` | `EchoFaithful`: nothing writes the buffer or the endpoint while the handler reads them. `NoStrandedReceive`, `NoBufferLeak`, `CallbackInstalled`. `ExitsOnlyAfterError`: reception can end with the process alive, but only after a receive error, and after a refusal only if a closed port was answered. `ImplementsEchoService`: the loop implements the service including that every datagram is answered while it is up |
| `receiver_rearm` | violated: after a receive error reception does not restart, though the comment says so |
| `onboard` | `OrientationFromLastMessage`, `CameraFollowsParity`, `RealtimeOnlyForNine` relate the state to the whole history of messages; `OnlyMalformedKills`; `ImplementsReceiver`: the computer implements the receiver with its fairness, so what holds of the loop holds under the real callback |
| `onboard_thread` | violated: a thread field without a value need not count as thread 0 |
| `onboard_name` | violated: attitude messages steer `plane<N>`, the comment says `sat-SAR<N>` |
| `onboard_units` | violated: angles in degrees are stored where the collector reads radians |
| `collector` | `FramesPaced`, `SteersSoundly` (never a broken platform, never an older command over a newer), `CommandTakesEffect` (a queued turn is eventually made, superseded, or the platform or the simulation is gone, or some command's heading absorbs 2 pi and keeps the simulation thread for good) |
| `collector_runs` | `SeqIncreases` and `WinsockBalanced` over every way two simulations can fail to initialise and end |
| `command_text` | `ParsesWhatWasSaid`: a documented message means what its author meant, whatever its strings hold; `ActionsInOrder` for every text, broken ones too; `HeadingInRange`: 2 pi is never set, though an addition may round to it; `ParserReturns`; `TurnsWhenTold`: a platform told to turn is turned, unless the message holds an angle that absorbs a turn, and then neither it nor those after it are |
| `teardown` | `WorkBalanced`: the count that `run`, `stop` and the destructor rely on is the receive, from the moment it is counted until it is taken, plus the running handler, at every moment of a teardown, also when the socket is closed or the operation destroyed between two steps of a re-arming; `NoHandlerOutlivesContext`; `BindFailsOnlyForOthers`: the port is free for the next simulation although the plugin never closes it; `DestructorReturns`: whoever takes which packet, the destructor is woken, unless the IO thread wrote an operation that was freed under it |
| `teardown_run` | violated: the `io_context` is destroyed while the IO thread is still in `run`, against the documentation of the class; the thread then ends the process or touches freed memory |
| `tcp_echo` | `SessionHasOneOperation`: the one buffer is never read into while it is written from; `ConnectionsAreServed`: failed accepts do not starve a client once sockets are back; `SessionsAreReleased`: after a client finished or left, the one thing that can keep its session is a write to a client that has finished and does not read; `ImplementsStreamEcho`: every listening client hears all it said, whatever the others do |

Each property of a passing run has a mutant of the code in the module it is
about (operators marked *Mutant*), under which TLC finds it violated.

## What is proved

`UdpUnicastReceiverProofs`, for every set of peers, bodies and chunks, every
buffer size and number of datagrams. `EchoFaithful` is not inductive: that the
buffer still holds the datagram being handled follows only if no receive is
posted meanwhile. `ReceiverInv` therefore adds `Control`, which ties the place of
the IO thread to the state of the receive operation and the work count,
`InFlight`, which counts datagrams through arrival, delivery, callback and echo,
`BufferHolds`, which says what the buffer holds between delivery and echo, and
`ErrorsRecorded`, which traces the end of reception to an error and every refusal to
an echo to a closed port. From
`ReceiverInvariant` follow type correctness, the five safety properties of the
run `receiver`, and `ImplementsEchoSafety`: initial states map to initial states of
`EchoService` and every step maps to `Ask`, `Answer`, `Die` or a stutter. The only
assumption is `ReceiverAssumption` on the constants. `CallbackIsInstalled`: no
datagram, however early, finds the callback missing.

The safety core of the liveness of `EchoService` is a measure. `ToEcho(i)` is six
steps for each datagram before the `i`-th that has no answer yet, and for the next
one the steps from where `Initialize`, the IO thread and the receive operation are.
`EchoesComeNearer`: each step of those lowers it, sends the answer or ends the
service, and what peers do leaves it alone. `EchoesAreNear` bounds it, and
`AnswersAreUnderWay` says that somebody has the next step. What the run
`receiver_rearm` finds in one instance, `ErrorEndsReception` says of all: once the
handler was called with an error nothing is delivered or answered any more.

`OnboardComputerProofs`: `ComputerImplementsReceiver` shows that every step of the
computer is a step of the receiver or a stutter, so that all of the above holds
with `ProcessMessage` in the loop (`ComputerEchoes`, `ComputerAnswers`). `CameraParity` counts camera
messages through the history, and needs `ReceiverInv` for what the buffer holds
when the callback runs.

What `ProcessMessage` reads from a message is a loop over its fields, and is proved
for messages of any length (`ComputerAssumption` says only that a body is made of
tokens and begins with a key). The installed provers cannot use an induction
theorem whose predicate is an operator, but they can use one whose predicate is a
set: `LoopTheorems` derives, from the least element of a set of positions, that
what holds before a loop and is kept by every pass holds throughout
(`LoopInduction`), and that a loop has a run (`LoopRuns`), which is what makes a
recursive function such as `ParseLoop` defined. `ParsesLastFields` then says what
the loop computes for every message, broken ones too: it throws exactly when some
field does, and has the last angle of each axis. `WellFormedMeansOneThing` joins
that to the independent reading of a message (`Says`, `Addresses`). The invariant
`SteeringInv` carries the history through it: `OrientationIsFromLastMessage`,
`OnlyMalformedMessagesKill`, `RealtimeIsForNine` and `ComputerTypeCorrect` follow.

`PlatformDataCollectorProofs`: `SocketsBalanced`, for any number of threads and
simulations, by tying the sockets to the phase (`SocketLife`). `FramesArePaced` and
`SequenceIncreases`, for every send interval, number of simulations and set of
movers, under the condition that only the simulation thread calls back.
`FramesPaced` is not inductive: `PaceInv` says, at each point of the callback, how
far the frames of this simulation are from the next one, and needs `PhaseInv`
(no callback before the start frame or between simulations); `SeqInv` says that a
number is on the wire only after the counter moved past it. `CommandsSteerSoundly`,
under the same condition, is the action property `SteersSoundly`; its invariant
`CommandInv` says that numbers grow along the way of a command, from the heading it
set back through the cache and the datagram in hand to the queue and the agent, and
grow strictly from the queue to the cache.

`CommandsComeNearer` is the safety core of `CommandTakesEffect`, also for the
simulation thread alone and for finitely many platforms: while the simulation runs,
a command that turns `p` is queued, in hand or cached, until it was applied or
superseded or the platform broke, or the thread is caught in the normalisation of
an absorbing heading, and `ToEffect` counts the steps it has left. Each
step of the thread lowers that number or settles the command, and what the agent,
the network or a breaking platform does leaves it alone. The measure follows the code: a
callback reads one datagram before it applies anything, so that a queued command
waits ten steps for each datagram up to it, and a cached one for the rest of this
round of mover updates and, if `p` had its turn, of the next. It needs
`GuardsStayOpen` (from start to end no callback returns early, and the receiver is
there) and the strict order in `CommandInv` (what is read later does not find its
place in the cache taken by an equal number). `CommandsAreNear` bounds the measure.
`OnlyAbsorbingHeadingsCatch` says that the exception is no wider than that: nothing
but an absorbing heading in the cache catches the thread, and it never gets out.

`CollectorTypeCorrect` holds for any number of threads.

`AgentSteeringProofs`, for every set of messages, every range of doubles and every
rounding that keeps a non-negative result so (`ParserAssumption`,
`SteeringAssumption`) and, as IEEE rounding does, the order of doubles
(`RoundingAssumption`: a double plus a turn is not rounded to less than it). `SteeringTypeCorrect` says that the scan never counts
below zero nor reads past the end; it needs `Scan`: the scan starts at an opening
brace, so from there on the depth is positive. `ActionsAreInOrder` adds `Passed`,
how far the parser is among the matches, and counts ranks. `HeadingsInRange` needs
`Angle`, what each loop has established when it hands over to the next.
`ParserAdvances` and `ParserIsBounded` measure the parser by its place among the
matches and, within one, by `Phase`: each step goes on to a later match or leaves
less to do for this one. `NormalizeAdvances` does the same for the two loops of a
heading: a pass brings the angle nearer, unless it is one that absorbs a turn.
`RecordsAreOfTheirObjects` says what the parser computes, for every text. `Lex` and
`Nesting` read the text declaratively: which symbols lie in strings, and how deep
each is. The invariant `ScanInv` shows that depth, string and escape flags of
`FindMatchingBrace` are those, step by step, so that each record holds the first
numbers of each name between the last opening brace before its match and the brace
that closes it, or in the fallback stretch where nothing does. `ParsesAsDocumented`
joins that to the documented format: the scan starts in the middle of the text, at a
brace found by a search that knows nothing of strings, and yet reads strings and
nesting as the whole text has them (`LexIsQuoted`, `EnclosesIsMatching`), because
such a brace is outside of strings and nothing is escaped there
(`NothingIsEscaped`). So every documented message yields what it means. The theorem
rests on `DocumentedAssumption`, and claims nothing for texts whose strings hold
something that reads like a field, which the regular expressions would take for one.

`ComputerLifeProofs`, for every set of computers (`LifeAssumption`):
`WorkIsBalanced`, `HandlersEndFirst`, `PortIsReleased`, `LifeTypeCorrect`. The
work count joins them: the destructor leaves its loop at zero, and by `Account` zero
means that nothing is counted, posted, queued or running; `Stage` ties the place of the IO
thread to the life of its computer, and `PortInv` the port to a live computer. Both
are per computer, so that a step disturbs one and `OthersStand` covers the rest.
`DestructorIsAwaited`: a destructor that waits has something to wait for, unless the
IO thread wrote freed memory. The danger
is the stop packet, which wakes one waiter and is passed on: `StopOnce` says where
it is. `TeardownAdvances` counts what is left to do for destructor, thread, queue
and receive, which every step of a teardown lowers unless it ends the process;
`TeardownIsShort` bounds it by 19.

`TcpEchoProofs`, for every set of clients and of contents and every buffer size
(`TcpAssumption`): `TcpTypeCorrect`, `OneOperationPerSession`, and `EchoesTheStream`,
that the initial states and steps of the server are those of `StreamEcho`.
`TcpInv` is an account of positions: what came back, what `data_` holds and what was
read follow one another in the stream without a gap (`StreamOK`, `SessionOK`), a
completion on its way says where (`PacketOK`), and no operation is queued twice
(`OncePerOp`). `NobodyIsForgotten` adds the other direction (`GoesOnInv`): a queued
operation has its completion, the acceptor accepts or has one, and a connected
client has a session, an accept on its way, or a place in the backlog.
`SessionsWindDown` measures a session whose client has said its last word by its
unread bytes, the bytes between reading and writing, and the state of its operation
(`Work`): each step of the session lowers it (the end of a write to a client that does
not read need not come), the others' leave it alone, and by
`WorkIsNatural` it is zero only for a session that no operation holds.

`TcpProgressProofs` does the same for the clients. `ConnectionsComeNearer`: while
sockets can be created, a connection that waits comes forward in the backlog or the
completion of the accept comes forward in the queue, with every handler and every
accept that completes, and nothing sets it back; `AcceptsAreUnderWay`: there always
is such a completion, or a connection to complete the accept with.
`StreamsComeNearer`: for a client that listens and has not heard all it said, a step
of its session brings back more or is the session's next turn (read pending, read
queued, write pending, write queued), and any other handler brings its completion
forward; `StreamsAreUnderWay`: such a session has a completion queued, or an
operation that the kernel can complete. The latter needs `ReleasedOnlyWhenDone`
(`HeldInv`): a session is released only when its client has gone, or has finished and
heard everything.

Only model-checked:

* Liveness: `CommandTakesEffect`, `ParserReturns`, `TurnsWhenTold`,
  `DestructorReturns`, `ConnectionsAreServed`, `SessionsAreReleased` and the
  fairness part of `ImplementsEchoService`, `ImplementsReceiver` and
  `ImplementsStreamEcho`. Fairness is `ENABLED`, which the prover does not handle.
  What is proved for each is the other half of the argument, that something is left
  to happen and that each step leaves less: `CommandsComeNearer` and
  `CommandsAreNear`; `ParserAdvances` and `ParserIsBounded`; `NormalizeAdvances`;
  `DestructorIsAwaited` and `TeardownAdvances`; `ConnectionsComeNearer` and
  `AcceptsAreUnderWay`; `SessionsWindDown`; `EchoesComeNearer` and
  `AnswersAreUnderWay`, and with `ProcessMessage` in the loop `ComputerAnswers`;
  `StreamsComeNearer` and `StreamsAreUnderWay`. That fairness then takes the steps is
  what the runs show.
* Four of the findings, as traces of their runs; `receiver_rearm` is also
  `ErrorEndsReception`.

## Not modelled, and assumptions

* The framework is external: a simulation extension is added, initialised,
  started, completed and destroyed in this order; `MoverUpdated` is notified
  from the event loop. Whether `WsfPlatform::Update` on the IO thread notifies it
  too is not in this repository; `Threads` leaves room for it, the checked
  instances and the theorems on frames and commands take the simulation thread
  alone.
* Winsock references taken by Boost in the same process are not counted.
* The contents of frames (platform and sensor fields, escaping, precision), the
  vector of platform data they are copied from, log lines and their throttle.
* `target_id`, which nothing reads.
* Two threads in the collector. Whether `Update` on the IO thread notifies
  `MoverUpdated` decides whether this happens, and the answer is in the framework.
* What two threads do to one platform: a platform call is one step.
* The recurring event of `PendingStart` does nothing but ask for itself again, and
  when the framework drops it is not in this repository.
* `UpdateEvent` and `GetPlatformData` are created nowhere. Their behaviour is a copy
  of fields and the framework's contract for recurring events.
* The rest of Boost: only what the program leans on is modelled, namely `run`,
  `stop`, the work count and the shutdown on Windows, how accepts, receives and
  sends complete, and the composed write. Boost is nearly all of the repository's
  lines, so the modelled share of all lines is small whatever is done.

## Plan

Done, in this order: the receive loop and `EchoService`; `OnboardComputer` on top of
it; `UdpJsonSender` and `PlatformDataCollector`; `AgentCommandText` and
`AgentSteering`; `ComputerLife`; `TcpEcho` and `StreamEcho`; each with its proofs.

Left, and what each waits for:

1. The IO thread as a second thread of the collector: `Threads` has room for it,
   but which properties hold depends on the framework's observers.
2. The throttle of the log lines, if a property of the log is ever wanted.
3. `UpdateEvent` and `GetPlatformData`, when something creates them.
