# Fleet telemetry: a verification development

TLA+ specifications of the fleet telemetry client and server, TLC
configurations that check them on small instances, and TLAPS proofs. Paths are
relative to the repository; `server/`, `client/` and `shared/` stand for the
directories under `src/`.

## The system

A client process replays telemetry files, one thread per aircraft. Each thread
opens a TCP connection and sends one text line per record. The server accepts
connections for ever and gives each one a detached thread. All these threads
share one session manager behind a mutex, which accounts each aircraft's flight
and, when a connection ends, appends one row to a CSV file.

| part | state | operations | talks to |
|---|---|---|---|
| accept loop, listener (`server/ServerApp.cpp`, `ServerListener.cpp`) | listening socket, kernel backlog | start, accept, accept fails | starts handlers |
| connection handler (`server/ClientHandler.cpp`) | first aircraft id, packet count, error | loop body, finish | receiver, session manager |
| line receiver (`server/PacketReceiver.cpp`) | `m_buffer` | `ReceiveNextLine` | socket |
| session manager (`server/AircraftSessionManager.cpp`) | mutex, `m_aircraftHistory` | `AcceptRecord`, `CompleteFlight`, `LostConnectionFlight` (unused), snapshot (unused) | processor, store |
| flight accounting (`server/TelemetryProcessor.cpp`) | `m_activeFlights` | `Process`, `FinalizeFlight` | time parsing |
| statistics file (`server/StatisticsStore.cpp`) | the CSV file | `AppendFlightCsv`, `SaveSnapshotCsv` (unused) | file system |
| client session (`client/ClientApp.cpp`, `ClientSocket.cpp`) | connected or display only | connect, send, disconnect | server |
| network library (`shared/Network.h`) | `g_networkUserCount`, open handles | initialize, clean up, open, close, send | client session, listener, handlers |
| launcher, options (`client/main.cpp`, `ResolveRuntimeOptions`) | threads, `g_aircraftSequence` | start, resolve options, join | client sessions |
| file reading (`client/TelemetryReader.cpp`, `TelemetryParser.cpp`) | the position in the file | `ReadNextLine`, `ParseLine` | client session |
| packet codec (`shared/Packet.cpp`) | none | `Serialize`, `Deserialize` | client session, handlers |
| configuration (`shared/Utils.cpp`, `Config.h`) | none | the two loaders | launcher, accept loop |
| logging (`shared/Logger.cpp`) | log files | `Info`, `Error` | everybody |

What is hard: threads of several connections that use one aircraft id; lines
cut anywhere by TCP; a client killed within a line, reset, or gone without a
word; a restart with a file that survives and a memory that does not; a disk
that refuses a row after the flight was closed; samples with repeated, reversed
or unreadable timestamps; processes launched side by side that name their
aircraft alike; a library that is counted, and released on every one of many
failing paths; text that is searched rather than parsed. `PROJECT.json` lists
each hazard at its line with the properties that cover it.

What makes each part correct:

* accounting: neither fuel nor time is lost, invented or counted twice,
  whatever the order of the samples (`FuelWithinBounds`, `ExactWhenOrdered`,
  `SpanCovered`), and no rate is divided by zero (`ProcessorTypeOK`,
  `SessionTypeOK`);
* file and manager: append-only, one header, cumulative columns that add up
  (`NeverOverwritten`, `OneHeader`, `RowsAddUp`), and in sum the ledger that
  its callers may take it for (`ImplementsLedger`);
* handlers: every flight has somebody to close it when a connection ends, samples are conserved, and
  finalising fails only for a reason (`NoOrphanFlight`, `SamplesConserved`,
  `FailsOnlyWhenShared`);
* sockets: no handle is left open or closed twice, the library is up as long as
  it is needed, and every attempt to connect or listen returns
  (`HandlesExact`, `CountsUsers`, `EveryAttemptReturns`);
* texts: what the client reads of a file is what the server reads of its
  packets (`RecordsReadBack`, `CutPacketsHarmless`, `LinesReadAlike`), and every
  setting is read whatever stands around it (`SettingsReadBack`);
* the launcher: threads get ids of their own, within the range, the process
  stays until they are done, and then ends (`DistinctUnlessGiven`,
  `NumbersInRange`, `NoThreadCutByExit`, `EveryProcessEnds`);
* the whole: the flight recorded is the flight replayed (`EndToEnd`,
  `CutOnlyWhenAborted`), and everything that starts ends (`EveryHandlerReturns`,
  `EveryReplayEnds`, `EveryFlightEnds`).

## The modules

                           FlightLedger
                                :  (implemented by)
    TelemetryProcessor   StatisticsStore
              \            /
           AircraftSessionManager     ClientSession        Common
                          \            /                   /    \
                          ClientHandler               Packet    Config
                               |                        |
                           ServerApp             TelemetryParser

    ClientLauncher         NetworkUsers

`TelemetryProcessor` is the map of flights in progress. `FirstSample`,
`TimedUpdate`, `UntimedUpdate`, `Updated` and `NextSample` are the branches of
`Process`; `Finalized` is what `FinalizeFlight` hands out. Fuel and time are
integers and a rate is its numerator and denominator, so the properties speak
about which differences are added, not about floating-point rounding.
A timestamp is a value that `TimeOf` maps to a time, or does not when the code
cannot parse it. The history variable `audit` records what was reported, for
the properties to compare with; no guard reads it.

`StatisticsStore` is the file, a sequence of lines. It is the one variable that
survives a restart. A row may be lost: the open fails and the store returns
false, or a write fails and it returns true. The caller goes on in both cases.

`AircraftSessionManager` holds the operations. Each takes the mutex in its
first statement and keeps it to its end, so each is one action. `Construct` is
the constructor in a new process.

`FlightLedger` is what the manager promises to its callers, without its maps,
its incremental sums and its timestamps: at most one open flight per aircraft;
a report extends it, and every drop in fuel from one report to the next is
burned; closing it adds to the totals once, with a consumption that lies
between the net drop and what was burned; the row says what the totals say; a
restart keeps the rows only. `ImplementsLedger` is that specification under the
mapping `LedgerFlights`, `LedgerAllTotals` and `LedgerRows`: an aircraft without
an entry in `m_activeFlights` has the empty flight, and the rows are the file
without its header. A lost row is a closing that saves nothing.

`ClientSession` is a client thread and its connection. The stream of a
connection is not copied into a queue: `sent`, `received` and the handler's
`taken` are cursors into the telemetry, `LineLength` units to a line. With two
units a line can be cut before its newline, which is what partial sends,
receives and kills differ in. The link is open, shut down in order, reset, or
silent. When it is reset, both ends get errors and what is under way may still
be read or not. A `send` that fails on an intact link is followed by a shutdown in
order, which the server takes for the end of a flight, within a line or not.

`ClientHandler` is the handler's thread with its receiver. Its actions end at
the thread's blocking points, `recv` and the mutex; `m_buffer` is what lies
between `taken` and `received`. A line cut by the end of the stream is what
`Packet::Deserialize` makes of its first part (`CutLines`): refused, or accepted
with a fuel quantity between zero and the one sent. That is an assumption about
texts, and `CutPacketsHarmless` states it where texts are modelled, checked
there and proved. A connection
carries one aircraft id, as every client of this repository sends it.

`ServerApp` adds the accept loop, the backlog, the start of the process, which
may fail, its end and restart, and the clients around it. A crash stands for a
kill and for the exceptions no thread catches, between any two steps.

`Common`, `Packet`, `TelemetryParser` and `Config` are the parts that work on
text. A text is a sequence of tokens: separators, blanks, digits and words that
nothing looks into. They are operators, not state machines: the run writes a
file token by token and asks in every state what the code makes of it.
`Common` has the helpers with the behaviour of the standard library that the
rest relies on: `Split` ends a field at each delimiter and the last one at the
end of the text, and so drops an empty last field as `std::getline` does; `Stod`
and `Stoi` take the number a text begins with and ignore the rest, and `Stod`
accepts `nan`. The characters the program tells from others have names (`Comma`,
`Space`, `Dot`, `Digit(n)`), so that proofs can speak of them without looking
into strings. Quantities are in hundredths and a packet has one decimal, which
stands for the six of `std::setprecision`: the packet has fewer than the file,
which is what `Rounded` is about. `ReadJsonString` and `ReadJsonInt` search for
a key, a colon and what follows; the properties compare them with the members
that were written (`Said`).

`NetworkUsers` is one process and its sockets, on Windows or POSIX. The loops
of `Connect` and `Start` over the addresses are taken apart at their system
calls, where threads interleave; `Initialize` and `Cleanup` are atomic, which
the code's mutex makes them. `Cleanup` by the last user takes every handle of
the process with it, as `WSACleanup` does. An object whose `Connect` or `Start`
failed releases the library there and once more in its destructor
(`ClientSocket.cpp:14`); `OverReleased` names the states after that, and the
properties say what is still true in them.

`ClientLauncher` is what happens in client processes before the replay, and
where the aircraft ids come from that two connections of `ServerApp` may share.
A command line is a sequence of arguments; main reads it with one set of
options and each thread with another, and an option takes the next argument for
its value whatever that is. A thread's line ends with the id the launcher
appended, written `OwnId` because its text is the thread's number; what
`std::stoi` accepts is the domain of `IntOf`. An aircraft id is kept as its form
(numbered, drawn from the counter, given) with what distinguishes it. Of the
replay only its end remains, which `ClientSession` has in detail.

The operators whose comment calls them wrong variants are plausible mistakes in
the definition after them. Nothing uses them in the specification; they show
that the properties can fail.

## What is checked

| run | configuration | shows |
|---|---|---|
| inputs | one aircraft, 3 times and an unreadable timestamp, 3 quantities, up to 4 samples; telemetry files of up to 5 tokens of 10; configuration files of up to 2 members of 10 keys | the accounting properties over every sequence of samples, and what becomes of every such text |
| manager | two aircraft, up to 2 samples, 3 flights per run, 3 file lines, restarts | the file and the cumulative columns, with lost rows and restarts, and that the manager implements the ledger |
| shared_id | two clients with one id, 2 records and 1, all faults, two starts | handlers interleaved on one flight, and across a restart |
| fleet | two ids, refused and empty lines, kill, reset, failing sends | a completed flight is the replayed one |
| live | two clients, one id, kill, reset, failing sends, crash, two starts | liveness |
| network | three client threads or a listener with two connections, 3 handles, 1 or 2 addresses, both builds | handles and the count of users on every path, and that every attempt returns |
| launcher | four processes, one or two threads each | ids, exits and ends with awkward command lines |

The sizes. Four samples are enough for timed, untimed, timed again and
reversed. Five tokens make a whole line with a sign or a decimal that lies half
way, two lines, or a header with the comma after it. Two members of a
configuration file put each key before or after each other one, or twice. Two
connections give every pairwise interleaving of handlers, and a third that
shares the id adds another of the same kind; two starts give one restart in the
middle of things. Three client threads are one that fails, one that holds the
library up and one that comes later. What the small sizes cannot show is, for
most properties, proved for all sizes (below).

`Window` bounds what is under way: at least one line and part of the next in
the safety runs, and one unit in the live run, where a client then blocks at
every step. `Faults` selects the faults of a run: `kill`, `reset`, `vanish`
and `send` (an error of its own on an intact connection) of a client, `disk`, `crash` and `bind` of the server. The other bounds are
`MaxSamples`, `MaxTokens`, `MaxMembers`, `MaxFlights`, `MaxLines` (in the `MC`
modules), `MaxStarts` and `MaxAddresses`; the modules proved about have none
but the last two, which are arbitrary there.

In the launcher's run the threads are kept to two per process by the options
on the command lines, which are the code's own means; the lines are those where
the two readings differ: a last option without its value (which swallows the
appended flag), with and without an id before it, one where the flag is taken
for a port, and one with an unreadable number, more clients than ids and a file
that does not open.

Deadlock is not checked where the system may stop: with every client gone the
server waits in `accept`, which is how it is meant to end (the runs of
`ServerApp` and `network`); every client process ends (`launcher`, `process_ids`,
`network`); and a file of the length the run allows is complete (`inputs`).

### Fairness

* `ServerApp`: weak fairness of the accept loop, of each handler and of each
  connected client's replay. All three are threads that loop without a
  condition of their own; they wait for the socket or for the mutex, which is
  held for a bounded time. Nothing is assumed of clients that have not
  connected, of the server being started, or of faults. The live run excludes a
  client that vanishes: with one, `EveryHandlerReturns` and `EveryFlightEnds`
  fail, which is the finding below.
* `NetworkUsers`: weak fairness of each object's attempt. The loops over the
  addresses have no condition of their own, and `getaddrinfo`, `connect` and
  `bind` return in the end, if only with a time-out of the operating system.
* `ClientLauncher`: weak fairness of main and of each thread it has started.
  That a replay ends is what `EveryReplayEnds` shows of `ServerApp`.

### Where code and documentation differ

| run | the text | the code |
|---|---|---|
| cumulative | `FlightStatistics.h:26` "total fuel across all flights (of same plane)" | the history starts empty with every server start, the file does not |
| complete_lines | `PacketReceiver.cpp:5` "extracts complete lines" | the first part of a line becomes a record when its sender ends |
| max_clients | `config/server.config.json:4` | read and never enforced |
| lost_client | `AircraftSessionManager.cpp:57` "clear it from the map" | nothing notices such a client, `LostConnectionFlight` is called nowhere |
| process_ids | `README.md:81` "Each client process now receives a unique aircraft ID at startup", `README.md:83` "batch scripts now pass unique `--aircraft-id` values" | every process numbers its aircraft from 1, and the id it appends replaces the one given |

With the last one goes another, which has no run of its own: `README.md:82`
promises log files named after aircraft, process and time, while
`ClientApp.cpp:210` names them after the aircraft alone, so that the processes
that share an id share the file.

## What is proved

For every value of the constants, with TLAPS. Each theorem names the properties
it covers in `PROJECT.json`.

* `ProcessorCorrect`: the type invariant and the three accounting properties.
  They are not inductive. `Accounted` strengthens them: it relates each entry
  to its audit entry, field by field: the previous quantity is the last one
  reported, the fuel accounted so far is between zero and what was burned, the
  previous time is the last one that parsed, and the time summed up covers the
  span so far. `NextSampleAccounted` is the core: it goes through the timed and
  untimed branches.
* `SessionCorrect`: the same under the manager, with `OneHeader` and
  `RowsAddUp`. `RowsAddUp` is inductive as it stands: its last part says that
  the history in memory, to which the next row is added, is not behind any row
  of the run. That a closed flight adds nothing negative comes from `Accounted`.
* `RowsNeverOverwritten`: the action property of the file.
* `SessionImplementsLedger`: the refinement. Each operation maps to the step of
  the ledger with the same meaning. The core is `FinalizedIsClosed`, that the
  consumption `Finalized` computes is one the ledger allows, which again is
  `Accounted`; `AppendedIsSaved` deals with the header, which is no row.
* `ServerCorrect`: the type invariant of the whole state, `NoOrphanFlight`, and
  all of the above, for any number of clients, restarts and faults.
  `NoOrphanFlight` is inductive with `NamedAfterClient`, a handler's
  `aircraftId` is empty or its client's: it is what makes the handler that
  accepts a record responsible for the flight the record goes to.
* `ServerImplementsManager`: `Spec => SessionSpec`, each step of the server is
  an operation of the manager or leaves it alone. With it
  `ServerNeverOverwrites` and `ServerImplementsLedger` are the manager's
  theorems again.
* `ServerEndToEnd`: `EndToEnd`, `CutOnlyWhenAborted` and `FailsOnlyWhenShared`.
  None is inductive; `EndInv` is, and its parts tell how the three come about.
  `MirrorOK`: the flight in progress of a client that has its id to itself
  covers exactly the records among the lines its handler has consumed, as long
  as it stands at the end of a line; `LineMirrored` is the step in which a line
  is added. `CutOK`: the handler stands elsewhere only when its client was
  killed or gave up sending, and nothing more will come. `EndedOK`: a handler that left its loop
  without an error at the end of the file has consumed all of it, which
  `RemainderOfAborted` needs (a stream of whole lines leaves no remainder).
  `AccountedOK`: where a handler has accepted a record, its flight is in
  progress or somebody has saved it, which is why only another handler's saving
  can make it fail. `QueueOK`, `StoppedOK` and `LinkOK` say when each thing can
  not have happened yet. What makes this provable is that the records consumed
  are a set of line numbers, whose size grows by one with each: no induction
  over sequences.
* `ServerConservesSamples`: `SamplesConserved`, which speaks of sums over sets
  of handlers. `SamplesInv` strengthens it with `EndInv` and `CountedOK`: only
  finitely many connections have named an aircraft, without which the sums
  would mean nothing; a handler that has named none has accepted nothing; and
  one whose flight is saved holds its row. One step then changes one summand on
  each side: a record adds one to a handler's count and to the flight in
  progress, and a closing moves that flight's samples to the handler that saves
  it.
* `RecordsSurviveTheWire`, `CutsAreRefusedOrSmaller`, `DecorationNeverMatters`:
  what a client reads of a file, what the server reads of the packet or of its
  first part, and that decoration (a header and its comma before a line, a comma
  at its end, blanks around it) changes nothing, for files of every length over
  any tokens and for every aircraft id that a packet can carry (`IsPlain`: trimmed
  and without a comma). `InputsReadBack` draws from them the three properties
  the run checks. The argument goes through the code: what `ParseLine` accepts
  is a trimmed text without commas and a number that is not negative or `nan`
  (`RecordOfLine`); the fields of a packet that ends after n tokens are fewer
  than three up to the second comma and the record's own after it
  (`CutFields`); and `Stod` reads of the digits written what was rounded
  (`StodOfDecimal`), of a part of them no more (`StodOfCut`), because digits
  that are missing at the end only make a number smaller (`ValueOfFirst`).
* `SettingsAreRead`: both loaders read every setting of a configuration file of
  any number of members (`HasMembers`: ten keys in any order and as often as one
  likes, texts of any tokens but a quote, numbers that `stoi` takes with nothing
  around them), under the two exceptions that `Expected` names.
  `ConfigurationsReadBack` draws `SettingsReadBack` of the run from it. A file
  is searched and not parsed, so the proof says where things stand in it: a body
  with more members begins with every shorter one and goes on with a comma
  (`BodyGoesOn`), so each member stands whole at its place and its line ends
  there (`MemberAt`); a key is no token before the first member that has it
  (`BodyLacks`), so the search finds that member (`NamedFound`) or nothing
  (`UnnamedNotFound`); and from the key on the colon, the quotes or the end of
  the number are those of the member, whatever characters its text holds
  (`TextRead`, `NumberRead`, `TextIsNoNumber`).
* `OptionsInRange`: what `GetLaunchOptions` makes of any command line, from what
  the clamping guarantees and nothing about the numbers.
* `LauncherCorrect`: the launcher's four invariants, for any number of processes
  and any command lines. `LauncherInv` strengthens them: a numbered id is that
  of its thread's place, a number drawn from the counter is at most the counter
  (so the next one is new), and the threads main has joined are done.
* `NetworkCorrect`: the invariants of the sockets, for any number of threads,
  connections and handles. `NetworkInv` adds which objects hold a handle at
  which point of their lives (`PhasesAgree`) and that only a process that
  listens has handlers. `CountsUsers` comes from how one step changes the size
  of the set of users (`UserCount`).

The samples and the texts rest on sums, on the number that digits stand for, on
the digits of a number and on the body of a configuration file: four recursive
definitions. The theorems on induction cannot be cited here, for they take an
operator for a parameter, so `FoldTheorems` does without: a set of numbers has a
least one (from `WFMin`), a set that contains 0 and with each number the next
contains all (`Successors`), hence there is one and only one function on the
subsets of a finite set that follows a rule from each to the next larger
(`FoldExists`, `FoldUnique`), and a sum is its value (`SumIsFold`, `SumWith`,
`SumWithout`). `Inputs_proofs` uses the same for the value of some digits
(`ValueIsFold`), shows that `DigitsOf` exists from partial solutions that agree
(`WrittenFar`, `DigitsOfNumber`) and the body of a configuration file likewise
(`BodyFar`, `BodyIs`), and finds the k-th field by counting the ends up to each
(`KthExists`).

Assumed: `NaNAssumption` (not a number is no number), `ProcessorAssumption`
(times and quantities are integers), `HeaderAssumption` (the header is no row),
`SessionAssumption`, `HandlerAssumption` (a session's records carry its id),
`StartsAssumption`, `LauncherAssumption` (a command line is a sequence of texts)
and `NetworkAssumption` (finitely many threads, objects told apart). TLC
evaluates all of them in the runs.

Model-checked only: liveness, that is `EveryHandlerReturns`, `EveryReplayEnds`,
`EveryFlightEnds`, `EveryAttemptReturns` and `EveryProcessEnds`. It needs
fairness, and with it `ENABLED`, which is out of the prover's reach. Every
invariant and every action property that a run checks is proved.

## What is not modelled

* Logging and the console: output that nothing reads. With it, that loggers of
  several threads share the buffer of `std::localtime` on POSIX.
* Numbers with exponents, in hexadecimal, infinite or out of range; the other
  four decimals. In the flight accounting a quantity is a number: what `nan`
  does to the maxima there is not modelled, only that it arrives.
* Configuration files with a number under a key for a text, or with a text that
  is itself a key: the search takes the wrong text then (`Utils.cpp:28`). The
  property names this exception.
* SIGPIPE on POSIX as an outcome of its own: the end of the client process is
  the fault `kill`, which may come at any moment.
* Two servers on one port, which `SO_REUSEADDR` allows on Windows.
* Which telemetry file a client picks; only whether it opens. The server's
  command line, whose options no property depends on.
* `GetActiveStatisticsSnapshot`, `GetCurrentStatistics`, `SaveSnapshotCsv`:
  never called, and they change nothing the rest reads.
* A row written in part, and floating-point rounding.
* A connection with records of several ids: no client sends one, and the server
  would close only the flight of the first.

## What could come next

1. Connections with several ids, and flights that are then left behind.
2. What the loaders make of files outside `Expected`, and of layouts other than
   one member to a line.
3. Liveness proofs, once `ENABLED` is within the provers' reach.
