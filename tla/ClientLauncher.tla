---------------------------- MODULE ClientLauncher ----------------------------
(***************************************************************************)
(* Client processes started side by side (src/client/main.cpp and the      *)
(* options of src/client/ClientApp.cpp).  Each runs one thread per         *)
(* aircraft, and each thread reads the command line again, extended by the *)
(* launcher with an aircraft id for it.                                    *)
(*                                                                         *)
(* A command line is the sequence of arguments after the program's name.   *)
(***************************************************************************)
EXTENDS Integers, Sequences, FiniteSetsExt

CONSTANTS
  Processes,      \* the client processes
  CommandLine,    \* the arguments each was started with
  IntOf,          \* the number std::stoi makes of each text it accepts
  ReadableFiles,  \* the names of telemetry files that open
  ConfigFile,     \* telemetry_file of the configuration
  OwnId           \* the argument that is the id the launcher made for a thread

ASSUME LauncherAssumption ==
  /\ DOMAIN CommandLine = Processes
  /\ \A p \in Processes : CommandLine[p] \in Seq(STRING)
  /\ OwnId \in STRING
  /\ \A text \in DOMAIN IntOf : IntOf[text] \in Int

VARIABLES
  process,              \* whether each process runs, and how it ended
  threads,              \* its threads, in the order main started them
  joined,               \* how many of them main has joined
  g_aircraftSequence    \* the process-wide counter of unnamed aircraft

vars == <<process, threads, joined, g_aircraftSequence>>

-----------------------------------------------------------------------------
(* Reading a command line                                                  *)

\* An argument is examined unless the option before it has taken it for its value.
Examined(argv, options) ==
  LET examined[i \in 1..Len(argv)] ==
        i = 1 \/ ~(examined[i - 1] /\ argv[i - 1] \in options)
  IN  examined

\* Where the values read for an option are.
ValuesOf(option, argv, options) ==
  {i \in 2..Len(argv) : argv[i - 1] = option /\ Examined(argv, options)[i - 1]}

\* The last one counts.
Value(option, argv, options, default) ==
  LET values == ValuesOf(option, argv, options)
  IN  IF values = {} THEN default ELSE argv[Max(values)]

-----------------------------------------------------------------------------
(* The launcher's options                                                  *)

LaunchFlags == {"--client-count", "--aircraft-start", "--aircraft-end"}

AtLeast(low, n) == IF n < low THEN low ELSE n
AtMost(high, n) == IF n > high THEN high ELSE n

\* A number option: as it stands, or its defaults when it is absent or no number.
NumberOption(option, argv, absent, unreadable) ==
  IF ValuesOf(option, argv, LaunchFlags) = {} THEN absent
  ELSE LET text == Value(option, argv, LaunchFlags, "")
       IN  IF text \in DOMAIN IntOf THEN IntOf[text] ELSE unreadable

\* A wrong variant of the next definition: more clients than ids are allowed.
GetLaunchOptionsUnclamped(argv) ==
  LET start == AtLeast(1, NumberOption("--aircraft-start", argv, 1, 1))
  IN  [ClientCount   |-> AtLeast(1, NumberOption("--client-count", argv, 25, 3)),
       AircraftStart |-> start,
       AircraftEnd   |-> AtLeast(start, NumberOption("--aircraft-end", argv, 25, 3))]

GetLaunchOptions(argv) ==
  LET start == AtLeast(1, NumberOption("--aircraft-start", argv, 1, 1))
      end   == AtLeast(start, NumberOption("--aircraft-end", argv, 25, 3))
      count == AtLeast(1, NumberOption("--client-count", argv, 25, 3))
  IN  [ClientCount   |-> AtMost(end - start + 1, count),
       AircraftStart |-> start,
       AircraftEnd   |-> end]

\* What main has read before it starts its first thread.
LaunchOptions == [p \in Processes |-> GetLaunchOptions(CommandLine[p])]
Options(p) == LaunchOptions[p]

-----------------------------------------------------------------------------
(* A thread's options                                                      *)

RuntimeFlags == {"--server-ip", "--server-port", "--telemetry-file", "--aircraft-id",
                 "--send-interval-ms"}

\* What the launcher hands to a thread.
ThreadArguments(p) == CommandLine[p] \o <<"--aircraft-id", OwnId>>

\* std::stoi is given a text that is no number and nothing catches it.
Throws(argv) ==
  \E option \in {"--server-port", "--send-interval-ms"} :
    \E i \in ValuesOf(option, argv, RuntimeFlags) : argv[i] \notin DOMAIN IntOf

\* The forms of aircraft id: a number of three digits or as many as it takes, one
\* of twenty-five digits, and the text that was given, which no thread of the same
\* process mixes with the others.
NoId == <<"none", 0>>
BuildAircraftId(number) == <<"numbered", number>>
BuildReadableAircraftId(number) == <<"sequence", number>>
GivenId(text) == <<"given", text>>

\* The id option of a thread's command line is absent or empty.
Unnamed(argv) == Value("--aircraft-id", argv, RuntimeFlags, "") = ""

\* A wrong variant of the next definition: main's loop variable is captured by
\* reference and read when the thread gets to it.
ResolvedIdByReference(p, i, n) ==
  LET argv  == ThreadArguments(p)
      given == Value("--aircraft-id", argv, RuntimeFlags, "")
  IN  IF Unnamed(argv) THEN BuildReadableAircraftId(n + 1)
      ELSE IF given = OwnId
        THEN BuildAircraftId(Options(p).AircraftStart + Len(threads[p]) - 1)
      ELSE GivenId(given)

\* The id the i-th thread of p goes by, when the counter stands at n before it.
ResolvedId(p, i, n) ==
  LET argv  == ThreadArguments(p)
      given == Value("--aircraft-id", argv, RuntimeFlags, "")
  IN  IF Unnamed(argv) THEN BuildReadableAircraftId(n + 1)
      ELSE IF given = OwnId THEN BuildAircraftId(Options(p).AircraftStart + i - 1)
      ELSE GivenId(given)

OpensFile(p) ==
  Value("--telemetry-file", ThreadArguments(p), RuntimeFlags, ConfigFile) \in ReadableFiles

-----------------------------------------------------------------------------
(* A process                                                               *)

\* started: created, its options not read yet; replaying: in ClientApp::Run with
\* an id; done: its function has returned; cut: ended with its process.
ThreadStates == {"started", "replaying", "done", "cut"}

Init ==
  /\ process = [p \in Processes |-> "running"]
  /\ threads = [p \in Processes |-> <<>>]
  /\ joined = [p \in Processes |-> 0]
  /\ g_aircraftSequence = [p \in Processes |-> 0]

\* A wrong variant of the next definition: one thread too many.
AllStartedLate(p) == Len(threads[p]) = Options(p).ClientCount + 1

AllStarted(p) == Len(threads[p]) = Options(p).ClientCount

\* main starts its next thread.
Launch(p) ==
  /\ process[p] = "running" /\ ~AllStarted(p)
  /\ threads' = [threads EXCEPT ![p] = Append(@, [state |-> "started", id |-> NoId])]
  /\ UNCHANGED <<process, joined, g_aircraftSequence>>

\* std::terminate: the process ends and its threads with it.
Terminate(p) ==
  /\ process' = [process EXCEPT ![p] = "terminated"]
  /\ threads' = [threads EXCEPT ![p] =
                   [i \in 1..Len(@) |-> [@[i] EXCEPT !.state = "cut"]]]
  /\ UNCHANGED <<joined, g_aircraftSequence>>

\* No thread can be created: the exception leaves main.
LaunchFails(p) ==
  /\ process[p] = "running" /\ ~AllStarted(p)
  /\ Terminate(p)

\* A wrong variant of the next definition: a file that does not open is tried again.
ResolveRetrying(p, i) ==
  /\ process[p] = "running" /\ threads[p][i].state = "started"
  /\ ~Throws(ThreadArguments(p)) /\ OpensFile(p)
  /\ threads' = [threads EXCEPT ![p][i] =
                   [state |-> "replaying",
                    id    |-> ResolvedId(p, i, g_aircraftSequence[p])]]
  /\ g_aircraftSequence' = [g_aircraftSequence EXCEPT ![p] =
                              IF Unnamed(ThreadArguments(p)) THEN @ + 1 ELSE @]
  /\ UNCHANGED <<process, joined>>

\* ResolveRuntimeOptions on the thread; the file is opened, or the thread ends.
Resolve(p, i) ==
  /\ process[p] = "running" /\ threads[p][i].state = "started"
  /\ ~Throws(ThreadArguments(p))
  /\ threads' = [threads EXCEPT ![p][i] =
                   [state |-> IF OpensFile(p) THEN "replaying" ELSE "done",
                    id    |-> ResolvedId(p, i, g_aircraftSequence[p])]]
  /\ g_aircraftSequence' = [g_aircraftSequence EXCEPT ![p] =
                              IF Unnamed(ThreadArguments(p)) THEN @ + 1 ELSE @]
  /\ UNCHANGED <<process, joined>>

\* The exception of std::stoi leaves the thread's function.
ResolveThrows(p, i) ==
  /\ process[p] = "running" /\ threads[p][i].state = "started"
  /\ Throws(ThreadArguments(p))
  /\ Terminate(p)

\* The replay, which ClientSession has in detail, is over.
ReplayEnds(p, i) ==
  /\ process[p] = "running" /\ threads[p][i].state = "replaying"
  /\ threads' = [threads EXCEPT ![p][i].state = "done"]
  /\ UNCHANGED <<process, joined, g_aircraftSequence>>

\* A wrong variant of the next definition: the thread is not waited for.
JoinAtOnce(p) ==
  /\ process[p] = "running" /\ AllStarted(p)
  /\ joined[p] < Len(threads[p])
  /\ joined' = [joined EXCEPT ![p] = @ + 1]
  /\ UNCHANGED <<process, threads, g_aircraftSequence>>

\* main joins the threads in the order it started them.
Join(p) ==
  /\ process[p] = "running" /\ AllStarted(p)
  /\ joined[p] < Len(threads[p])
  /\ threads[p][joined[p] + 1].state = "done"
  /\ joined' = [joined EXCEPT ![p] = @ + 1]
  /\ UNCHANGED <<process, threads, g_aircraftSequence>>

\* main returns.
Exit(p) ==
  /\ process[p] = "running" /\ AllStarted(p)
  /\ joined[p] = Len(threads[p])
  /\ process' = [process EXCEPT ![p] = "exited"]
  /\ UNCHANGED <<threads, joined, g_aircraftSequence>>

MainStep(p) == Launch(p) \/ LaunchFails(p) \/ Join(p) \/ Exit(p)

ThreadStep(p, i) == Resolve(p, i) \/ ResolveThrows(p, i) \/ ReplayEnds(p, i)

Next ==
  \E p \in Processes :
    MainStep(p) \/ \E i \in 1..Len(threads[p]) : ThreadStep(p, i)

Spec == Init /\ [][Next]_vars

\* main and the threads it has started are scheduled, and a replay ends.
Fairness ==
  \A p \in Processes :
    /\ WF_vars(MainStep(p))
    /\ \A i \in 1..Options(p).ClientCount :
         WF_vars(i <= Len(threads[p]) /\ ThreadStep(p, i))

FairSpec == Spec /\ Fairness

-----------------------------------------------------------------------------
(* Properties                                                              *)

Arguments ==
  UNION {{ThreadArguments(p)[i] : i \in 1..Len(ThreadArguments(p))} : p \in Processes}

AircraftId ==
  {NoId} \cup ({"numbered", "sequence"} \X Nat) \cup {GivenId(text) : text \in Arguments}

\* The state is well formed; main joins no more threads than there are, and there
\* are no more than was asked for.
TypeOK ==
  /\ process \in [Processes -> {"running", "exited", "terminated"}]
  /\ DOMAIN threads = Processes
  /\ joined \in [Processes -> Nat]
  /\ g_aircraftSequence \in [Processes -> Nat]
  /\ \A p \in Processes :
       /\ threads[p] \in Seq([state : ThreadStates, id : AircraftId])
       /\ joined[p] <= Len(threads[p])
       /\ Len(threads[p]) <= Options(p).ClientCount

\* Two threads of one process have the same aircraft id only when it is one given
\* on the command line, whatever the order in which they draw from the counter.
DistinctUnlessGiven ==
  \A p \in Processes : \A i, j \in 1..Len(threads[p]) :
    (i # j /\ threads[p][i].id # NoId /\ threads[p][i].id = threads[p][j].id) =>
      threads[p][i].id[1] = "given"

\* However the numbers on the command line relate, threads are numbered within
\* the range of ids the launcher has settled on.
NumbersInRange ==
  \A p \in Processes : \A i \in 1..Len(threads[p]) :
    threads[p][i].id[1] = "numbered" =>
      threads[p][i].id[2] \in Options(p).AircraftStart..Options(p).AircraftEnd

\* main does not return before every thread has come to the end of its replay.
NoThreadCutByExit ==
  \A p \in Processes :
    process[p] = "exited" => \A i \in 1..Len(threads[p]) : threads[p][i].state = "done"

\* A client process ends, by itself or by an exception in one of its threads:
\* whichever threads are done first and whichever throws, main is not left in a
\* join that never returns.
EveryProcessEnds ==
  \A p \in Processes : process[p] = "running" ~> process[p] # "running"

-----------------------------------------------------------------------------
(* What the documentation says, and the code does not do                   *)

Replaying(p) == {i \in 1..Len(threads[p]) : threads[p][i].state = "replaying"}

\* "Each client process now receives a unique aircraft ID at startup unless
\* `--aircraft-id` is explicitly provided" (README.md:81), and "batch scripts now
\* pass unique `--aircraft-id` values" (README.md:83).
UniqueAcrossProcesses ==
  \A p, q \in Processes : \A i \in Replaying(p), j \in Replaying(q) :
    p # q => threads[p][i].id # threads[q][j].id
=============================================================================
