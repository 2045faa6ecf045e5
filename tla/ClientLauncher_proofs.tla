------------------------- MODULE ClientLauncher_proofs -------------------------
(***************************************************************************)
(* Proofs about the client launcher: what it makes of the numbers on any   *)
(* command line, and the ids its threads get in any order.                 *)
(***************************************************************************)
EXTENDS ClientLauncher, SequenceTheorems, WellFoundedInduction, TLAPS

-----------------------------------------------------------------------------
(* Command lines                                                           *)

\* Max of a set of positions is one of them: the reflection of the set has a
\* least number.
LEMMA GreatestIsMember ==
  ASSUME NEW n \in Nat, NEW S \in SUBSET (1..n), S # {}
  PROVE  Max(S) \in S
<1> DEFINE T == {n - i : i \in S}
<1>1. T \subseteq Nat /\ T # {}
  <2>1. \A i \in S : n - i \in Nat
    OBVIOUS
  <2>2. PICK i \in S : TRUE
    OBVIOUS
  <2>3. n - i \in T
    BY <2>2
  <2> QED  BY <2>1, <2>3, Zenon
<1>2. PICK x \in T : \A y \in T : <<y, x>> \notin OpToRel(<, Nat)
  <2> HIDE DEF T
  <2> QED  BY <1>1, NatLessThanWellFounded, WFMin, Zenon
<1>3. \A y \in T : ~(y < x)
  <2> HIDE DEF T
  <2>1. \A y \in T : <<y, x>> \in Nat \X Nat
    BY <1>1
  <2>2. \A y \in T : y < x => <<y, x>> \in OpToRel(<, Nat)
    BY <2>1 DEF OpToRel
  <2> QED  BY <1>2, <2>2
<1>4. PICK i \in S : x = n - i
  OBVIOUS
<1>5. \A j \in S : i >= j
  <2> TAKE j \in S
  <2>1. ~(n - j < n - i)
    BY <1>3, <1>4
  <2> QED  BY <2>1
<1> QED  BY <1>5 DEF Max

\* The value of an option is its default or one of the arguments.
LEMMA ValueIsArgument ==
  ASSUME NEW S, NEW option, NEW argv \in Seq(S), NEW options, NEW default
  PROVE  \/ Value(option, argv, options, default) = default
         \/ \E i \in 1..Len(argv) : Value(option, argv, options, default) = argv[i]
<1> DEFINE values == ValuesOf(option, argv, options)
<1>1. Len(argv) \in Nat
  OBVIOUS
<1>2. values \in SUBSET (1..Len(argv))
  BY <1>1 DEF ValuesOf
<1>3. CASE values = {}
  BY <1>3 DEF Value
<1>4. CASE values # {}
  <2>1. Max(values) \in values
    <3> HIDE DEF values
    <3> QED  BY <1>1, <1>2, <1>4, GreatestIsMember
  <2>2. Value(option, argv, options, default) = argv[Max(values)]
    BY <1>4 DEF Value
  <2> QED  BY <1>2, <2>1, <2>2
<1> QED  BY <1>3, <1>4

\* A number option is a number.
LEMMA NumberOptionType ==
  ASSUME NEW option, NEW argv, NEW absent \in Int, NEW unreadable \in Int
  PROVE  NumberOption(option, argv, absent, unreadable) \in Int
BY LauncherAssumption DEF NumberOption

\* Whatever the numbers on the command line, there is at least one client, ids
\* start at one or above, and there is an id in the range for every client.
THEOREM OptionsInRange ==
  ASSUME NEW argv
  PROVE  LET options == GetLaunchOptions(argv)
         IN  /\ options.ClientCount \in Nat /\ options.ClientCount >= 1
             /\ options.AircraftStart \in Nat /\ options.AircraftStart >= 1
             /\ options.AircraftEnd \in Nat
             /\ options.AircraftStart + options.ClientCount - 1 <= options.AircraftEnd
<1> DEFINE start == AtLeast(1, NumberOption("--aircraft-start", argv, 1, 1))
           end   == AtLeast(start, NumberOption("--aircraft-end", argv, 25, 3))
           count == AtLeast(1, NumberOption("--client-count", argv, 25, 3))
<1>1. start \in Nat /\ start >= 1
  BY NumberOptionType DEF AtLeast
<1>2. end \in Nat /\ start <= end
  <2> HIDE DEF start
  <2> QED  BY <1>1, NumberOptionType DEF AtLeast
<1>3. count \in Nat /\ count >= 1
  BY NumberOptionType DEF AtLeast
<1>4. /\ GetLaunchOptions(argv).ClientCount = AtMost(end - start + 1, count)
      /\ GetLaunchOptions(argv).AircraftStart = start
      /\ GetLaunchOptions(argv).AircraftEnd = end
  BY DEF GetLaunchOptions
<1> HIDE DEF start, end, count
<1> QED  BY <1>1, <1>2, <1>3, <1>4 DEF AtMost

\* The options of a process.
LEMMA OptionsType ==
  ASSUME NEW p \in Processes
  PROVE  /\ Options(p).ClientCount \in Nat /\ Options(p).ClientCount >= 1
         /\ Options(p).AircraftStart \in Nat
         /\ Options(p).AircraftEnd \in Nat
         /\ Options(p).AircraftStart + Options(p).ClientCount - 1 <= Options(p).AircraftEnd
BY OptionsInRange DEF Options, LaunchOptions

-----------------------------------------------------------------------------
(* The inductive invariant                                                 *)

\* Where an id comes from: a number tells the thread's place, a number from the
\* counter was drawn already.
FromItsPlace(p, i) ==
  LET id == threads[p][i].id IN
  /\ id[1] = "numbered" => id[2] = Options(p).AircraftStart + i - 1
  /\ id[1] = "sequence" => id[2] <= g_aircraftSequence[p]

\* While main runs its threads are not cut, and those it has joined are done.
JoinedAreDone(p) ==
  /\ joined[p] <= Len(threads[p])
  /\ process[p] = "running" =>
       \A i \in 1..joined[p] : threads[p][i].state = "done"
  /\ process[p] = "exited" =>
       \A i \in 1..Len(threads[p]) : threads[p][i].state = "done"

Thread == [state : ThreadStates, id : AircraftId]

\* What holds of one process.
ProcessInv(p) ==
  /\ threads[p] \in Seq(Thread) /\ Len(threads[p]) <= Options(p).ClientCount
  /\ \A i \in 1..Len(threads[p]) : FromItsPlace(p, i)
  /\ JoinedAreDone(p)
  /\ \A i, j \in 1..Len(threads[p]) :
       (i # j /\ threads[p][i].id # NoId /\ threads[p][i].id = threads[p][j].id) =>
         threads[p][i].id[1] = "given"

Shape ==
  /\ process \in [Processes -> {"running", "exited", "terminated"}]
  /\ DOMAIN threads = Processes
  /\ joined \in [Processes -> Nat]
  /\ g_aircraftSequence \in [Processes -> Nat]

LauncherInv == Shape /\ \A p \in Processes : ProcessInv(p)

\* The properties follow.
LEMMA LauncherInvImplies ==
  LauncherInv => TypeOK /\ DistinctUnlessGiven /\ NumbersInRange /\ NoThreadCutByExit
<1> SUFFICES ASSUME LauncherInv
             PROVE  TypeOK /\ DistinctUnlessGiven /\ NumbersInRange /\ NoThreadCutByExit
  OBVIOUS
<1>1. NumbersInRange
  <2> SUFFICES ASSUME NEW p \in Processes, NEW i \in 1..Len(threads[p]),
                      threads[p][i].id[1] = "numbered"
               PROVE  threads[p][i].id[2]
                        \in Options(p).AircraftStart..Options(p).AircraftEnd
    BY DEF NumbersInRange
  <2>1. threads[p][i].id[2] = Options(p).AircraftStart + i - 1
    BY DEF LauncherInv, ProcessInv, FromItsPlace
  <2>2. Len(threads[p]) <= Options(p).ClientCount /\ Len(threads[p]) \in Nat
    BY DEF LauncherInv, ProcessInv
  <2> QED  BY <2>1, <2>2, OptionsType
<1>2. NoThreadCutByExit
  BY DEF LauncherInv, ProcessInv, JoinedAreDone, NoThreadCutByExit
<1>3. TypeOK
  BY DEF LauncherInv, Shape, ProcessInv, JoinedAreDone, TypeOK, Thread
<1>4. DistinctUnlessGiven
  BY DEF LauncherInv, ProcessInv, DistinctUnlessGiven
<1> QED  BY <1>1, <1>2, <1>3, <1>4

-----------------------------------------------------------------------------
(* What a thread resolves to                                               *)

\* A pair of elements can be appended to a sequence.
LEMMA PairAppended ==
  ASSUME NEW S, NEW T, S \subseteq T, NEW s \in Seq(S), NEW a \in T, NEW b \in T
  PROVE  s \o <<a, b>> \in Seq(T)
<1>1. s \in Seq(T)
  OBVIOUS
<1>2. <<a, b>> \in Seq(T)
  OBVIOUS
<1> QED  BY <1>1, <1>2

\* What a thread reads is a sequence of texts.
Texts == STRING \cup {"--aircraft-id", OwnId}

LEMMA ThreadArgumentsType ==
  ASSUME NEW p \in Processes
  PROVE  ThreadArguments(p) \in Seq(Texts)
<1>1. CommandLine[p] \in Seq(STRING)
  BY Zenon, LauncherAssumption
<1>2. STRING \subseteq Texts /\ "--aircraft-id" \in Texts /\ OwnId \in Texts
  BY Zenon DEF Texts
<1>3. CommandLine[p] \o <<"--aircraft-id", OwnId>> \in Seq(Texts)
  BY <1>1, <1>2, PairAppended, Zenon
<1> QED  BY <1>3 DEF ThreadArguments

\* An id option that is not empty is one of the arguments.
LEMMA GivenIsArgument ==
  ASSUME NEW p \in Processes,
         Value("--aircraft-id", ThreadArguments(p), RuntimeFlags, "") # ""
  PROVE  Value("--aircraft-id", ThreadArguments(p), RuntimeFlags, "") \in Arguments
<1> DEFINE argv  == ThreadArguments(p)
           given == Value("--aircraft-id", argv, RuntimeFlags, "")
<1>1. PICK i \in 1..Len(argv) : given = argv[i]
  <2>1. given # ""
    OBVIOUS
  <2>2. argv \in Seq(Texts)
    BY ThreadArgumentsType, Zenon
  <2>3. given = "" \/ \E i \in 1..Len(argv) : given = argv[i]
    <3> HIDE DEF argv
    <3> QED  BY <2>2, ValueIsArgument, ZenonT(60)
  <2> HIDE DEF given, argv
  <2> QED  BY <2>1, <2>3
<1>2. ThreadArguments(p)[i] \in Arguments
  <2> DEFINE own == {ThreadArguments(p)[j] : j \in 1..Len(ThreadArguments(p))}
  <2>1. ThreadArguments(p)[i] \in own
    OBVIOUS
  <2> QED  BY <2>1 DEF Arguments
<1> QED  BY <1>1, <1>2, Zenon

\* The id is well formed and comes from the thread's place, the counter or the
\* command line.
LEMMA ResolvedIdType ==
  ASSUME NEW p \in Processes, NEW i \in Nat \ {0}, NEW n \in Nat
  PROVE  LET id == ResolvedId(p, i, n)
         IN  /\ id \in AircraftId
             /\ \/ /\ Unnamed(ThreadArguments(p)) /\ id = <<"sequence", n + 1>>
                \/ /\ ~Unnamed(ThreadArguments(p))
                   /\ id = <<"numbered", Options(p).AircraftStart + i - 1>>
                \/ /\ ~Unnamed(ThreadArguments(p)) /\ id[1] = "given"
<1> DEFINE argv  == ThreadArguments(p)
           given == Value("--aircraft-id", argv, RuntimeFlags, "")
<1>1. CASE Unnamed(argv)
  <2>1. ResolvedId(p, i, n) = <<"sequence", n + 1>>
    BY <1>1 DEF ResolvedId, BuildReadableAircraftId
  <2>2. <<"sequence", n + 1>> \in AircraftId
    BY DEF AircraftId
  <2> QED  BY <1>1, <2>1, <2>2
<1>2. CASE ~Unnamed(argv) /\ given = OwnId
  <2> DEFINE number == Options(p).AircraftStart + i - 1
  <2>1. ResolvedId(p, i, n) = <<"numbered", number>>
    BY <1>2 DEF ResolvedId, BuildAircraftId
  <2>2. number \in Nat
    BY OptionsType
  <2>3. <<"numbered", number>> \in AircraftId
    <3> HIDE DEF number
    <3> QED  BY <2>2 DEF AircraftId
  <2> QED  BY <1>2, <2>1, <2>3, Zenon
<1>3. CASE ~Unnamed(argv) /\ given # OwnId
  <2>1. ResolvedId(p, i, n) = GivenId(given)
    BY <1>3 DEF ResolvedId
  <2>2. given # ""
    BY <1>3 DEF Unnamed
  <2>3. given \in Arguments
    BY <2>2, GivenIsArgument
  <2>4. GivenId(given) \in AircraftId /\ GivenId(given)[1] = "given"
    <3> HIDE DEF given
    <3> QED  BY <2>3 DEF AircraftId, GivenId
  <2> HIDE DEF given
  <2> QED  BY <1>3, <2>1, <2>4
<1> QED  BY <1>1, <1>2, <1>3

-----------------------------------------------------------------------------
(* The invariant is kept                                                   *)

LEMMA LauncherInitInv == Init => LauncherInv
<1> SUFFICES ASSUME Init PROVE LauncherInv
  OBVIOUS
<1>1. Shape
  BY DEF Init, Shape
<1>2. ASSUME NEW p \in Processes PROVE ProcessInv(p)
  <2>1. threads[p] = <<>> /\ joined[p] = 0 /\ process[p] = "running"
    BY DEF Init
  <2> QED  BY <2>1, OptionsType DEF ProcessInv, JoinedAreDone
<1> QED  BY <1>1, <1>2 DEF LauncherInv

\* A process that a step leaves alone.
LEMMA OthersKept ==
  ASSUME NEW q \in Processes, ProcessInv(q),
         threads'[q] = threads[q], joined'[q] = joined[q], process'[q] = process[q],
         g_aircraftSequence'[q] = g_aircraftSequence[q]
  PROVE  ProcessInv(q)'
BY DEF ProcessInv, FromItsPlace, JoinedAreDone

\* Starting a thread: it is the last, and has no id yet.
LEMMA LaunchKept ==
  ASSUME LauncherInv, NEW p \in Processes, Launch(p)
  PROVE  Shape' /\ ProcessInv(p)'
<1> DEFINE new == [state |-> "started", id |-> NoId]
<1>1. Shape /\ ProcessInv(p)
  BY DEF LauncherInv
<1>2. new \in Thread /\ new.id = NoId /\ NoId[1] = "none"
  BY DEF Thread, ThreadStates, AircraftId, NoId
<1>3. /\ process[p] = "running" /\ Len(threads[p]) # Options(p).ClientCount
      /\ threads' = [threads EXCEPT ![p] = Append(threads[p], new)]
      /\ UNCHANGED <<process, joined, g_aircraftSequence>>
  BY DEF Launch, AllStarted
<1>4. threads'[p] = Append(threads[p], new) /\ DOMAIN threads' = Processes
  BY <1>1, <1>3 DEF Shape
<1> HIDE DEF new
<1>5. /\ threads'[p] \in Seq(Thread) /\ Len(threads'[p]) = Len(threads[p]) + 1
      /\ \A i \in 1..Len(threads[p]) : threads'[p][i] = threads[p][i]
      /\ threads'[p][Len(threads[p]) + 1] = new
  BY <1>1, <1>2, <1>4, AppendProperties DEF ProcessInv
<1>6. Len(threads[p]) \in Nat /\ joined[p] \in Nat /\ Options(p).ClientCount \in Nat
  BY <1>1, OptionsType DEF ProcessInv, Shape
<1>7. Shape'
  BY <1>1, <1>3, <1>4 DEF Shape
<1>8. \A i \in 1..Len(threads'[p]) :
        \/ i \in 1..Len(threads[p]) /\ threads'[p][i] = threads[p][i]
        \/ i = Len(threads[p]) + 1 /\ threads'[p][i].id = NoId
  BY <1>2, <1>5, <1>6
<1>9. \A i \in 1..Len(threads'[p]) : FromItsPlace(p, i)'
  BY <1>1, <1>2, <1>3, <1>8 DEF ProcessInv, FromItsPlace
<1>10. JoinedAreDone(p)'
  BY <1>1, <1>3, <1>5, <1>6 DEF ProcessInv, JoinedAreDone
<1>11. \A i, j \in 1..Len(threads'[p]) :
         (i # j /\ threads'[p][i].id # NoId /\ threads'[p][i].id = threads'[p][j].id) =>
           threads'[p][i].id[1] = "given"
  BY <1>1, <1>8 DEF ProcessInv
<1>12. Len(threads'[p]) <= Options(p).ClientCount
  BY <1>1, <1>3, <1>5, <1>6 DEF ProcessInv
<1> QED  BY <1>5, <1>7, <1>9, <1>10, <1>11, <1>12 DEF ProcessInv

\* The end of the process cuts its threads, which keep their ids.
LEMMA TerminateKept ==
  ASSUME LauncherInv, NEW p \in Processes, Terminate(p)
  PROVE  Shape' /\ ProcessInv(p)'
<1>1. Shape /\ ProcessInv(p)
  BY DEF LauncherInv
<1>2. /\ process'[p] = "terminated"
      /\ threads'[p] = [i \in 1..Len(threads[p]) |-> [threads[p][i] EXCEPT !.state = "cut"]]
      /\ joined' = joined /\ g_aircraftSequence' = g_aircraftSequence
      /\ Shape'
  BY <1>1 DEF Terminate, Shape
<1>3. Len(threads[p]) \in Nat
  BY <1>1 DEF ProcessInv
<1>4. \A i \in 1..Len(threads[p]) :
        threads'[p][i] \in Thread /\ threads'[p][i].id = threads[p][i].id
  <2> TAKE i \in 1..Len(threads[p])
  <2>1. threads[p][i] \in Thread
    BY <1>1 DEF ProcessInv
  <2>2. threads'[p][i] = [threads[p][i] EXCEPT !.state = "cut"]
    BY <1>2
  <2> QED  BY <2>1, <2>2 DEF Thread, ThreadStates
<1>5. threads'[p] \in Seq(Thread) /\ Len(threads'[p]) = Len(threads[p])
  <2> DEFINE cut(i) == [threads[p][i] EXCEPT !.state = "cut"]
  <2>1. \A i \in 1..Len(threads[p]) : cut(i) \in Thread
    BY <1>2, <1>4
  <2>2. threads'[p] = [i \in 1..Len(threads[p]) |-> cut(i)]
    BY <1>2
  <2> HIDE DEF cut
  <2> QED  BY <1>3, <2>1, <2>2
<1>6. JoinedAreDone(p)'
  BY <1>1, <1>2, <1>5 DEF ProcessInv, JoinedAreDone
<1>7. \A i \in 1..Len(threads[p]) : FromItsPlace(p, i)'
  BY <1>1, <1>2, <1>4 DEF ProcessInv, FromItsPlace
<1>8. \A i, j \in 1..Len(threads'[p]) :
        (i # j /\ threads'[p][i].id # NoId /\ threads'[p][i].id = threads'[p][j].id) =>
          threads'[p][i].id[1] = "given"
  BY <1>1, <1>4, <1>5 DEF ProcessInv
<1> QED  BY <1>1, <1>2, <1>5, <1>6, <1>7, <1>8 DEF ProcessInv

\* An id with a number from the counter has a number.
LEMMA SequenceIdType ==
  ASSUME NEW id \in AircraftId, id[1] = "sequence"
  PROVE  id[2] \in Nat
<1>1. id # NoId
  BY DEF NoId
<1>2. ASSUME NEW text, id = GivenId(text) PROVE FALSE
  BY <1>2 DEF GivenId
<1>3. id \in {"numbered", "sequence"} \X Nat
  BY <1>1, <1>2 DEF AircraftId
<1> QED  BY <1>3

\* A thread that runs was not joined: when another thread's state or its own
\* changes, what main has joined stays done.
LEMMA ThreadChanged ==
  ASSUME LauncherInv, NEW p \in Processes, NEW i \in 1..Len(threads[p]), NEW new \in Thread,
         process[p] = "running", threads[p][i].state # "done",
         threads' = [threads EXCEPT ![p] = [threads[p] EXCEPT ![i] = new]],
         UNCHANGED <<process, joined>>
  PROVE  /\ threads'[p] \in Seq(Thread) /\ Len(threads'[p]) = Len(threads[p])
         /\ \A j \in 1..Len(threads[p]) :
              threads'[p][j] = IF j = i THEN new ELSE threads[p][j]
         /\ DOMAIN threads' = Processes
         /\ JoinedAreDone(p)'
<1>1. Shape /\ ProcessInv(p)
  BY DEF LauncherInv
<1>2. threads'[p] = [threads[p] EXCEPT ![i] = new] /\ DOMAIN threads' = Processes
  BY <1>1 DEF Shape
<1>3. /\ threads'[p] \in Seq(Thread) /\ Len(threads'[p]) = Len(threads[p])
      /\ \A j \in 1..Len(threads[p]) :
           threads'[p][j] = IF j = i THEN new ELSE threads[p][j]
  BY <1>1, <1>2, ExceptSeq DEF ProcessInv
<1>4. JoinedAreDone(p)'
  BY <1>1, <1>3 DEF ProcessInv, JoinedAreDone, Shape
<1> QED  BY <1>2, <1>3, <1>4

\* A thread that gets its id: a number is the one of its place, a number from the
\* counter was not drawn before.
LEMMA ResolveKept ==
  ASSUME LauncherInv, NEW p \in Processes, NEW i \in 1..Len(threads[p]), Resolve(p, i)
  PROVE  Shape' /\ ProcessInv(p)'
<1> DEFINE n   == g_aircraftSequence[p]
           id  == ResolvedId(p, i, n)
           new == [state |-> IF OpensFile(p) THEN "replaying" ELSE "done", id |-> id]
<1>1. Shape /\ ProcessInv(p)
  BY DEF LauncherInv
<1>2. n \in Nat /\ i \in Nat \ {0} /\ Len(threads[p]) \in Nat
  BY <1>1 DEF Shape, ProcessInv
<1>3. /\ id \in AircraftId
      /\ \/ Unnamed(ThreadArguments(p)) /\ id = <<"sequence", n + 1>>
         \/ /\ ~Unnamed(ThreadArguments(p))
            /\ id = <<"numbered", Options(p).AircraftStart + i - 1>>
         \/ ~Unnamed(ThreadArguments(p)) /\ id[1] = "given"
  <2> HIDE DEF n
  <2> QED  BY <1>2, ResolvedIdType
<1>4. /\ process[p] = "running" /\ threads[p][i].state = "started"
      /\ threads' = [threads EXCEPT ![p] = [threads[p] EXCEPT ![i] = new]]
      /\ g_aircraftSequence' = [g_aircraftSequence EXCEPT ![p] =
                                  IF Unnamed(ThreadArguments(p)) THEN n + 1 ELSE n]
      /\ UNCHANGED <<process, joined>>
  BY <1>1 DEF Resolve, Shape
<1>5. g_aircraftSequence'[p] = IF Unnamed(ThreadArguments(p)) THEN n + 1 ELSE n
  BY <1>1, <1>4 DEF Shape
<1>6. g_aircraftSequence' \in [Processes -> Nat]
  BY <1>1, <1>2, <1>4 DEF Shape
<1>7. new \in Thread /\ new.id = id
  <2> HIDE DEF id
  <2> QED  BY <1>3 DEF Thread, ThreadStates
<1> HIDE DEF n, id, new
<1>8. /\ threads'[p] \in Seq(Thread) /\ Len(threads'[p]) = Len(threads[p])
      /\ \A j \in 1..Len(threads[p]) :
           threads'[p][j] = IF j = i THEN new ELSE threads[p][j]
      /\ DOMAIN threads' = Processes
      /\ JoinedAreDone(p)'
  BY <1>4, <1>7, ThreadChanged
<1>9. threads'[p][i].id = id
      /\ \A j \in 1..Len(threads[p]) : j # i => threads'[p][j] = threads[p][j]
  BY <1>7, <1>8
<1>10. \A j \in 1..Len(threads[p]) : FromItsPlace(p, j)'
  <2> TAKE j \in 1..Len(threads[p])
  <2>1. CASE j = i
    BY <1>2, <1>3, <1>5, <1>9, <2>1 DEF FromItsPlace
  <2>2. CASE j # i
    <3>1. threads'[p][j].id = threads[p][j].id
      BY <1>9, <2>2
    <3>2. n <= g_aircraftSequence'[p]
      BY <1>2, <1>5
    <3>3. FromItsPlace(p, j)
      BY <1>1 DEF ProcessInv
    <3>4. threads[p][j].id[1] = "sequence" => threads[p][j].id[2] \in Nat
      <4>1. threads[p][j] \in Thread
        BY <1>1 DEF ProcessInv
      <4>2. threads[p][j].id \in AircraftId
        BY <4>1 DEF Thread
      <4> QED  BY <4>2, SequenceIdType
    <3> QED  BY <1>2, <1>5, <3>1, <3>2, <3>3, <3>4 DEF FromItsPlace, n
  <2> QED  BY <2>1, <2>2
<1>11. ASSUME NEW j \in 1..Len(threads[p]), j # i, threads[p][j].id = id
       PROVE  id[1] = "given"
  <2>1. FromItsPlace(p, j)
    BY <1>1 DEF ProcessInv
  <2>2. id # <<"sequence", n + 1>>
    BY <1>2, <1>11, <2>1 DEF FromItsPlace, n
  <2>3. id # <<"numbered", Options(p).AircraftStart + i - 1>>
    BY <1>2, <1>11, <2>1, OptionsType DEF FromItsPlace
  <2> QED  BY <1>3, <2>2, <2>3
<1>12. \A k, j \in 1..Len(threads'[p]) :
         (k # j /\ threads'[p][k].id # NoId /\ threads'[p][k].id = threads'[p][j].id) =>
           threads'[p][k].id[1] = "given"
  BY <1>1, <1>8, <1>9, <1>11 DEF ProcessInv
<1>13. Shape'
  BY <1>1, <1>4, <1>6, <1>8 DEF Shape
<1> QED  BY <1>1, <1>8, <1>10, <1>12, <1>13 DEF ProcessInv

\* A thread that comes to the end of its replay keeps its id.
LEMMA ReplayEndsKept ==
  ASSUME LauncherInv, NEW p \in Processes, NEW i \in 1..Len(threads[p]), ReplayEnds(p, i)
  PROVE  Shape' /\ ProcessInv(p)'
<1> DEFINE new == [threads[p][i] EXCEPT !.state = "done"]
<1>1. Shape /\ ProcessInv(p)
  BY DEF LauncherInv
<1>2. threads[p][i] \in Thread
  BY <1>1 DEF ProcessInv
<1>3. /\ process[p] = "running" /\ threads[p][i].state = "replaying"
      /\ threads' = [threads EXCEPT ![p] = [threads[p] EXCEPT ![i] = new]]
      /\ UNCHANGED <<process, joined, g_aircraftSequence>>
  BY DEF ReplayEnds
<1>4. new \in Thread /\ new.id = threads[p][i].id
  BY <1>2 DEF Thread, ThreadStates
<1> HIDE DEF new
<1>5. /\ threads'[p] \in Seq(Thread) /\ Len(threads'[p]) = Len(threads[p])
      /\ \A j \in 1..Len(threads[p]) :
           threads'[p][j] = IF j = i THEN new ELSE threads[p][j]
      /\ DOMAIN threads' = Processes
      /\ JoinedAreDone(p)'
  BY <1>3, <1>4, ThreadChanged
<1>6. \A j \in 1..Len(threads[p]) : threads'[p][j].id = threads[p][j].id
  BY <1>4, <1>5
<1>7. \A j \in 1..Len(threads[p]) : FromItsPlace(p, j)'
  BY <1>1, <1>3, <1>6 DEF ProcessInv, FromItsPlace
<1>8. \A k, j \in 1..Len(threads'[p]) :
        (k # j /\ threads'[p][k].id # NoId /\ threads'[p][k].id = threads'[p][j].id) =>
          threads'[p][k].id[1] = "given"
  BY <1>1, <1>5, <1>6 DEF ProcessInv
<1>9. Shape'
  BY <1>1, <1>3, <1>5 DEF Shape
<1> QED  BY <1>1, <1>5, <1>7, <1>8, <1>9 DEF ProcessInv

\* main joins the next thread, which is done, or returns, having joined all.
LEMMA MainWaitsKept ==
  ASSUME LauncherInv, NEW p \in Processes, Join(p) \/ Exit(p)
  PROVE  Shape' /\ ProcessInv(p)'
<1>1. Shape /\ ProcessInv(p)
  BY DEF LauncherInv
<1>2. threads' = threads /\ g_aircraftSequence' = g_aircraftSequence
  BY DEF Join, Exit
<1>3. joined[p] \in Nat /\ Len(threads[p]) \in Nat
  BY <1>1 DEF Shape, ProcessInv
<1>4. JoinedAreDone(p)'
  <2>1. CASE Join(p)
    <3>1. /\ process[p] = "running" /\ process' = process
          /\ joined'[p] = joined[p] + 1 /\ joined[p] < Len(threads[p])
          /\ threads[p][joined[p] + 1].state = "done"
      BY <1>1, <2>1 DEF Join, Shape
    <3> QED  BY <1>1, <1>2, <1>3, <3>1 DEF ProcessInv, JoinedAreDone
  <2>2. CASE Exit(p)
    <3>1. /\ process[p] = "running" /\ process'[p] = "exited"
          /\ joined' = joined /\ joined[p] = Len(threads[p])
      BY <1>1, <2>2 DEF Exit, Shape
    <3> QED  BY <1>1, <1>2, <3>1 DEF ProcessInv, JoinedAreDone
  <2> QED  BY <2>1, <2>2
<1>5. Shape'
  <2>1. CASE Join(p)
    <3>1. /\ process' = process
          /\ joined' = [joined EXCEPT ![p] = joined[p] + 1]
      BY <2>1 DEF Join
    <3> QED  BY <1>1, <1>2, <1>3, <3>1 DEF Shape
  <2>2. CASE Exit(p)
    BY <1>1, <1>2, <2>2 DEF Exit, Shape
  <2> QED  BY <2>1, <2>2
<1> QED  BY <1>1, <1>2, <1>4, <1>5 DEF ProcessInv, FromItsPlace

\* Every step keeps the invariant: of the process that takes it by the lemmas
\* above, of the others because the step leaves them alone.
LEMMA LauncherStepInv == LauncherInv /\ [Next]_vars => LauncherInv'
<1> SUFFICES ASSUME LauncherInv, [Next]_vars PROVE LauncherInv'
  OBVIOUS
<1>1. CASE UNCHANGED vars
  <2>1. \A q \in Processes : ProcessInv(q)'
    BY <1>1, OthersKept DEF LauncherInv, vars
  <2>2. Shape'
    BY <1>1 DEF LauncherInv, Shape, vars
  <2> QED  BY <2>1, <2>2 DEF LauncherInv
<1>2. CASE Next
  <2>1. PICK p \in Processes :
          MainStep(p) \/ \E i \in 1..Len(threads[p]) : ThreadStep(p, i)
    BY <1>2 DEF Next
  <2>2. Shape' /\ ProcessInv(p)'
    BY <2>1, LaunchKept, TerminateKept, ResolveKept, ReplayEndsKept, MainWaitsKept
       DEF MainStep, ThreadStep, LaunchFails, ResolveThrows
  <2>3. ASSUME NEW q \in Processes, q # p
        PROVE  /\ threads'[q] = threads[q] /\ joined'[q] = joined[q]
               /\ process'[q] = process[q]
               /\ g_aircraftSequence'[q] = g_aircraftSequence[q]
    BY <2>1, <2>3 DEF LauncherInv, Shape, MainStep, ThreadStep, Launch, LaunchFails, Terminate,
                      Resolve, ResolveThrows, ReplayEnds, Join, Exit
  <2>4. \A q \in Processes : ProcessInv(q)'
    BY <2>2, <2>3, OthersKept DEF LauncherInv
  <2> QED  BY <2>2, <2>4 DEF LauncherInv
<1> QED  BY <1>1, <1>2

\* In every process, for any command lines and in any order of its threads: ids
\* that were not given differ, numbered ids are in the range, and main waits for
\* all threads.
THEOREM LauncherCorrect ==
  Spec => [](TypeOK /\ DistinctUnlessGiven /\ NumbersInRange /\ NoThreadCutByExit)
<1>1. Spec => []LauncherInv
  BY LauncherInitInv, LauncherStepInv, PTL DEF Spec
<1> QED  BY <1>1, LauncherInvImplies, PTL
=============================================================================
