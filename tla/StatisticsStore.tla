---------------------------- MODULE StatisticsStore ----------------------------
(***************************************************************************)
(* The statistics file (src/server/StatisticsStore.{h,cpp}): a sequence of *)
(* lines, the first a header, then one row per closed flight.  The file    *)
(* outlives the server process.                                            *)
(***************************************************************************)
EXTENDS Integers, Sequences

CONSTANT Header     \* the line WriteHeader writes

VARIABLE statsFile

StoreInit == statsFile = <<>>

\* Wrong variants of the next definition: the header with every row, and a file
\* that is truncated when it is opened.
AppendWithHeader(stats) ==
  statsFile' = statsFile \o <<Header, stats>>

AppendTruncating(stats) ==
  statsFile' = <<Header, stats>>

\* The file is opened for appending; the header goes only into an empty one.
AppendFlightCsv(stats) ==
  statsFile' = (IF statsFile = <<>> THEN <<Header>> ELSE statsFile) \o <<stats>>

\* Nothing reaches the file: it cannot be opened (the code returns false), or
\* a write on the opened stream fails (the code does not look and returns true).
AppendLost == UNCHANGED statsFile

\* The lines that are rows.
RowIndices == {i \in 1..Len(statsFile) : statsFile[i] # Header}

-----------------------------------------------------------------------------
(* Properties                                                              *)

\* A file that is not empty starts with its header and has no other: reopening
\* it, in the same process or after a restart, does not write a second one.
OneHeader ==
  statsFile # <<>> => RowIndices = 2..Len(statsFile)
=============================================================================
