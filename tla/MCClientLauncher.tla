--------------------------- MODULE MCClientLauncher ---------------------------
(* Four client processes with one or two threads each: one with a range  *)
(* that is empty, whose last option lacks its value and swallows the       *)
(* launcher's flag, after an id was given; one with an unreadable number,  *)
(* more clients than ids and no telemetry file; one whose last option      *)
(* swallows the flag and that has no id; and one with a single id whose    *)
(* last option takes the flag for a number.                                *)
EXTENDS ClientLauncher

CONSTANTS p1, p2, p3, p4

FourLines ==
  [p \in {p1, p2, p3, p4} |->
     CASE p = p1 -> <<"--aircraft-id", "AIR-LT-1", "--aircraft-end", "0", "--server-ip">>
       [] p = p2 -> <<"--aircraft-start", "2", "--aircraft-end", "some",
                      "--telemetry-file", "gone.txt">>
       [] p = p3 -> <<"--aircraft-end", "2", "--server-ip">>
       [] p = p4 -> <<"--aircraft-start", "2", "--aircraft-end", "2", "--server-port">>]

\* What the load test script starts, with a range that keeps the threads few.
ScriptLines ==
  [p \in {p1, p2} |->
     IF p = p1 THEN <<"--aircraft-id", "AIR-LT-1", "--aircraft-end", "2">>
               ELSE <<"--aircraft-id", "AIR-LT-2", "--aircraft-end", "2">>]

MCIntOf == [text \in {"0", "2"} |-> IF text = "0" THEN 0 ELSE 2]
=============================================================================
