--------------------------- MODULE MC_SessionFile ---------------------------
(* The files found on disk in the runs about SessionFile.                   *)
EXTENDS SessionFile

(* Files of every schema version with a row in each table, one with an      *)
(* event that points nowhere, and one newer than the program.               *)
Stored(i) == [id |-> i, packet |-> NoRef]
OldFile(v, points) ==
  [version |-> v, format |-> 1,
   rows |-> [flows |-> {Stored(1)}, packets |-> {Stored(1), Stored(2)},
             events |-> {IF v >= 2 THEN [id |-> 1, packet |-> points] ELSE Stored(1), Stored(2)},
             raw_blocks |-> {Stored(1)}]]
MCOldFiles == {OldFile(0, 1), OldFile(3, 7), OldFile(5, 1), [OldFile(4, 1) EXCEPT !.format = 2]}
============================================================================
