--------------------------- MODULE MCStaffingRun ---------------------------
(***************************************************************************)
(* Instances of StaffingRun for TLC: a directory and a file inside it.     *)
(***************************************************************************)
EXTENDS StaffingRun

CONSTANTS dir, file, other, j1, j2, p1, p2, a1

AllPaths == {dir, file, other}
Inside == {<< x, x >> : x \in AllPaths} \cup {<< file, dir >>}

Asks(job, owned, timeout) == [job |-> job, owned |-> owned, timeout |-> timeout]

\* One job three times, with the directory, the file and the directory.
OneJob == << {Asks(j1, {dir}, None)}, {Asks(j1, {file}, None)}, {Asks(j1, {dir}, None)} >>

\* The same command line every time, with a timeout of 100 seconds.
HundredSeconds == << {Asks(j1, {dir}, 100)}, {Asks(j1, {dir}, 100)} >>
OneTimeout == {100}

TwoJobs == << {Asks(j1, {dir}, None)}, {Asks(j2, {file}, None)} >>

NoTimeouts == {}
=============================================================================
