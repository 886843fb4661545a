------------------------- MODULE MCFreezeScheduler -------------------------
(* Small instances of FreezeScheduler for TLC. *)
EXTENDS FreezeScheduler

CONSTANTS f1, f10

\* A week of two days of two seconds: a window on one day, or on each.
Window(d, s, e) == [day |-> d, start |-> s, end |-> e]
Once == {Window(0, 0, 1)}
Twice == {Window(0, 0, 1), Window(1, 0, 1)}
SomeWindows == {Once, Twice}

\* The id 10 begins with 1.  Mapping 1 is there to be unsynced.
Ids == [m \in Mappings |-> IF m = f1 THEN {f1, f10} ELSE {m}]
Inactive == [active |-> FALSE, windows |-> Once]
SomeChoices ==
    [m \in Mappings |-> IF m = f1 THEN {Inactive} ELSE {Inactive, [active |-> TRUE, windows |-> Twice]}]
=============================================================================
