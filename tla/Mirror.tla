------------------------------- MODULE Mirror -------------------------------
(***************************************************************************)
(* What the daemon may expect of the conversations events of one account   *)
(* (src/adapter/contract.go:60): its list of threads only grows, except    *)
(* that now and then it is replaced, in one step, by a list that has every *)
(* thread which stayed in the inbox while that list was made, unless a     *)
(* message moved it to the front too early for the list to have it.        *)
(***************************************************************************)
CONSTANT Threads

VARIABLES
    inbox,     \* the threads the phone has
    mirror,    \* the threads the daemon has
    asked      \* for the listing that is open, if one is: what stayed in the inbox

vars == << inbox, mirror, asked >>

Init == inbox \in SUBSET Threads /\ mirror \in SUBSET Threads /\ asked = {}

\* A message: its thread is new, or moves, and an open listing may miss it.
Arrive == \E t \in Threads :
    /\ inbox' = inbox \cup {t}
    /\ asked' \in {asked, {stayed \ {t} : stayed \in asked}}
    /\ UNCHANGED mirror

Leave == \E t \in inbox :
    /\ inbox' = inbox \ {t}
    /\ asked' = {stayed \ {t} : stayed \in asked}
    /\ UNCHANGED mirror

Ask == asked = {} /\ asked' = {inbox} /\ UNCHANGED << inbox, mirror >>

\* Threads are added; a listing that has no more to it is forgotten.
Merge == \E new \in SUBSET Threads :
    mirror' = mirror \cup new /\ asked' \in {asked, {}} /\ UNCHANGED inbox

Replace == \E stayed \in asked, list \in SUBSET Threads :
    stayed \subseteq list /\ mirror' = list /\ asked' = {} /\ UNCHANGED inbox

Next == Arrive \/ Leave \/ Ask \/ Merge \/ Replace

Spec == Init /\ [][Next]_vars
=============================================================================
