---------------------------- MODULE DurableFile ----------------------------
(***************************************************************************)
(* What the callers of src/adapter/store.go may expect of a session file,  *)
(* temp files, syncs and their order aside: each call takes effect once    *)
(* or not at all, in one step, before it returns; once one has returned    *)
(* ok, no crash goes back behind what it left; and a crash ends the calls  *)
(* under way for good.                                                     *)
(***************************************************************************)
CONSTANTS Saves, Deletes, NoFile

VARIABLES
    value,      \* what a read gives
    fallback,   \* what one may give after a crash
    calls       \* each call: open, done once it took effect, then how it ended

vars == << value, fallback, calls >>

Left(c) == IF c \in Saves THEN c ELSE NoFile

Init ==
    /\ value = NoFile /\ fallback = {NoFile}
    /\ calls = [c \in Saves \cup Deletes |-> "open"]

Ends(c, ways, way) == calls[c] \in ways /\ calls' = [calls EXCEPT ![c] = way]

Effect(c) ==
    /\ Ends(c, {"open"}, "done")
    /\ value' = Left(c) /\ fallback' = fallback \cup {Left(c)}

Ok(c) ==
    /\ Ends(c, {"done"}, "ok")
    /\ fallback' = {value} /\ UNCHANGED value

Fail(c) ==
    /\ Ends(c, {"open", "done"}, "failed")
    /\ UNCHANGED << value, fallback >>

\* The system may make more of it certain than it promised.
Settle == fallback' = {value} /\ UNCHANGED << value, calls >>

\* A call that had begun is lost, one that had not may still come.
Crash ==
    /\ \/ value' \in fallback /\ fallback' = {value'}
       \/ UNCHANGED << value, fallback >>
    /\ \E begun \in SUBSET {c \in DOMAIN calls : calls[c] = "open"} :
         calls' = [c \in DOMAIN calls |->
                     IF c \in begun \/ calls[c] = "done" THEN "lost" ELSE calls[c]]

Next ==
    \/ \E c \in Saves \cup Deletes : Effect(c) \/ Ok(c) \/ Fail(c)
    \/ Settle \/ Crash

Spec == Init /\ [][Next]_vars
=============================================================================
