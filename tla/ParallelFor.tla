----------------------------- MODULE ParallelFor -----------------------------
(***************************************************************************)
(* What crates/parallel promises its callers, with no workers, counters or *)
(* generations in sight: dispatches are served one at a time; a dispatch   *)
(* runs each of its items at most once; it returns normally only when it   *)
(* has run all of them, and panics only if one of its own tasks panicked.  *)
(***************************************************************************)
EXTENDS Integers

CONSTANTS Callers, MaxTasks, None

VARIABLES
    active,     \* the caller being served, or None
    size,       \* the number of items of its dispatch
    done,       \* the items that were run
    failed,     \* one of its tasks has panicked
    result      \* result[c]: how the last dispatch of c ended

vars == <<active, size, done, failed, result>>

Init ==
    /\ active = None
    /\ size = 0
    /\ done = {}
    /\ failed = FALSE
    /\ result = [c \in Callers |-> "none"]

Request(c) ==
    /\ active # c
    /\ result' = [result EXCEPT ![c] = "none"]
    /\ UNCHANGED <<active, size, done, failed>>

\* A dispatch too small for the pool runs on its caller, beside the active one.
Inline(c) ==
    /\ active # c
    /\ \E end \in {"ok", "panicked"} : result' = [result EXCEPT ![c] = end]
    /\ UNCHANGED <<active, size, done, failed>>

Begin(c, n) ==
    /\ active = None
    /\ result[c] = "none"
    /\ active' = c
    /\ size' = n
    /\ done' = {}
    /\ failed' = FALSE
    /\ UNCHANGED result

RunItems(items) ==
    /\ active # None
    /\ items \cap done = {}
    /\ done' = done \cup items
    /\ UNCHANGED <<active, size, failed, result>>

\* A task panics, having run the given items of its claim.
Fail(items) ==
    /\ active # None
    /\ items \cap done = {}
    /\ done' = done \cup items
    /\ failed' = TRUE
    /\ UNCHANGED <<active, size, result>>

Return(c) ==
    /\ active = c
    /\ failed \/ done = 0 .. size - 1
    /\ active' = None
    /\ size' = 0
    /\ result' = [result EXCEPT ![c] = IF failed THEN "panicked" ELSE "ok"]
    /\ UNCHANGED <<done, failed>>

Next ==
    \/ \E c \in Callers :
        Request(c) \/ Inline(c) \/ Return(c) \/ \E n \in 0 .. MaxTasks : Begin(c, n)
    \/ \E items \in SUBSET (0 .. size - 1) : RunItems(items) \/ Fail(items)

Spec == Init /\ [][Next]_vars

=============================================================================
