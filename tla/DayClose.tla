------------------------------ MODULE DayClose ------------------------------
(***************************************************************************)
(* What closing a business date promises, whatever calls run, crash or     *)
(* overtake each other (ARCHITECTURE.md section 6): a date is closed in    *)
(* one indivisible step that bills its night to every in-house stay once,  *)
(* writes its report and opens the next date.  NightAudit implements it.   *)
(***************************************************************************)
EXTENDS Naturals

CONSTANTS Stays, MaxDate, MaxResets

Dates == 1..MaxDate

VARIABLES openDate, closed, billed, edits

vars == <<openDate, closed, billed, edits>>

Init ==
    /\ openDate = 1
    /\ closed = {}
    /\ billed = [s \in Stays |-> [d \in Dates |-> 0]]
    /\ edits = 0

(* Without edits in Setup, only the current date can be the one closed. *)
Close(d) ==
    /\ d \notin closed
    /\ edits = 0 => d = openDate
    /\ closed' = closed \cup {d}
    /\ billed' = [s \in Stays |-> [billed[s] EXCEPT ![d] = 1]]
    /\ openDate' = d + 1
    /\ UNCHANGED edits

(* Setup: the date is edited directly. *)
SetDate(d) ==
    /\ edits < MaxResets
    /\ openDate' = d
    /\ edits' = edits + 1
    /\ UNCHANGED <<closed, billed>>

Next == \E d \in Dates : Close(d) \/ SetDate(d)

Spec == Init /\ [][Next]_vars
=============================================================================
