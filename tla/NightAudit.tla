----------------------------- MODULE NightAudit -----------------------------
(***************************************************************************)
(* The night audit of one property (src/backend/src/modules/night-audit):  *)
(* concurrent calls of runNightAudit race to close the property's business *)
(* date.  A call is a sequence of SEPARATE statements (read the property,  *)
(* inspect the run row, perhaps recover it, claim it, look for blocking    *)
(* conditions) followed by one transaction, so each statement is a step of *)
(* its own here and every other call may step in between.                  *)
(*                                                                         *)
(* InnoDB, REPEATABLE READ.  The transaction is two steps: BeginTrx fixes  *)
(* its snapshot, Commit performs its writes.  Writes and unique checks act *)
(* on the current rows, plain reads on the snapshot.                       *)
(*                                                                         *)
(* In-house guests are fixed (each has a rate for every night); who comes  *)
(* and goes, and who else posts room charges, is StayBilling's subject.    *)
(***************************************************************************)
EXTENDS Naturals, FiniteSets

CONSTANTS
    Requests,   \* server processes able to run one runNightAudit call each
    Stays,      \* in-house reservations with an open folio
    MaxDate,    \* the last business date that may be closed (bound)
    MaxFaults,  \* crashes, failed statements and lost acknowledgements (bound)
    MaxResets   \* direct edits of the business date in Setup (bound)

ASSUME DateAssumption   == MaxDate \in Nat \ {0}
ASSUME BudgetAssumption == MaxFaults \in Nat /\ MaxResets \in Nat

Dates == 1..MaxDate

VARIABLES
    businessDate,  \* properties.current_business_date
    today,         \* the calendar date in the property's own time zone
    runs,          \* night_audit_runs.status per business date; "NONE" = no row
    stale,         \* dates whose RUNNING row has a heartbeat older than 90 s
    reports,       \* dates with a daily_reports row (unique per property, date)
    charges,       \* live tonight-charges per stay and night in folio_line_items
    discrepancy,   \* an open housekeeping discrepancy exists
    pc,            \* the next statement of each call
    date,          \* businessDate as the call read it
    existing,      \* the calls that found a row to reclaim
    toBill,        \* stays the transaction's snapshot shows as not yet billed
    faults, resets \* what is used up of the two budgets

tables == <<businessDate, runs, stale, reports, charges>>
vars   == <<businessDate, today, runs, stale, reports, charges, discrepancy,
            pc, date, existing, toBill, faults, resets>>

Statuses == {"NONE", "RUNNING", "FAILED", "COMPLETED"}
PCs == {"idle", "reconcile", "recover", "claim", "check", "begin", "commit", "catch"}

(* The statements that run under runNightAudit's try block. *)
InTry(r) == pc[r] \in {"check", "begin", "commit"}

TypeOK ==
    /\ businessDate \in 1..(MaxDate + 1)
    /\ today \in 1..(MaxDate + 1)
    /\ runs \in [Dates -> Statuses]
    /\ stale \subseteq Dates
    /\ reports \subseteq Dates
    /\ charges \in [Stays -> [Dates -> Nat]]
    /\ discrepancy \in BOOLEAN
    /\ pc \in [Requests -> PCs]
    /\ date \in [Requests -> Dates]
    /\ existing \subseteq Requests
    /\ toBill \in [Requests -> SUBSET Stays]
    /\ faults \in 0..MaxFaults
    /\ resets \in 0..MaxResets

Init ==
    /\ businessDate = 1
    /\ today = 1
    /\ runs = [d \in Dates |-> "NONE"]
    /\ stale = {}
    /\ reports = {}
    /\ charges = [s \in Stays |-> [d \in Dates |-> 0]]
    /\ discrepancy = FALSE
    /\ pc = [r \in Requests |-> "idle"]
    /\ date = [r \in Requests |-> 1]
    /\ existing = {}
    /\ toBill = [r \in Requests |-> {}]
    /\ faults = 0
    /\ resets = 0

-----------------------------------------------------------------------------
(* Control of one call. *)

Goto(r, label) == pc' = [pc EXCEPT ![r] = label]

(* The call returns or throws: its locals are gone. *)
Return(r) ==
    /\ Goto(r, "idle")
    /\ date' = [date EXCEPT ![r] = 1]
    /\ existing' = existing \ {r}
    /\ toBill' = [toBill EXCEPT ![r] = {}]

SetStatus(d, status) == runs' = [runs EXCEPT ![d] = status]

UseFault == faults < MaxFaults /\ faults' = faults + 1

-----------------------------------------------------------------------------
(* runNightAudit, statement by statement. *)

(* Mutation: the calendar check is dropped. *)
HasEndedAlways(d) == TRUE

(* assertBusinessDateHasEnded: the day being closed must be over on the     *)
(* property's own calendar.                                                 *)
HasEnded(d) == d + 1 <= today

(* The call reads the property and is refused before anything is written. *)
RefusePremature(r) ==
    /\ pc[r] = "idle"
    /\ ~HasEnded(businessDate)
    /\ UNCHANGED vars

ReadProperty(r) ==
    /\ pc[r] = "idle"
    /\ HasEnded(businessDate)
    /\ date' = [date EXCEPT ![r] = businessDate]
    /\ Goto(r, "reconcile")
    /\ UNCHANGED <<tables, today, discrepancy, existing, toBill, faults, resets>>

(* reconcileExistingRun: no row, or a FAILED one, can be claimed. *)
ReconcileClaimable(r) ==
    /\ pc[r] = "reconcile"
    /\ runs[date[r]] \in {"NONE", "FAILED"}
    /\ existing' = IF runs[date[r]] = "FAILED" THEN existing \cup {r} ELSE existing
    /\ Goto(r, "claim")
    /\ UNCHANGED <<tables, today, discrepancy, date, toBill, faults, resets>>

(* A COMPLETED row, or a RUNNING one whose heartbeat is recent: refused. *)
ReconcileRefused(r) ==
    /\ pc[r] = "reconcile"
    /\ \/ runs[date[r]] = "COMPLETED"
       \/ runs[date[r]] = "RUNNING" /\ date[r] \notin stale
    /\ Return(r)
    /\ UNCHANGED <<tables, today, discrepancy, faults, resets>>

(* Mutation: a stale row is refused like a live one. *)
ReconcileStaleRefused(r) ==
    /\ pc[r] = "reconcile"
    /\ runs[date[r]] = "RUNNING"
    /\ date[r] \in stale
    /\ Return(r)
    /\ UNCHANGED <<tables, today, discrepancy, faults, resets>>

(* A stale RUNNING row: recoverStaleRun reads the report and the property   *)
(* (written together by one transaction, so one step reads both) and        *)
(* keeps the row to reclaim if the transaction never committed.             *)
ReconcileStale(r) ==
    /\ pc[r] = "reconcile"
    /\ runs[date[r]] = "RUNNING"
    /\ date[r] \in stale
    /\ existing' = IF date[r] \in reports /\ businessDate > date[r]
                   THEN existing ELSE existing \cup {r}
    /\ Goto(r, "recover")
    /\ UNCHANGED <<tables, today, discrepancy, date, toBill, faults, resets>>

(* recoverStaleRun writes its verdict with no condition on the status. *)
RecoverCompleted(r) ==
    /\ pc[r] = "recover"
    /\ r \notin existing
    /\ SetStatus(date[r], "COMPLETED")
    /\ Return(r)
    /\ UNCHANGED <<businessDate, stale, reports, charges, today, discrepancy,
                   faults, resets>>

RecoverFailed(r) ==
    /\ pc[r] = "recover"
    /\ r \in existing
    /\ SetStatus(date[r], "FAILED")
    /\ Goto(r, "claim")
    /\ UNCHANGED <<businessDate, stale, reports, charges, today, discrepancy,
                   date, existing, toBill, faults, resets>>

(* claimRun: UPDATE ... WHERE status = 'FAILED' on a known row, otherwise   *)
(* INSERT under the unique key (property, business date).                   *)
Claimable(r) == runs[date[r]] = (IF r \in existing THEN "FAILED" ELSE "NONE")

Claim(r) ==
    /\ pc[r] = "claim"
    /\ Claimable(r)
    /\ SetStatus(date[r], "RUNNING")
    /\ stale' = stale \ {date[r]}
    /\ Goto(r, "check")
    /\ UNCHANGED <<businessDate, reports, charges, today, discrepancy,
                   date, existing, toBill, faults, resets>>

(* No row matched, or ER_DUP_ENTRY: NightAuditAlreadyRunningError. *)
ClaimRefused(r) ==
    /\ pc[r] = "claim"
    /\ ~Claimable(r)
    /\ Return(r)
    /\ UNCHANGED <<tables, today, discrepancy, faults, resets>>

(* findBlockingConditions, outside the transaction. *)
CheckBlocking(r) ==
    /\ pc[r] = "check"
    /\ Goto(r, IF discrepancy THEN "catch" ELSE "begin")
    /\ UNCHANGED <<tables, today, discrepancy, date, existing, toBill, faults, resets>>

(* runCriticalTransaction, its reads: the snapshot decides which in-house   *)
(* stays still need tonight's room charge (the alreadyPosted guard).        *)
BeginTrx(r) ==
    /\ pc[r] = "begin"
    /\ toBill' = [toBill EXCEPT ![r] = {s \in Stays : charges[s][date[r]] = 0}]
    /\ Goto(r, "commit")
    /\ UNCHANGED <<tables, today, discrepancy, date, existing, faults, resets>>

(* Mutation: daily_reports without its unique key. *)
CloseDayNoKey(r) ==
    LET d == date[r] IN
    /\ charges' = [s \in Stays |->
                     [charges[s] EXCEPT ![d] = @ + (IF s \in toBill[r] THEN 1 ELSE 0)]]
    /\ reports' = reports \cup {d}
    /\ businessDate' = d + 1
    /\ SetStatus(d, "COMPLETED")

(* runCriticalTransaction, its writes: the charges, the daily report, the   *)
(* next business date (computed from the date read at the start, not        *)
(* incremented in place) and the run's COMPLETED mark land together.        *)
CloseDay(r) ==
    LET d == date[r] IN
    /\ d \notin reports        \* the insert's unique key
    /\ charges' = [s \in Stays |->
                     [charges[s] EXCEPT ![d] = @ + (IF s \in toBill[r] THEN 1 ELSE 0)]]
    /\ reports' = reports \cup {d}
    /\ businessDate' = d + 1
    /\ SetStatus(d, "COMPLETED")

Commit(r) ==
    /\ pc[r] = "commit"
    /\ CloseDay(r)
    /\ Return(r)
    /\ UNCHANGED <<stale, today, discrepancy, faults, resets>>

(* The commit happens but its acknowledgement is lost, so the call throws. *)
CommitUnacknowledged(r) ==
    /\ pc[r] = "commit"
    /\ CloseDay(r)
    /\ Goto(r, "catch")
    /\ UseFault
    /\ UNCHANGED <<stale, today, discrepancy, date, existing, toBill, resets>>

(* ER_DUP_ENTRY on daily_reports: the whole transaction rolls back. *)
CommitDuplicate(r) ==
    /\ pc[r] = "commit"
    /\ date[r] \in reports
    /\ Goto(r, "catch")
    /\ UNCHANGED <<tables, today, discrepancy, date, existing, toBill, faults, resets>>

(* Any other error in the try block (a deadlock, a folio closed meanwhile). *)
Fail(r) ==
    /\ InTry(r)
    /\ Goto(r, "catch")
    /\ UseFault
    /\ UNCHANGED <<tables, today, discrepancy, date, existing, toBill, resets>>

(* The catch block: UPDATE ... SET status = 'FAILED' by row id, whatever    *)
(* the row says by now, then the error is rethrown.                         *)
Catch(r) ==
    /\ pc[r] = "catch"
    /\ SetStatus(date[r], "FAILED")
    /\ Return(r)
    /\ UNCHANGED <<businessDate, stale, reports, charges, today, discrepancy,
                   faults, resets>>

(* The process dies: an open transaction rolls back, nothing is marked. *)
Crash(r) ==
    /\ pc[r] # "idle"
    /\ UseFault
    /\ Return(r)
    /\ UNCHANGED <<tables, today, discrepancy, resets>>

-----------------------------------------------------------------------------
(* The surroundings of the audit. *)

(* 90 s pass since a claim: heartbeat_at is written by claimRun only, so    *)
(* the row of a slow but living call goes stale like that of a dead one.    *)
HeartbeatExpires(d) ==
    /\ runs[d] = "RUNNING"
    /\ d \notin stale
    /\ stale' = stale \cup {d}
    /\ UNCHANGED <<businessDate, runs, reports, charges, today, discrepancy,
                   pc, date, existing, toBill, faults, resets>>

Midnight ==
    /\ today <= MaxDate
    /\ today' = today + 1
    /\ UNCHANGED <<tables, discrepancy, pc, date, existing, toBill, faults, resets>>

(* Housekeeping opens a discrepancy (bounded with the faults) or resolves it. *)
OpenDiscrepancy ==
    /\ ~discrepancy
    /\ discrepancy' = TRUE
    /\ UseFault
    /\ UNCHANGED <<tables, today, pc, date, existing, toBill, resets>>

ResolveDiscrepancy ==
    /\ discrepancy
    /\ discrepancy' = FALSE
    /\ UNCHANGED <<tables, today, pc, date, existing, toBill, faults, resets>>

(* Setup's updateProperty writes current_business_date as sent, unchecked. *)
SetBusinessDate(d) ==
    /\ resets < MaxResets
    /\ d # businessDate
    /\ businessDate' = d
    /\ resets' = resets + 1
    /\ UNCHANGED <<runs, stale, reports, charges, today, discrepancy,
                   pc, date, existing, toBill, faults>>

-----------------------------------------------------------------------------
Call(r) ==
    \/ ReadProperty(r)
    \/ ReconcileClaimable(r) \/ ReconcileRefused(r) \/ ReconcileStale(r)
    \/ RecoverCompleted(r) \/ RecoverFailed(r)
    \/ Claim(r) \/ ClaimRefused(r)
    \/ CheckBlocking(r) \/ BeginTrx(r) \/ Commit(r) \/ CommitDuplicate(r)
    \/ Catch(r)

Faulty(r) == CommitUnacknowledged(r) \/ Fail(r) \/ Crash(r)

Surroundings ==
    \/ \E d \in Dates : HeartbeatExpires(d) \/ SetBusinessDate(d)
    \/ Midnight
    \/ OpenDiscrepancy
    \/ ResolveDiscrepancy

Next ==
    \/ \E r \in Requests : RefusePremature(r) \/ Call(r) \/ Faulty(r)
    \/ Surroundings

Spec == Init /\ [][Next]_vars

(* Staff start the audit again while a day is open, a living process goes   *)
(* on, time passes, and discrepancies are resolved.                         *)
Fairness ==
    /\ \A r \in Requests : WF_vars(Call(r))
    /\ \A d \in Dates : WF_vars(HeartbeatExpires(d))
    /\ WF_vars(Midnight)
    /\ WF_vars(ResolveDiscrepancy)

FairSpec == Spec /\ Fairness

-----------------------------------------------------------------------------
(* Properties. *)

(* A night is billed exactly when its daily report exists, once per stay:   *)
(* runCriticalTransaction is all or nothing even when a slow call and the   *)
(* call that took its stale row over both reach it.                         *)
ChargedOnceWithReport ==
    \A s \in Stays, d \in Dates : charges[s][d] = (IF d \in reports THEN 1 ELSE 0)

(* As long as nobody edits the date in Setup, the closed days are exactly   *)
(* the reported ones: no day is skipped, none is closed without a report.   *)
ClosedDaysReported ==
    resets = 0 => reports = 1..(businessDate - 1)

(* The audit never moves the business date past the property's calendar     *)
(* (assertBusinessDateHasEnded), whatever is still in flight at midnight.   *)
NeverAheadOfCalendar ==
    resets = 0 => businessDate <= today

(* A run marked COMPLETED did close its day (recoverStaleRun's reality      *)
(* check and the transaction's own mark agree with daily_reports).          *)
CompletedIsTruthful ==
    \A d \in Dates : runs[d] = "COMPLETED" => d \in reports

(* Which days are over is told alike by the reports, the run rows, the      *)
(* business date and the calendar, whatever calls crash, take each other's  *)
(* run over or finish late.                                                 *)
DaysAccountedFor ==
    ClosedDaysReported /\ NeverAheadOfCalendar /\ CompletedIsTruthful

(* Crashed, slow and failed calls never wedge the property: every day that  *)
(* is over on the calendar is eventually closed (lazy recovery, 6.3), as    *)
(* long as nobody edits the date in Setup.                                  *)
EveryDayCloses ==
    [](resets = 0) => \A d \in Dates : (today > d) ~> (businessDate > d)

(* The calls, statement by statement, implement the indivisible close.      *)
DC == INSTANCE DayClose WITH
    Stays     <- Stays,
    MaxDate   <- MaxDate,
    MaxResets <- MaxResets,
    openDate  <- businessDate,
    closed    <- reports,
    billed    <- charges,
    edits     <- resets
ClosesIndivisibly == DC!Spec
=============================================================================
