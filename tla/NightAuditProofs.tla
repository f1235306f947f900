-------------------------- MODULE NightAuditProofs --------------------------
(***************************************************************************)
(* Theorems about NightAudit for any number of concurrent calls, stays,    *)
(* dates, faults and date edits.  The inductive invariant adds to the      *)
(* checked properties what a call in flight knows: the stays it is about   *)
(* to bill, that its date has not been skipped, and that a verdict         *)
(* "completed" rests on an existing report.                                *)
(***************************************************************************)
EXTENDS NightAudit, TLAPS

(* The alreadyPosted guard's snapshot can only be out of date if another    *)
(* call has meanwhile written the report, and then the commit is refused.   *)
SnapshotIsCurrent ==
    \A r \in Requests :
        pc[r] = "commit" /\ date[r] \notin reports => toBill[r] = Stays

(* A call works on the open date or on one that has been closed since. *)
InFlightDates ==
    resets = 0 =>
        \A r \in Requests :
            pc[r] # "idle" => date[r] <= businessDate /\ HasEnded(date[r])

VerdictIsTruthful ==
    \A r \in Requests : pc[r] = "recover" /\ r \notin existing => date[r] \in reports

IInv ==
    /\ TypeOK
    /\ ChargedOnceWithReport
    /\ ClosedDaysReported
    /\ NeverAheadOfCalendar
    /\ CompletedIsTruthful
    /\ SnapshotIsCurrent
    /\ InFlightDates
    /\ VerdictIsTruthful

-----------------------------------------------------------------------------
(* Every variable keeps to its type: the run rows of night_audit_runs and   *)
(* the locals of every runNightAudit call.                                  *)
LEMMA TypeStep == TypeOK /\ [Next]_vars => TypeOK'
<1> SUFFICES ASSUME TypeOK, [Next]_vars PROVE TypeOK'
  OBVIOUS
<1> USE DateAssumption, BudgetAssumption
    DEF TypeOK, Dates, Statuses, PCs, tables, Goto, Return, SetStatus, UseFault
<1>1. ASSUME NEW r \in Requests, ReadProperty(r) PROVE TypeOK'
  BY <1>1 DEF ReadProperty, HasEnded
<1>2. ASSUME NEW r \in Requests, ReconcileClaimable(r) PROVE TypeOK'
  BY <1>2 DEF ReconcileClaimable
<1>3. ASSUME NEW r \in Requests, ReconcileRefused(r) PROVE TypeOK'
  BY <1>3 DEF ReconcileRefused
<1>4. ASSUME NEW r \in Requests, ReconcileStale(r) PROVE TypeOK'
  BY <1>4 DEF ReconcileStale
<1>5. ASSUME NEW r \in Requests, RecoverCompleted(r) PROVE TypeOK'
  BY <1>5 DEF RecoverCompleted
<1>6. ASSUME NEW r \in Requests, RecoverFailed(r) PROVE TypeOK'
  BY <1>6 DEF RecoverFailed
<1>7. ASSUME NEW r \in Requests, Claim(r) PROVE TypeOK'
  BY <1>7 DEF Claim
<1>8. ASSUME NEW r \in Requests, ClaimRefused(r) PROVE TypeOK'
  BY <1>8 DEF ClaimRefused
<1>9. ASSUME NEW r \in Requests, CheckBlocking(r) PROVE TypeOK'
  BY <1>9 DEF CheckBlocking
<1>10. ASSUME NEW r \in Requests, BeginTrx(r) PROVE TypeOK'
  BY <1>10 DEF BeginTrx
<1>11. ASSUME NEW r \in Requests, CloseDay(r)
      PROVE /\ businessDate' \in 1..(MaxDate + 1)
            /\ runs' \in [Dates -> Statuses]
            /\ reports' \subseteq Dates
            /\ charges' \in [Stays -> [Dates -> Nat]]
  <2>1. date[r] \in Dates
    OBVIOUS
  <2>2. /\ businessDate' \in 1..(MaxDate + 1)
        /\ runs' \in [Dates -> Statuses]
        /\ reports' \subseteq Dates
    <3>1. /\ businessDate' = date[r] + 1
          /\ runs' = [runs EXCEPT ![date[r]] = "COMPLETED"]
          /\ reports' = reports \cup {date[r]}
      BY <1>11, Zenon DEF CloseDay
    <3>2. businessDate' \in 1..(MaxDate + 1)
      BY <2>1, <3>1
    <3>3. runs' \in [Dates -> Statuses]
      BY <2>1, <3>1
    <3>4. reports' \subseteq Dates
      BY <2>1, <3>1
    <3> QED BY <3>2, <3>3, <3>4
  <2>3. ASSUME NEW s \in Stays
        PROVE [charges[s] EXCEPT ![date[r]] = @ + (IF s \in toBill[r] THEN 1 ELSE 0)]
                \in [Dates -> Nat]
    <3>1. charges[s] \in [Dates -> Nat]
      OBVIOUS
    <3>2. charges[s][date[r]] + (IF s \in toBill[r] THEN 1 ELSE 0) \in Nat
      BY <2>1, <3>1
    <3> QED BY <3>1, <3>2
  <2>4. charges' = [s \in Stays |-> [charges[s] EXCEPT ![date[r]] =
                                       @ + (IF s \in toBill[r] THEN 1 ELSE 0)]]
    BY <1>11 DEF CloseDay
  <2>5. charges' \in [Stays -> [Dates -> Nat]]
    BY <2>3, <2>4, Zenon
  <2> QED BY <2>2, <2>5
<1>12. ASSUME NEW r \in Requests, Commit(r) PROVE TypeOK'
  <2>1. CloseDay(r)
    BY <1>12 DEF Commit
  <2> QED BY <1>11, <1>12, <2>1 DEF Commit
<1>13. ASSUME NEW r \in Requests, CommitUnacknowledged(r) PROVE TypeOK'
  <2>1. CloseDay(r)
    BY <1>13 DEF CommitUnacknowledged
  <2> QED BY <1>11, <1>13, <2>1 DEF CommitUnacknowledged
<1>14. ASSUME NEW r \in Requests, CommitDuplicate(r) PROVE TypeOK'
  BY <1>14 DEF CommitDuplicate
<1>15. ASSUME NEW r \in Requests, Fail(r) PROVE TypeOK'
  BY <1>15 DEF Fail
<1>16. ASSUME NEW r \in Requests, Catch(r) PROVE TypeOK'
  BY <1>16 DEF Catch
<1>17. ASSUME NEW r \in Requests, Crash(r) PROVE TypeOK'
  BY <1>17 DEF Crash
<1>18. ASSUME NEW d \in Dates, HeartbeatExpires(d) PROVE TypeOK'
  BY <1>18 DEF HeartbeatExpires
<1>19. ASSUME NEW d \in Dates, SetBusinessDate(d) PROVE TypeOK'
  BY <1>19 DEF SetBusinessDate
<1>20. ASSUME Midnight PROVE TypeOK'
  BY <1>20 DEF Midnight
<1>21. ASSUME OpenDiscrepancy PROVE TypeOK'
  BY <1>21 DEF OpenDiscrepancy
<1>22. ASSUME ResolveDiscrepancy PROVE TypeOK'
  BY <1>22 DEF ResolveDiscrepancy
<1>23. ASSUME UNCHANGED vars PROVE TypeOK'
  BY <1>23 DEF vars
<1> HIDE DEF TypeOK
<1> QED
  BY <1>1, <1>2, <1>3, <1>4, <1>5, <1>6, <1>7, <1>8, <1>9, <1>10, <1>12, <1>13,
     <1>14, <1>15, <1>16, <1>17, <1>18, <1>19, <1>20, <1>21, <1>22, <1>23
     DEF Next, Call, Faulty, Surroundings, RefusePremature

(* No call is running yet and no day is closed. *)
LEMMA InitType == Init => TypeOK
<1> SUFFICES ASSUME Init PROVE TypeOK
    OBVIOUS
<1>1. 1 \in Dates /\ 1 \in 1..(MaxDate + 1)
    BY DateAssumption DEF Dates
<1>2. [d \in Dates |-> 0] \in [Dates -> Nat]
    OBVIOUS
<1>3. charges \in [Stays -> [Dates -> Nat]]
    BY <1>2, Zenon DEF Init
<1>4. pc \in [Requests -> PCs] /\ runs \in [Dates -> Statuses]
    BY DEF Init, PCs, Statuses
<1>5. faults \in 0..MaxFaults /\ resets \in 0..MaxResets
    BY BudgetAssumption DEF Init
<1> QED BY <1>1, <1>3, <1>4, <1>5 DEF Init, TypeOK

(* Every reachable state is well-typed. *)
THEOREM TypeCorrect == Spec => []TypeOK
BY InitType, TypeStep, PTL DEF Spec

-----------------------------------------------------------------------------
(* The writes of runCriticalTransaction bill the night to every stay        *)
(* exactly once: the unique report key admits only the first of the         *)
(* transactions that raced for the date, and its snapshot was current.      *)
LEMMA CloseDayCharges ==
  ASSUME TypeOK, ChargedOnceWithReport, SnapshotIsCurrent,
         NEW r \in Requests, pc[r] = "commit", CloseDay(r)
  PROVE  /\ ChargedOnceWithReport'
         /\ charges' = [s \in Stays |-> [charges[s] EXCEPT ![date[r]] = 1]]
<1>1. date[r] \in Dates /\ date[r] \notin reports
  BY DEF TypeOK, CloseDay
<1>2. toBill[r] = Stays
  BY <1>1 DEF SnapshotIsCurrent
<1>3. charges' = [s \in Stays |-> [charges[s] EXCEPT ![date[r]] =
                                     @ + (IF s \in toBill[r] THEN 1 ELSE 0)]]
  BY DEF CloseDay
<1>4. ASSUME NEW s \in Stays
      PROVE charges[s][date[r]] + (IF s \in toBill[r] THEN 1 ELSE 0) = 1
  <2>1. charges[s][date[r]] = 0
    BY <1>1 DEF ChargedOnceWithReport
  <2> QED BY <1>2, <2>1
<1>5. charges' = [s \in Stays |-> [charges[s] EXCEPT ![date[r]] = 1]]
  BY <1>3, <1>4, Zenon
<1>6. reports' = reports \cup {date[r]}
  BY DEF CloseDay
<1>7. ASSUME NEW s \in Stays, NEW d \in Dates
      PROVE charges'[s][d] = IF d \in reports' THEN 1 ELSE 0
  <2>1. charges[s] \in [Dates -> Nat]
    BY DEF TypeOK
  <2>2. charges'[s] = [charges[s] EXCEPT ![date[r]] = 1]
    BY <1>5
  <2>3. charges[s][d] = IF d \in reports THEN 1 ELSE 0
    BY DEF ChargedOnceWithReport
  <2> QED BY <1>1, <1>6, <2>1, <2>2, <2>3
<1> QED BY <1>5, <1>7 DEF ChargedOnceWithReport

(* Without edits in Setup the date a transaction closes is the open one:    *)
(* a call that fell behind finds its date already reported.                 *)
LEMMA ClosesTheOpenDate ==
  ASSUME TypeOK, ClosedDaysReported, InFlightDates, resets = 0,
         NEW r \in Requests, pc[r] = "commit", CloseDay(r)
  PROVE  date[r] = businessDate
<1>1. date[r] \in Dates /\ date[r] \notin reports
  BY DEF TypeOK, CloseDay
<1>2. date[r] <= businessDate
  BY DEF InFlightDates
<1>3. businessDate \in Nat /\ date[r] \in Nat /\ date[r] >= 1
  BY <1>1, DateAssumption DEF TypeOK, Dates
<1>4. ~(date[r] < businessDate)
  BY <1>1, <1>3 DEF ClosedDaysReported
<1> QED BY <1>2, <1>3, <1>4

-----------------------------------------------------------------------------
(* What the calls in flight and the run rows rely on. *)
InFlight ==
    /\ CompletedIsTruthful
    /\ SnapshotIsCurrent
    /\ InFlightDates
    /\ VerdictIsTruthful
    /\ NeverAheadOfCalendar

(* The statements before and after the transaction's commit, and the        *)
(* surroundings, leave the closed days alone and keep InFlight.             *)
LEMMA QuietStep ==
  ASSUME IInv, [Next]_vars, UNCHANGED <<businessDate, reports, charges, resets>>
  PROVE  ChargedOnceWithReport' /\ ClosedDaysReported' /\ InFlight'
<1>1. ChargedOnceWithReport' /\ ClosedDaysReported'
  BY DEF IInv, ChargedOnceWithReport, ClosedDaysReported
<1> USE DEF IInv, InFlight, CompletedIsTruthful, SnapshotIsCurrent, InFlightDates,
        VerdictIsTruthful, NeverAheadOfCalendar, HasEnded,
        Goto, Return, SetStatus, UseFault, tables
<1> USE DateAssumption DEF TypeOK, Dates, Statuses, PCs
<1>2. ASSUME NEW r \in Requests, ReadProperty(r) PROVE InFlight'
  BY <1>2 DEF ReadProperty
<1>3. ASSUME NEW r \in Requests, ReconcileClaimable(r) PROVE InFlight'
  BY <1>3 DEF ReconcileClaimable
<1>4. ASSUME NEW r \in Requests, ReconcileRefused(r) PROVE InFlight'
  BY <1>4 DEF ReconcileRefused
<1>5. ASSUME NEW r \in Requests, ReconcileStale(r) PROVE InFlight'
  BY <1>5 DEF ReconcileStale
<1>6. ASSUME NEW r \in Requests, RecoverCompleted(r) PROVE InFlight'
  BY <1>6 DEF RecoverCompleted
<1>7. ASSUME NEW r \in Requests, RecoverFailed(r) PROVE InFlight'
  BY <1>7 DEF RecoverFailed
<1>8. ASSUME NEW r \in Requests, Claim(r) PROVE InFlight'
  BY <1>8 DEF Claim
<1>9. ASSUME NEW r \in Requests, ClaimRefused(r) PROVE InFlight'
  BY <1>9 DEF ClaimRefused
<1>10. ASSUME NEW r \in Requests, CheckBlocking(r) PROVE InFlight'
  BY <1>10 DEF CheckBlocking
<1>11. ASSUME NEW r \in Requests, BeginTrx(r) PROVE InFlight'
  BY <1>11 DEF BeginTrx, ChargedOnceWithReport
<1>12. ASSUME NEW r \in Requests, CommitDuplicate(r) PROVE InFlight'
  BY <1>12 DEF CommitDuplicate
<1>13. ASSUME NEW r \in Requests, Fail(r) PROVE InFlight'
  BY <1>13 DEF Fail, InTry
<1>14. ASSUME NEW r \in Requests, Catch(r) PROVE InFlight'
  BY <1>14 DEF Catch
<1>15. ASSUME NEW r \in Requests, Crash(r) PROVE InFlight'
  BY <1>15 DEF Crash
<1>16. ASSUME NEW d \in Dates, HeartbeatExpires(d) PROVE InFlight'
  BY <1>16 DEF HeartbeatExpires
<1>17. ASSUME Midnight PROVE InFlight'
  BY <1>17 DEF Midnight
<1>18. ASSUME OpenDiscrepancy PROVE InFlight'
  BY <1>18 DEF OpenDiscrepancy
<1>19. ASSUME ResolveDiscrepancy PROVE InFlight'
  BY <1>19 DEF ResolveDiscrepancy
<1>20. ASSUME UNCHANGED vars PROVE InFlight'
  BY <1>20 DEF vars
<1>21. ASSUME NEW r \in Requests, CloseDay(r) PROVE FALSE
  BY <1>21 DEF CloseDay
<1>22. ASSUME NEW d \in Dates, SetBusinessDate(d) PROVE FALSE
  BY <1>22 DEF SetBusinessDate
<1> HIDE DEF IInv, InFlight, TypeOK
<1> QED
  BY <1>1, <1>2, <1>3, <1>4, <1>5, <1>6, <1>7, <1>8, <1>9, <1>10, <1>11, <1>12, <1>13, <1>14, <1>15, <1>16, <1>17, <1>18, <1>19, <1>20, <1>21, <1>22
     DEF Next, Call, Faulty, Surroundings, RefusePremature, Commit, CommitUnacknowledged

(* The commit of runCriticalTransaction: the call that closes the day is    *)
(* the only one whose snapshot counted, every other call in flight now      *)
(* works on a reported date.                                                *)
LEMMA CommitStep ==
  ASSUME IInv, NEW r \in Requests, Commit(r) \/ CommitUnacknowledged(r)
  PROVE  ChargedOnceWithReport' /\ ClosedDaysReported' /\ InFlight'
<1> USE DEF IInv
<1>1. /\ CloseDay(r)
      /\ pc[r] = "commit"
      /\ \/ pc' = [pc EXCEPT ![r] = "idle"] /\ date' = [date EXCEPT ![r] = 1]
         \/ pc' = [pc EXCEPT ![r] = "catch"] /\ date' = date
      /\ \/ existing' = existing \ {r} /\ toBill' = [toBill EXCEPT ![r] = {}]
         \/ existing' = existing /\ toBill' = toBill
      /\ resets' = resets /\ today' = today
  BY DEF Commit, CommitUnacknowledged, Return, Goto
<1>2. ChargedOnceWithReport'
  BY <1>1, CloseDayCharges
<1>3. /\ date[r] \in Dates
      /\ date[r] \notin reports
      /\ reports' = reports \cup {date[r]}
      /\ businessDate' = date[r] + 1
      /\ runs' = [runs EXCEPT ![date[r]] = "COMPLETED"]
  BY <1>1, Zenon DEF CloseDay, SetStatus, TypeOK
<1>4. resets = 0 => date[r] = businessDate
  BY <1>1, ClosesTheOpenDate
<1>5. resets = 0 => date[r] + 1 <= today
  BY <1>1 DEF InFlightDates, HasEnded
<1>6. ClosedDaysReported'
  BY <1>1, <1>3, <1>4, DateAssumption DEF ClosedDaysReported, TypeOK, Dates
<1>7. NeverAheadOfCalendar'
  BY <1>1, <1>3, <1>5 DEF NeverAheadOfCalendar
<1>8. CompletedIsTruthful'
  BY <1>3 DEF CompletedIsTruthful, TypeOK
<1>9. SnapshotIsCurrent'
  BY <1>1, <1>3 DEF SnapshotIsCurrent, TypeOK
<1>10. InFlightDates'
  <2> SUFFICES ASSUME resets' = 0, NEW q \in Requests, pc'[q] # "idle"
               PROVE  date'[q] <= businessDate' /\ date'[q] + 1 <= today'
    BY DEF InFlightDates, HasEnded
  <2>1. pc[q] # "idle" /\ date'[q] = date[q]
    BY <1>1 DEF TypeOK
  <2>2. date[q] <= businessDate /\ date[q] + 1 <= today
    BY <1>1, <2>1 DEF InFlightDates, HasEnded
  <2>3. date[q] \in Nat /\ businessDate \in Nat
    BY DateAssumption DEF TypeOK, Dates
  <2> QED BY <1>1, <1>3, <1>4, <2>1, <2>2, <2>3
<1>11. VerdictIsTruthful'
  BY <1>1, <1>3 DEF VerdictIsTruthful, TypeOK
<1> QED BY <1>2, <1>6, <1>7, <1>8, <1>9, <1>10, <1>11 DEF InFlight

(* An edit of the date in Setup voids every claim about the open date, and  *)
(* leaves those about the reports alone.                                    *)
LEMMA SetupStep ==
  ASSUME IInv, NEW d \in Dates, SetBusinessDate(d)
  PROVE  ChargedOnceWithReport' /\ ClosedDaysReported' /\ InFlight'
<1>1. /\ resets' # 0
      /\ UNCHANGED <<runs, reports, charges, pc, date, existing, toBill>>
  BY BudgetAssumption DEF SetBusinessDate, IInv, TypeOK
<1> QED
  BY <1>1 DEF IInv, InFlight, ChargedOnceWithReport, ClosedDaysReported,
     CompletedIsTruthful, SnapshotIsCurrent, InFlightDates, VerdictIsTruthful,
     NeverAheadOfCalendar

(* A step closes a day, edits the date, or leaves the closed days alone. *)
LEMMA StepKinds ==
  ASSUME [Next]_vars
  PROVE \/ \E r \in Requests : Commit(r) \/ CommitUnacknowledged(r)
        \/ \E d \in Dates : SetBusinessDate(d)
        \/ UNCHANGED <<businessDate, reports, charges, resets>>
<1> USE DEF tables
<1>1. ASSUME NEW r \in Requests, Call(r), ~Commit(r)
        PROVE UNCHANGED <<businessDate, reports, charges, resets>>
    BY <1>1 DEF Call, ReadProperty, ReconcileClaimable, ReconcileRefused, ReconcileStale,
       RecoverCompleted, RecoverFailed, Claim, ClaimRefused, CheckBlocking, BeginTrx,
       CommitDuplicate, Catch
<1>2. ASSUME NEW r \in Requests, Faulty(r), ~CommitUnacknowledged(r)
        PROVE UNCHANGED <<businessDate, reports, charges, resets>>
    BY <1>2 DEF Faulty, Fail, Crash
<1>3. ASSUME Surroundings, ~ \E d \in Dates : SetBusinessDate(d)
        PROVE UNCHANGED <<businessDate, reports, charges, resets>>
    BY <1>3 DEF Surroundings, HeartbeatExpires, Midnight, OpenDiscrepancy, ResolveDiscrepancy
<1> QED BY <1>1, <1>2, <1>3 DEF Next, RefusePremature, vars

(* IInv is inductive. *)
LEMMA InvStep == IInv /\ [Next]_vars => IInv'
<1> SUFFICES ASSUME IInv, [Next]_vars PROVE IInv'
  OBVIOUS
<1>1. TypeOK'
  BY TypeStep DEF IInv
<1>2. ASSUME NEW r \in Requests, Commit(r) \/ CommitUnacknowledged(r) PROVE IInv'
  BY <1>1, <1>2, CommitStep DEF IInv, InFlight
<1>3. ASSUME NEW d \in Dates, SetBusinessDate(d) PROVE IInv'
  BY <1>1, <1>3, SetupStep DEF IInv, InFlight
<1>4. ASSUME UNCHANGED <<businessDate, reports, charges, resets>> PROVE IInv'
  BY <1>1, <1>4, QuietStep DEF IInv, InFlight
<1> QED BY <1>2, <1>3, <1>4, StepKinds

(* IInv holds before the first call. *)
LEMMA InitInv == Init => IInv
<1> SUFFICES ASSUME Init PROVE IInv
  OBVIOUS
<1>1. TypeOK
  BY InitType
<1>2. ChargedOnceWithReport
  BY DEF Init, ChargedOnceWithReport
<1>3. ClosedDaysReported /\ NeverAheadOfCalendar
  BY DEF Init, ClosedDaysReported, NeverAheadOfCalendar
<1>4. CompletedIsTruthful
  BY DEF Init, CompletedIsTruthful
<1>5. SnapshotIsCurrent /\ InFlightDates /\ VerdictIsTruthful
  BY DEF Init, SnapshotIsCurrent, InFlightDates, VerdictIsTruthful
<1> QED BY <1>1, <1>2, <1>3, <1>4, <1>5 DEF IInv

(* IInv holds in every reachable state. *)
LEMMA Invariance == Spec => []IInv
BY InitInv, InvStep, PTL DEF Spec

(* A night is billed to every stay exactly when its day is reported, and    *)
(* never twice, however many calls race, stall, crash or take one another's *)
(* stale run over.                                                          *)
THEOREM ChargedOnce == Spec => []ChargedOnceWithReport
<1>1. IInv => ChargedOnceWithReport
  BY DEF IInv
<1> QED BY <1>1, Invariance, PTL

(* No day is skipped and none is closed without its report. *)
THEOREM DaysReported == Spec => []ClosedDaysReported
<1>1. IInv => ClosedDaysReported
  BY DEF IInv
<1> QED BY <1>1, Invariance, PTL

(* The business date never passes the property's own calendar. *)
THEOREM BehindCalendar == Spec => []NeverAheadOfCalendar
<1>1. IInv => NeverAheadOfCalendar
  BY DEF IInv
<1> QED BY <1>1, Invariance, PTL

(* A run marked COMPLETED did close its day. *)
THEOREM CompletedTruthful == Spec => []CompletedIsTruthful
<1>1. IInv => CompletedIsTruthful
  BY DEF IInv
<1> QED BY <1>1, Invariance, PTL

(* Reports, run rows, the business date and the calendar agree on which     *)
(* days are over, for any number of overlapping runNightAudit calls.        *)
THEOREM DaysAgree == Spec => []DaysAccountedFor
BY DaysReported, BehindCalendar, CompletedTruthful, PTL DEF DaysAccountedFor

-----------------------------------------------------------------------------
(* The separate statements of runNightAudit implement the indivisible close *)
(* of a day that DayClose specifies: every step is DayClose's Close, its    *)
(* SetDate or a stutter.                                                    *)
THEOREM ImplementsDayClose == Spec => ClosesIndivisibly
<1>1. Init => DC!Init
  BY DEF Init, DC!Init, Dates, DC!Dates
<1>2. IInv /\ [Next]_vars => [DC!Next]_(DC!vars)
  <2> SUFFICES ASSUME IInv, [Next]_vars PROVE [DC!Next]_(DC!vars)
    OBVIOUS
  <2>1. ASSUME NEW r \in Requests, Commit(r) \/ CommitUnacknowledged(r)
        PROVE DC!Next
    <3>1. /\ CloseDay(r) /\ pc[r] = "commit" /\ resets' = resets
      BY <2>1 DEF Commit, CommitUnacknowledged
    <3>2. charges' = [s \in Stays |-> [charges[s] EXCEPT ![date[r]] = 1]]
      BY <3>1, CloseDayCharges DEF IInv
    <3>3. resets = 0 => date[r] = businessDate
      BY <3>1, ClosesTheOpenDate DEF IInv
    <3>4. /\ date[r] \in DC!Dates
          /\ date[r] \notin reports
          /\ reports' = reports \cup {date[r]}
          /\ businessDate' = date[r] + 1
      BY <3>1, Zenon DEF CloseDay, IInv, TypeOK, Dates, DC!Dates
    <3> QED BY <3>1, <3>2, <3>3, <3>4 DEF DC!Next, DC!Close
  <2>2. ASSUME NEW d \in Dates, SetBusinessDate(d) PROVE DC!Next
    BY <2>2 DEF SetBusinessDate, DC!Next, DC!SetDate, Dates, DC!Dates
  <2>3. ASSUME UNCHANGED <<businessDate, reports, charges, resets>>
        PROVE UNCHANGED DC!vars
    BY <2>3 DEF DC!vars
  <2> QED BY <2>1, <2>2, <2>3, StepKinds DEF IInv
<1> QED BY <1>1, <1>2, Invariance, PTL DEF Spec, ClosesIndivisibly, DC!Spec
=============================================================================
