---------------------------- MODULE PaymentProofs ----------------------------
(***************************************************************************)
(* Theorems about payments through Paystack, for any number of payments,   *)
(* server processes, attempts and crashes.                                 *)
(*                                                                         *)
(* First what every payment can rely on, whatever it pays for              *)
(* (PaymentGateway): the locals of a call keep their types; a checkout     *)
(* about to write PENDING is the only one of its payment and nobody can    *)
(* have paid it yet; an answer "success" being applied is still Paystack's *)
(* word (CallsInv).                                                        *)
(*                                                                         *)
(* Then FolioPayment: the inductive invariant FolioInv adds that a verdict *)
(* about to be written rests on a transaction that is over, so nothing can *)
(* make it untrue (EventsInv).                                             *)
(*                                                                         *)
(* Then GuestOrderPayment: an order is sold at most once, and 'paid' means *)
(* held.  A capture that has claimed its payment is alone in that and      *)
(* finds its tab open when it commits, because whoever closes a tab waits  *)
(* for the payment's lock (CommitsInv); a sale by card belongs to a        *)
(* captured payment (SaleRight), which no gateway step undoes.             *)
(***************************************************************************)
EXTENDS FolioPayment, GuestOrderPayment, TLAPS

Recording(w) == At(w, "checkout", "record")

RecordersOwn ==
    \A w \in Workers : Recording(w) => paystack[call[w].p] = "created"

OneRecorder ==
    \A v, w \in Workers :
        Recording(v) /\ Recording(w) /\ call[v].p = call[w].p => v = w

AnswersHold ==
    \A w \in Workers :
        Applying(w, "success") \/ call[w].at = "commit" => paystack[call[w].p] = "success"

DecisionsMade ==
    \A w \in Workers :
        At(w, "decide", "write") => call[w].todo \in {"defer"} \cup Outcomes

CallsInv == RecordersOwn /\ OneRecorder /\ AnswersHold /\ DecisionsMade

-----------------------------------------------------------------------------
(* Shapes of the call table. *)

ActiveCalls == Calls \ {Idle}

Moved(c, at, todo) == [c EXCEPT !.at = at, !.todo = todo]

Ats   == {"open", "record", "ask", "apply", "commit", "write"}
Todos == {"none", "close", "success", "failed", "defer"} \cup Outcomes

(* A call that is not idle has all its locals. *)
LEMMA ActiveFields ==
    ASSUME NEW c \in Calls, c.at # "idle"
    PROVE  c \in [op : {"checkout", "verify", "decide"}, at : Ats, p : Payments,
                  seen : Statuses, tries : 0..MaxAttempts, todo : Todos]
  BY DEF Calls, Idle, Ats, Todos

(* Goto leaves every local but at and todo as it was. *)
LEMMA GotoShape ==
    ASSUME GatewayTypeOK, NEW w \in Workers, call[w].at # "idle",
           NEW at \in Ats, NEW todo \in Todos, Goto(w, at, todo)
    PROVE  /\ call' = [call EXCEPT ![w] = Moved(call[w], at, todo)]
           /\ Moved(call[w], at, todo) \in Calls
           /\ Moved(call[w], at, todo).op = call[w].op
           /\ Moved(call[w], at, todo).p = call[w].p
           /\ Moved(call[w], at, todo).at = at
           /\ Moved(call[w], at, todo).todo = todo
<1>1. call \in [Workers -> Calls] /\ call[w] \in Calls
  BY DEF GatewayTypeOK
<1>2. call[w] \in [op : {"checkout", "verify", "decide"}, at : Ats, p : Payments,
                   seen : Statuses, tries : 0..MaxAttempts, todo : Todos]
  BY <1>1, ActiveFields
<1>3. call' = [call EXCEPT ![w] = Moved(call[w], at, todo)]
  BY <1>1, <1>2 DEF Goto, Moved
<1>4. Moved(call[w], at, todo) \in
                  [op : {"checkout", "verify", "decide"}, at : Ats, p : Payments,
                   seen : Statuses, tries : 0..MaxAttempts, todo : Todos]
  BY <1>2 DEF Moved
<1>5. Moved(call[w], at, todo) \in Calls
  BY <1>4 DEF Calls, Ats, Todos
<1>6. QED
  BY <1>2, <1>3, <1>5 DEF Moved

(* Moving a call on keeps the call table well formed.                       *)
LEMMA GotoType ==
    ASSUME GatewayTypeOK, NEW w \in Workers, call[w].at # "idle",
           NEW at \in Ats, NEW todo \in Todos, Goto(w, at, todo)
    PROVE  call' \in [Workers -> Calls]
  BY GotoShape DEF GatewayTypeOK

(* So does returning from it ...                                            *)
LEMMA ReturnType ==
    ASSUME GatewayTypeOK, NEW w \in Workers, Return(w)
    PROVE  call' \in [Workers -> Calls]
  BY DEF GatewayTypeOK, Return, Calls

(* ... going on after applyGatewayResult ...                                *)
LEMMA AppliedType ==
    ASSUME GatewayTypeOK, NEW w \in Workers, call[w].at # "idle", Applied(w)
    PROVE  call' \in [Workers -> Calls]
  BY GotoType, ReturnType DEF Applied, Ats, Todos, Outcomes

(* ... and beginning one.                                                   *)
LEMMA StartType ==
    ASSUME GatewayTypeOK, NEW w \in Workers, NEW p \in Payments,
           NEW op \in {"checkout", "verify", "decide"}, NEW at \in Ats,
           NEW tries \in 0..MaxAttempts, NEW todo \in Todos,
           Start(w, op, at, p, tries, todo)
    PROVE  call' \in [Workers -> Calls]
  BY DEF GatewayTypeOK, Start, Calls, Ats, Todos

(* finalizeWebhookEvent and deferWebhookEvent write well-formed rows. *)
LEMMA DecisionType ==
    ASSUME event \in [Payments -> Events], NEW p \in Payments,
           NEW tries \in 0..MaxAttempts, NEW todo \in {"defer"} \cup Outcomes,
           IF todo = "defer" THEN Defer(p, tries) ELSE Finalize(p, todo)
    PROVE  event' \in [Payments -> Events]
  BY AttemptsAssumption DEF Defer, Finalize, Events, Outcomes

-----------------------------------------------------------------------------
(* Every variable keeps to its type: the rows' states, Paystack's records,  *)
(* the event rows' outcomes and attempts, and the locals of every call.     *)
LEMMA GatewayTypeStep == GatewayTypeOK /\ CallsInv /\ GatewayNext => GatewayTypeOK'
<1> SUFFICES ASSUME GatewayTypeOK, CallsInv, GatewayNext PROVE GatewayTypeOK'
  OBVIOUS
<1> USE SweeperAssumption, AttemptsAssumption, CrashesAssumption
    DEF GatewayTypeOK, Statuses, Terminal, Settled, Unpaid, SetStatus
<1>0. \A w \in Workers : call[w].at # "idle" =>
         call[w].p \in Payments /\ call[w].tries \in 0..MaxAttempts /\ call[w].todo \in Todos
  BY ActiveFields
<1>id. \A w \in Workers : \A op, at : At(w, op, at) /\ at # "idle" => call[w].at # "idle"
  BY DEF At
<1>3. ASSUME NEW w \in Workers, OpenTransaction(w) PROVE GatewayTypeOK'
  <2>1. call[w].at # "idle" /\ call' \in [Workers -> Calls]
    BY <1>3, GotoType DEF OpenTransaction, At, Ats, Todos
  <2>2. QED
    BY <1>0, <1>3, <2>1 DEF OpenTransaction, Records
<1>4. ASSUME NEW w \in Workers, OpenFails(w) PROVE GatewayTypeOK'
  <2>1. call[w].at # "idle" /\ call' \in [Workers -> Calls]
    BY <1>4, ReturnType DEF OpenFails, At
  <2>2. QED
    BY <1>0, <1>4, <2>1 DEF OpenFails, Records
<1>5. ASSUME NEW w \in Workers, RecordCheckout(w) PROVE GatewayTypeOK'
  <2>1. call[w].at # "idle" /\ call' \in [Workers -> Calls]
    BY <1>5, ReturnType DEF RecordCheckout, At
  <2>2. QED
    BY <1>0, <1>5, <2>1 DEF RecordCheckout, Records
<1>6. ASSUME NEW w \in Workers, VerifyAnswered(w) PROVE GatewayTypeOK'
  <2>1. call' \in [Workers -> Calls]
    BY <1>6, GotoType, ReturnType DEF VerifyAnswered, At, Ats, Todos
  <2>2. QED
    BY <1>6, <2>1 DEF VerifyAnswered
<1>7. ASSUME NEW w \in Workers, VerifyUnanswered(w) PROVE GatewayTypeOK'
  <2>1. call' \in [Workers -> Calls]
    BY <1>7, GotoType, ReturnType DEF VerifyUnanswered, At, Ats, Todos
  <2>2. QED
    BY <1>7, <2>1 DEF VerifyUnanswered
<1>8. ASSUME NEW w \in Workers, CloseUnknown(w) PROVE GatewayTypeOK'
  <2>1. call[w].at # "idle" /\ call' \in [Workers -> Calls]
    BY <1>8, ReturnType DEF CloseUnknown, At
  <2>2. QED
    BY <1>0, <1>8, <2>1 DEF CloseUnknown
<1>9. ASSUME NEW w \in Workers, DecideAnswered(w) PROVE GatewayTypeOK'
  <2>1. call' \in [Workers -> Calls]
    <3>1. /\ call[w].at # "idle"
          /\ paystack[call[w].p] \in Records \ {"unknown"}
      BY <1>0, <1>9 DEF DecideAnswered, At
    <3>2. Verdict(paystack[call[w].p], call[w].seen) \in {"rejected", "ignored", "defer", "failed", "needs_review", "success"}
      BY <3>1 DEF Verdict, Records, Finished
    <3>3. QED
      BY <1>9, <3>1, <3>2, GotoType DEF DecideAnswered, Ats, Todos, Outcomes
  <2>2. QED
    BY <1>9, <2>1 DEF DecideAnswered
<1>10. ASSUME NEW w \in Workers, DecideUnanswered(w) PROVE GatewayTypeOK'
  <2>1. call' \in [Workers -> Calls]
    BY <1>10, GotoType DEF DecideUnanswered, At, Ats, Todos, Outcomes
  <2>2. QED
    BY <1>10, <2>1 DEF DecideUnanswered
<1>11. ASSUME NEW w \in Workers, WriteDecision(w) PROVE GatewayTypeOK'
  <2>1. call[w].at # "idle" /\ call' \in [Workers -> Calls]
    BY <1>11, ReturnType DEF WriteDecision, At
  <2>2. event' \in [Payments -> Events]
    BY <1>0, <1>11, <2>1, DecisionType DEF WriteDecision, CallsInv, DecisionsMade
  <2>3. QED
    BY <1>11, <2>1, <2>2 DEF WriteDecision
<1>12. ASSUME NEW w \in Workers, ApplyNothing(w) PROVE GatewayTypeOK'
  BY <1>12, AppliedType DEF ApplyNothing, Applying
<1>13. ASSUME NEW w \in Workers, ApplyFailure(w) PROVE GatewayTypeOK'
  <2>1. call[w].at # "idle" /\ call' \in [Workers -> Calls]
    BY <1>13, AppliedType DEF ApplyFailure, Applying
  <2>2. QED
    BY <1>0, <1>13, <2>1 DEF ApplyFailure
<1>14. ASSUME NEW w \in Workers, ApplyRollsBack(w) PROVE GatewayTypeOK'
  <2>1. call' \in [Workers -> Calls]
    BY <1>14, GotoType, ReturnType DEF ApplyRollsBack, Ats, Todos
  <2>2. QED
    BY <1>14, <2>1 DEF ApplyRollsBack
<1>15. ASSUME NEW w \in Workers, Crash(w) PROVE GatewayTypeOK'
  BY <1>15, ReturnType DEF Crash
<1>16. ASSUME NEW w \in Workers, NEW p \in Payments, StartCheckout(w, p) PROVE GatewayTypeOK'
  <2>1. call' \in [Workers -> Calls]
    BY <1>16, StartType DEF StartCheckout, Ats, Todos
  <2>2. QED
    BY <1>16, <2>1 DEF StartCheckout
<1>17. ASSUME NEW w \in Workers, NEW p \in Payments, StartVerify(w, p) PROVE GatewayTypeOK'
  <2>1. call' \in [Workers -> Calls]
    BY <1>17, StartType DEF StartVerify, Ats, Todos
  <2>2. QED
    BY <1>17, <2>1 DEF StartVerify
<1>18. ASSUME NEW w \in Workers, NEW p \in Payments, StartDecide(w, p) PROVE GatewayTypeOK'
  <2>1. call' \in [Workers -> Calls]
    BY <1>18, StartType DEF StartDecide, Events, Ats, Todos, Outcomes
  <2>2. QED
    BY <1>18, <2>1 DEF StartDecide
<1>19. ASSUME NEW p \in Payments, NEW record \in Finished, Finish(p, record) PROVE GatewayTypeOK'
  BY <1>19 DEF Finish, Records
<1>20. ASSUME NEW p \in Payments, DeliverSigned(p) PROVE GatewayTypeOK'
  BY <1>20 DEF DeliverSigned, Events
<1>21. ASSUME NEW p \in Payments, DeliverUnsigned(p) PROVE GatewayTypeOK'
  BY <1>21 DEF DeliverUnsigned, Events
<1>22. ASSUME NEW p \in Payments, GrowOld(p) PROVE GatewayTypeOK'
  BY <1>22 DEF GrowOld
<1>23. ASSUME StartPurge PROVE GatewayTypeOK'
  BY <1>23 DEF StartPurge
<1>25. QED
  BY <1>3, <1>4, <1>5, <1>6, <1>7, <1>8, <1>9, <1>10, <1>11, <1>12, <1>13, <1>14,
     <1>15, <1>16, <1>17, <1>18, <1>19, <1>20, <1>21, <1>22, <1>23
     DEF GatewayNext, GatewayStep

-----------------------------------------------------------------------------
(* What the calls in flight know. *)

Harmless(c) ==
    /\ ~(c.op = "checkout" /\ c.at = "record")
    /\ (c.at = "apply" /\ c.todo = "success") \/ c.at = "commit" => paystack[c.p] = "success"
    /\ c.op = "decide" /\ c.at = "write" => c.todo \in {"defer"} \cup Outcomes

(* One call moves on to a harmless place and Paystack's records stay. *)
LEMMA CallStep ==
    ASSUME GatewayTypeOK, CallsInv, NEW w \in Workers, NEW c, Harmless(c),
           call' = [call EXCEPT ![w] = c], UNCHANGED paystack
    PROVE  CallsInv'
<1>1. \A v \in Workers : call'[v] = IF v = w THEN c ELSE call[v]
  BY DEF GatewayTypeOK
<1>2. RecordersOwn'
  BY <1>1 DEF CallsInv, RecordersOwn, Recording, At, Harmless
<1>3. OneRecorder'
  BY <1>1 DEF CallsInv, OneRecorder, Recording, At, Harmless
<1>4. AnswersHold'
  BY <1>1 DEF CallsInv, AnswersHold, Applying, Harmless
<1>5. DecisionsMade'
  BY <1>1 DEF CallsInv, DecisionsMade, At, Harmless
<1>6. QED
  BY <1>2, <1>3, <1>4, <1>5 DEF CallsInv

(* A call that returns or dies leaves the others' knowledge true.           *)
LEMMA ReturnStep ==
    ASSUME GatewayTypeOK, CallsInv, NEW w \in Workers, Return(w), UNCHANGED paystack
    PROVE  CallsInv'
  BY CallStep DEF Return, Harmless, Idle

(* So does one that goes on, if it knows what its next place asks for ...   *)
LEMMA GotoStep ==
    ASSUME GatewayTypeOK, CallsInv, NEW w \in Workers, call[w].at # "idle",
           NEW at \in Ats \ {"record"}, NEW todo \in Todos, Goto(w, at, todo),
           (at = "apply" /\ todo = "success") \/ at = "commit" => paystack[call[w].p] = "success",
           call[w].op = "decide" /\ at = "write" => todo \in {"defer"} \cup Outcomes,
           UNCHANGED paystack
    PROVE  CallsInv'
<1>1. at \in Ats
  OBVIOUS
<1>2. /\ call' = [call EXCEPT ![w] = Moved(call[w], at, todo)]
      /\ Moved(call[w], at, todo).op = call[w].op
      /\ Moved(call[w], at, todo).p = call[w].p
      /\ Moved(call[w], at, todo).at = at
      /\ Moved(call[w], at, todo).todo = todo
  BY <1>1, GotoShape
<1>3. Harmless(Moved(call[w], at, todo))
  BY <1>2 DEF Harmless
<1>4. QED
  BY <1>2, <1>3, CallStep

(* ... one that comes back from applyGatewayResult ...                      *)
LEMMA AppliedStep ==
    ASSUME GatewayTypeOK, CallsInv, NEW w \in Workers, call[w].at # "idle", Applied(w),
           UNCHANGED paystack
    PROVE  CallsInv'
  BY GotoStep, ReturnStep DEF Applied, Ats, Todos, Outcomes

(* ... and one that begins by reading the row.                              *)
LEMMA StartStep ==
    ASSUME GatewayTypeOK, CallsInv, NEW w \in Workers, NEW p,
           NEW op, NEW at, NEW tries, NEW todo, Start(w, op, at, p, tries, todo),
           at \in {"open", "ask", "write"},
           at = "write" => todo \in {"defer"} \cup Outcomes,
           UNCHANGED paystack
    PROVE  CallsInv'
<1> DEFINE c == [op |-> op, at |-> at, p |-> p, seen |-> status[p],
                 tries |-> tries, todo |-> todo]
<1>1. Harmless(c)
  BY DEF Harmless
<1>2. call' = [call EXCEPT ![w] = c]
  BY DEF Start
<1>3. QED
  BY <1>1, <1>2, CallStep

(* Every step keeps it: no transaction is open across a call to Paystack,   *)
(* but Paystack accepts a reference once and never changes a finished one.  *)
LEMMA GatewayCallsStep == GatewayTypeOK /\ CallsInv /\ GatewayNext => CallsInv'
<1> SUFFICES ASSUME GatewayTypeOK, CallsInv, GatewayNext PROVE CallsInv'
  OBVIOUS
<1>call. call \in [Workers -> Calls] /\ paystack \in [Payments -> Records]
  BY DEF GatewayTypeOK
<1>p. \A w \in Workers : call[w].at # "idle" => call[w].p \in Payments
  BY <1>call, ActiveFields
<1>3. ASSUME NEW w \in Workers, OpenTransaction(w) PROVE CallsInv'
  <2>1. /\ call[w].at # "idle" /\ call[w].op = "checkout" /\ call[w].p \in Payments
        /\ paystack[call[w].p] = "unknown"
    BY <1>3, <1>p DEF OpenTransaction, At
  <2>2. \A q \in Payments : paystack'[q] = IF q = call[w].p THEN "created" ELSE paystack[q]
    BY <1>3, <1>call DEF OpenTransaction
  <2>3. call' = [call EXCEPT ![w] = Moved(call[w], "record", "none")]
    BY <1>3, <2>1, GotoShape DEF OpenTransaction, Ats, Todos
  <2>4. /\ Moved(call[w], "record", "none").op = "checkout"
        /\ Moved(call[w], "record", "none").p = call[w].p
        /\ Moved(call[w], "record", "none").at = "record"
    BY <1>3, <2>1, GotoShape DEF OpenTransaction, Ats, Todos
  <2>5. \A v \in Workers : /\ v # w => call'[v] = call[v]
                           /\ call'[w].p = call[w].p /\ call'[w].at = "record"
                           /\ call'[w].op = "checkout"
    BY <1>call, <2>3, <2>4
  <2>6. \A v \in Workers : v # w /\ Recording(v) =>
           call[v].p \in Payments /\ paystack[call[v].p] = "created" /\ call[v].p # call[w].p
    BY <1>p, <2>1 DEF CallsInv, RecordersOwn, Recording, At
  <2>7. RecordersOwn'
    BY <2>1, <2>2, <2>5, <2>6 DEF RecordersOwn, Recording, At
  <2>8. OneRecorder'
    BY <2>5, <2>6 DEF CallsInv, OneRecorder, Recording, At
  <2>9. AnswersHold'
    BY <1>p, <2>1, <2>2, <2>5 DEF CallsInv, AnswersHold, Applying
  <2>10. DecisionsMade'
    BY <2>5 DEF CallsInv, DecisionsMade, At
  <2>11. QED
    BY <2>7, <2>8, <2>9, <2>10 DEF CallsInv
<1>4. ASSUME NEW w \in Workers, OpenFails(w) PROVE CallsInv'
  <2>1. CASE UNCHANGED paystack
    BY <1>4, <2>1, ReturnStep DEF OpenFails
  <2>2. CASE /\ paystack[call[w].p] = "unknown"
             /\ paystack' = [paystack EXCEPT ![call[w].p] = "created"]
    <3>1. /\ call[w].p \in Payments
          /\ \A q \in Payments : paystack'[q] = IF q = call[w].p THEN "created" ELSE paystack[q]
      BY <1>4, <1>call, <1>p, <2>2 DEF OpenFails, At
    <3>2. \A v \in Workers : call'[v] = IF v = w THEN Idle ELSE call[v]
      BY <1>4, <1>call DEF OpenFails, Return
    <3>3. RecordersOwn'
      BY <1>p, <2>2, <3>1, <3>2 DEF CallsInv, RecordersOwn, Recording, At, Idle
    <3>4. OneRecorder'
      BY <3>2 DEF CallsInv, OneRecorder, Recording, At, Idle
    <3>5. AnswersHold'
      BY <1>p, <2>2, <3>1, <3>2 DEF CallsInv, AnswersHold, Applying, Idle
    <3>6. DecisionsMade'
      BY <3>2 DEF CallsInv, DecisionsMade, At, Idle
    <3>7. QED
      BY <3>3, <3>4, <3>5, <3>6 DEF CallsInv
  <2>3. QED
    BY <1>4, <2>1, <2>2 DEF OpenFails
<1>5. ASSUME NEW w \in Workers, RecordCheckout(w) PROVE CallsInv'
  <2>1. Recording(w) /\ call[w].p \in Payments /\ paystack[call[w].p] = "created"
    BY <1>5, <1>p DEF RecordCheckout, Recording, At, CallsInv, RecordersOwn
  <2>2. \A q \in Payments : paystack'[q] = IF q = call[w].p THEN "open" ELSE paystack[q]
    BY <1>5, <1>call DEF RecordCheckout
  <2>3. \A v \in Workers : call'[v] = IF v = w THEN Idle ELSE call[v]
    BY <1>5, <1>call DEF RecordCheckout, Return
  <2>4. RecordersOwn'
    BY <1>p, <2>1, <2>2, <2>3 DEF CallsInv, RecordersOwn, OneRecorder, Recording, At, Idle
  <2>5. OneRecorder'
    BY <2>3 DEF CallsInv, OneRecorder, Recording, At, Idle
  <2>6. AnswersHold'
    BY <1>p, <2>1, <2>2, <2>3 DEF CallsInv, AnswersHold, Applying, Idle
  <2>7. DecisionsMade'
    BY <2>3 DEF CallsInv, DecisionsMade, At, Idle
  <2>8. QED
    BY <2>4, <2>5, <2>6, <2>7 DEF CallsInv
<1>6. ASSUME NEW w \in Workers, VerifyAnswered(w) PROVE CallsInv'
  BY <1>6, GotoStep, ReturnStep DEF VerifyAnswered, At, Ats, Todos, Outcomes
<1>7. ASSUME NEW w \in Workers, VerifyUnanswered(w) PROVE CallsInv'
  BY <1>7, GotoStep, ReturnStep DEF VerifyUnanswered, At, Ats, Todos, Outcomes
<1>8. ASSUME NEW w \in Workers, CloseUnknown(w) PROVE CallsInv'
  BY <1>8, ReturnStep DEF CloseUnknown
<1>9. ASSUME NEW w \in Workers, DecideAnswered(w) PROVE CallsInv'
  <2> DEFINE record  == paystack[call[w].p]
             verdict == Verdict(record, call[w].seen)
  <2>1. call[w].at # "idle" /\ call[w].op = "decide" /\ record \in Records \ {"unknown"}
    BY <1>9, <1>call, <1>p DEF DecideAnswered, At
  <2>2. /\ verdict \in {"rejected", "ignored", "defer", "failed", "needs_review", "success"}
        /\ verdict = "success" => record = "success"
    BY <2>1 DEF Verdict, Records, Finished
  <2>3. /\ Goto(w, IF verdict \in {"success", "failed"} THEN "apply" ELSE "write", verdict)
        /\ UNCHANGED paystack
    BY <1>9 DEF DecideAnswered
  <2> HIDE DEF verdict
  <2>4. CASE verdict \in {"success", "failed"}
    BY <2>1, <2>2, <2>3, <2>4, GotoStep DEF Ats, Todos
  <2>5. CASE verdict \notin {"success", "failed"}
    BY <2>1, <2>2, <2>3, <2>5, GotoStep DEF Ats, Todos, Outcomes
  <2>6. QED
    BY <2>4, <2>5
<1>10. ASSUME NEW w \in Workers, DecideUnanswered(w) PROVE CallsInv'
  BY <1>10, GotoStep DEF DecideUnanswered, At, Ats, Todos, Outcomes
<1>11. ASSUME NEW w \in Workers, WriteDecision(w) PROVE CallsInv'
  BY <1>11, ReturnStep DEF WriteDecision
<1>12. ASSUME NEW w \in Workers, ApplyNothing(w) PROVE CallsInv'
  BY <1>12, AppliedStep DEF ApplyNothing, Applying
<1>13. ASSUME NEW w \in Workers, ApplyFailure(w) PROVE CallsInv'
  BY <1>13, AppliedStep DEF ApplyFailure, Applying
<1>14. ASSUME NEW w \in Workers, ApplyRollsBack(w) PROVE CallsInv'
  BY <1>14, GotoStep, ReturnStep DEF ApplyRollsBack, Ats, Todos, Outcomes
<1>15. ASSUME NEW w \in Workers, Crash(w) PROVE CallsInv'
  BY <1>15, ReturnStep DEF Crash
<1>16. ASSUME NEW w \in Workers, NEW p \in Payments, StartCheckout(w, p) PROVE CallsInv'
  BY <1>16, StartStep DEF StartCheckout
<1>17. ASSUME NEW w \in Workers, NEW p \in Payments, StartVerify(w, p) PROVE CallsInv'
  BY <1>17, StartStep DEF StartVerify
<1>18. ASSUME NEW w \in Workers, NEW p \in Payments, StartDecide(w, p) PROVE CallsInv'
  BY <1>18, StartStep DEF StartDecide, Outcomes
<1>19. ASSUME NEW p \in Payments, NEW record \in Finished, Finish(p, record) PROVE CallsInv'
  <2>1. /\ paystack[p] = "open" /\ UNCHANGED call
        /\ \A q \in Payments : paystack'[q] = IF q = p THEN record ELSE paystack[q]
    BY <1>19, <1>call DEF Finish
  <2>2. RecordersOwn'
    BY <1>p, <2>1 DEF CallsInv, RecordersOwn, Recording, At
  <2>3. AnswersHold'
    BY <1>p, <2>1 DEF CallsInv, AnswersHold, Applying
  <2>4. QED
    BY <2>1, <2>2, <2>3 DEF CallsInv, OneRecorder, DecisionsMade, Recording, At
<1>20. ASSUME UNCHANGED <<call, paystack>> PROVE CallsInv'
  BY <1>20 DEF CallsInv, RecordersOwn, OneRecorder, AnswersHold, DecisionsMade, Recording,
     Applying, At
<1>21. ASSUME NEW p \in Payments, DeliverSigned(p) \/ DeliverUnsigned(p) \/ GrowOld(p) PROVE CallsInv'
  BY <1>20, <1>21 DEF DeliverSigned, DeliverUnsigned, GrowOld
<1>22. CASE StartPurge
  BY <1>20, <1>22 DEF StartPurge
<1>23. QED
  BY <1>3, <1>4, <1>5, <1>6, <1>7, <1>8, <1>9, <1>10, <1>11, <1>12, <1>13, <1>14,
     <1>15, <1>16, <1>17, <1>18, <1>19, <1>21, <1>22
     DEF GatewayNext, GatewayStep

-----------------------------------------------------------------------------
(* What Paystack took and the row records is not undone, nor invented.  A    *)
(* refund is recorded by other operations than these.                        *)
ConfirmedIsHeld == \A p \in Payments : status[p] \in Settled => paystack[p] = "success"

MoneyKept ==
    \A p \in Payments :
        /\ status[p] \in Settled => status'[p] = status[p]
        /\ status'[p] \in Settled => status'[p] = status[p]
        /\ paystack[p] = "success" => paystack'[p] = "success"

(* The common steps capture nothing, and undo no capture or refund: the one  *)
(* write without a condition, PENDING, comes before anybody can have paid.   *)
LEMMA GatewayKeepsMoney ==
  ASSUME GatewayTypeOK, CallsInv, ConfirmedIsHeld, GatewayNext
  PROVE  MoneyKept
<1>type. /\ call \in [Workers -> Calls] /\ paystack \in [Payments -> Records]
         /\ status \in [Payments -> Statuses]
  BY DEF GatewayTypeOK
<1>p. \A w \in Workers : call[w].at # "idle" => call[w].p \in Payments
  BY <1>type, ActiveFields
<1>1. ASSUME NEW w \in Workers, OpenTransaction(w) \/ OpenFails(w) PROVE MoneyKept
  BY <1>1, <1>type DEF OpenTransaction, OpenFails, MoneyKept
<1>2. ASSUME NEW w \in Workers, RecordCheckout(w) PROVE MoneyKept
  <2>1. /\ call[w].p \in Payments /\ paystack[call[w].p] = "created"
        /\ status[call[w].p] \notin Settled
    BY <1>2, <1>p DEF RecordCheckout, CallsInv, RecordersOwn, Recording, At, ConfirmedIsHeld
  <2>. QED
    BY <1>2, <1>type, <2>1 DEF RecordCheckout, SetStatus, MoneyKept, Settled
<1>3. ASSUME NEW w \in Workers, CloseUnknown(w) PROVE MoneyKept
  <2>1. /\ status' = [status EXCEPT ![call[w].p] = IF @ \in Unpaid THEN "CANCELLED" ELSE @]
        /\ UNCHANGED paystack
    BY <1>3 DEF CloseUnknown
  <2>. QED
    BY <1>type, <2>1 DEF Unpaid, Settled, MoneyKept
<1>4. ASSUME NEW w \in Workers, ApplyFailure(w) PROVE MoneyKept
  <2>1. /\ status' = [status EXCEPT ![call[w].p] = IF @ \in Terminal THEN @ ELSE "FAILED"]
        /\ UNCHANGED paystack
    BY <1>4 DEF ApplyFailure
  <2>. QED
    BY <1>type, <2>1 DEF Terminal, Settled, MoneyKept
<1>5. ASSUME NEW p \in Payments, NEW record \in Finished, Finish(p, record) PROVE MoneyKept
  BY <1>5, <1>type DEF Finish, MoneyKept
<1>6. ASSUME UNCHANGED <<status, paystack>> PROVE MoneyKept
  BY <1>6 DEF MoneyKept
<1>7. ASSUME NEW w \in Workers,
             \/ VerifyAnswered(w) \/ VerifyUnanswered(w)
             \/ DecideAnswered(w) \/ DecideUnanswered(w) \/ WriteDecision(w)
             \/ ApplyNothing(w) \/ ApplyRollsBack(w) \/ Crash(w)
      PROVE  MoneyKept
  BY <1>6, <1>7 DEF VerifyAnswered, VerifyUnanswered, DecideAnswered, DecideUnanswered,
     WriteDecision, ApplyNothing, ApplyRollsBack, Crash
<1>8. ASSUME NEW w \in Workers, NEW p \in Payments,
             StartCheckout(w, p) \/ StartVerify(w, p) \/ StartDecide(w, p)
      PROVE  MoneyKept
  BY <1>6, <1>8 DEF StartCheckout, StartVerify, StartDecide
<1>9. ASSUME NEW p \in Payments, DeliverSigned(p) \/ DeliverUnsigned(p) \/ GrowOld(p)
      PROVE  MoneyKept
  BY <1>6, <1>9 DEF DeliverSigned, DeliverUnsigned, GrowOld
<1>10. CASE StartPurge
  BY <1>6, <1>10 DEF StartPurge
<1>. QED
  BY <1>1, <1>2, <1>3, <1>4, <1>5, <1>7, <1>8, <1>9, <1>10 DEF GatewayNext, GatewayStep

(* No common step claims a row: a transaction still to commit is one begun   *)
(* by a capture.                                                             *)
NoNewCommit ==
    \A v \in Workers : call'[v].at = "commit" => call'[v] = call[v]

(* One call moves to a place that is not the commit of a capture. *)
LEMMA ElsewhereNoCommit ==
  ASSUME GatewayTypeOK, NEW w \in Workers, NEW c, c.at # "commit",
         call' = [call EXCEPT ![w] = c]
  PROVE  NoNewCommit
  BY DEF GatewayTypeOK, NoNewCommit

(* A call that returns ...                                                   *)
LEMMA ReturnNoCommit ==
  ASSUME GatewayTypeOK, NEW w \in Workers, Return(w)
  PROVE  NoNewCommit
  BY ElsewhereNoCommit DEF Return, Idle

(* ... one that goes on to any other place ...                               *)
LEMMA GotoNoCommit ==
  ASSUME GatewayTypeOK, NEW w \in Workers, call[w].at # "idle",
         NEW at \in Ats \ {"commit"}, NEW todo \in Todos, Goto(w, at, todo)
  PROVE  NoNewCommit
<1>1. /\ call' = [call EXCEPT ![w] = Moved(call[w], at, todo)]
      /\ Moved(call[w], at, todo).at = at
  BY GotoShape
<1>. QED
  BY <1>1, ElsewhereNoCommit

(* ... one that comes back from applyGatewayResult ...                       *)
LEMMA AppliedNoCommit ==
  ASSUME GatewayTypeOK, NEW w \in Workers, call[w].at # "idle", Applied(w)
  PROVE  NoNewCommit
  BY GotoNoCommit, ReturnNoCommit DEF Applied, Ats, Todos, Outcomes

(* ... and one that begins.                                                  *)
LEMMA StartNoCommit ==
  ASSUME GatewayTypeOK, NEW w \in Workers, NEW p, NEW op, NEW at, NEW tries, NEW todo,
         Start(w, op, at, p, tries, todo), at # "commit"
  PROVE  NoNewCommit
  BY ElsewhereNoCommit DEF Start

(* So of all the common steps. *)
LEMMA GatewayNeverClaims ==
  ASSUME GatewayTypeOK, GatewayNext
  PROVE  NoNewCommit
<1>type. /\ call \in [Workers -> Calls] /\ paystack \in [Payments -> Records]
  BY DEF GatewayTypeOK
<1>p. \A w \in Workers : call[w].at # "idle" => call[w].p \in Payments
  BY <1>type, ActiveFields
<1>1. ASSUME NEW w \in Workers, OpenTransaction(w) PROVE NoNewCommit
  BY <1>1, GotoNoCommit DEF OpenTransaction, At, Ats, Todos
<1>2. ASSUME NEW w \in Workers,
             \/ OpenFails(w) \/ RecordCheckout(w) \/ CloseUnknown(w) \/ WriteDecision(w)
             \/ Crash(w)
      PROVE  NoNewCommit
  BY <1>2, ReturnNoCommit DEF OpenFails, RecordCheckout, CloseUnknown, WriteDecision, Crash
<1>3. ASSUME NEW w \in Workers, VerifyAnswered(w) PROVE NoNewCommit
  BY <1>3, GotoNoCommit, ReturnNoCommit DEF VerifyAnswered, At, Ats, Todos
<1>4. ASSUME NEW w \in Workers, VerifyUnanswered(w) PROVE NoNewCommit
  BY <1>4, GotoNoCommit, ReturnNoCommit DEF VerifyUnanswered, At, Ats, Todos
<1>5. ASSUME NEW w \in Workers, DecideAnswered(w) PROVE NoNewCommit
  <2> DEFINE verdict == Verdict(paystack[call[w].p], call[w].seen)
  <2>1. call[w].at # "idle" /\ paystack[call[w].p] \in Records \ {"unknown"}
    BY <1>5, <1>type, <1>p DEF DecideAnswered, At
  <2>2. verdict \in {"rejected", "ignored", "defer", "failed", "needs_review", "success"}
    BY <2>1 DEF Verdict, Records, Finished
  <2>. QED
    BY <1>5, <2>1, <2>2, GotoNoCommit DEF DecideAnswered, Ats, Todos, Outcomes
<1>6. ASSUME NEW w \in Workers, DecideUnanswered(w) PROVE NoNewCommit
  BY <1>6, GotoNoCommit DEF DecideUnanswered, At, Ats, Todos, Outcomes
<1>7. ASSUME NEW w \in Workers, ApplyNothing(w) \/ ApplyFailure(w) PROVE NoNewCommit
  BY <1>7, AppliedNoCommit DEF ApplyNothing, ApplyFailure, Applying
<1>8. ASSUME NEW w \in Workers, ApplyRollsBack(w) PROVE NoNewCommit
  BY <1>8, GotoNoCommit, ReturnNoCommit DEF ApplyRollsBack, Ats, Todos
<1>9. ASSUME NEW w \in Workers, NEW p \in Payments,
             StartCheckout(w, p) \/ StartVerify(w, p) \/ StartDecide(w, p)
      PROVE  NoNewCommit
  BY <1>9, StartNoCommit DEF StartCheckout, StartVerify, StartDecide
<1>10. ASSUME UNCHANGED call PROVE NoNewCommit
  BY <1>10 DEF NoNewCommit
<1>11. ASSUME NEW p \in Payments,
              \/ \E record \in Finished : Finish(p, record)
              \/ DeliverSigned(p) \/ DeliverUnsigned(p) \/ GrowOld(p)
       PROVE  NoNewCommit
  BY <1>10, <1>11 DEF Finish, DeliverSigned, DeliverUnsigned, GrowOld
<1>12. CASE StartPurge
  BY <1>10, <1>12 DEF StartPurge
<1>. QED
  BY <1>1, <1>2, <1>3, <1>4, <1>5, <1>6, <1>7, <1>8, <1>9, <1>11, <1>12
     DEF GatewayNext, GatewayStep

-----------------------------------------------------------------------------
(* FolioPayment. *)

(* Every variable keeps to its type: the rows' states, Paystack's records,  *)
(* the event rows' outcomes and attempts, and the locals of every call.     *)
LEMMA TypeStep == FolioTypeOK /\ CallsInv /\ [FolioNext]_folioVars => FolioTypeOK'
<1> SUFFICES ASSUME FolioTypeOK, CallsInv, [FolioNext]_folioVars PROVE FolioTypeOK'
  OBVIOUS
<1> USE DEF FolioTypeOK
<1>0. \A w \in Workers : call[w].at # "idle" => call[w].p \in Payments
  BY ActiveFields DEF GatewayTypeOK
<1>1. ASSUME NEW p \in Payments, Initiate(p) PROVE FolioTypeOK'
  BY <1>1 DEF Initiate, GatewayTypeOK, SetStatus, Statuses, Unpaid
<1>2. ASSUME NEW w \in Workers, ApplyCapture(w) PROVE FolioTypeOK'
  <2>1. call[w].at # "idle" /\ call' \in [Workers -> Calls]
    BY <1>2, AppliedType DEF ApplyCapture, Applying
  <2>2. QED
    BY <1>0, <1>2, <2>1
       DEF ApplyCapture, GatewayTypeOK, SetStatus, Statuses, Terminal, Settled
<1>3. ASSUME GatewayNext, UNCHANGED credits PROVE FolioTypeOK'
  BY <1>3, GatewayTypeStep
<1>4. CASE UNCHANGED folioVars
  BY <1>4 DEF folioVars, gatewayVars, GatewayTypeOK
<1>5. QED
  BY <1>1, <1>2, <1>3, <1>4 DEF FolioNext

(* Every step keeps what the calls in flight know. *)
LEMMA CallsInvStep == FolioTypeOK /\ CallsInv /\ [FolioNext]_folioVars => CallsInv'
<1> SUFFICES ASSUME FolioTypeOK, CallsInv, [FolioNext]_folioVars PROVE CallsInv'
  OBVIOUS
<1>type. GatewayTypeOK
  BY DEF FolioTypeOK
<1>1. ASSUME UNCHANGED <<call, paystack>> PROVE CallsInv'
  BY <1>1 DEF CallsInv, RecordersOwn, OneRecorder, AnswersHold, DecisionsMade, Recording,
     Applying, At
<1>2. ASSUME NEW p \in Payments, Initiate(p) PROVE CallsInv'
  BY <1>1, <1>2 DEF Initiate
<1>3. ASSUME NEW w \in Workers, ApplyCapture(w) PROVE CallsInv'
  BY <1>3, <1>type, AppliedStep DEF ApplyCapture, Applying
<1>4. ASSUME GatewayNext PROVE CallsInv'
  BY <1>4, <1>type, GatewayCallsStep
<1>5. CASE UNCHANGED folioVars
  BY <1>1, <1>5 DEF folioVars, gatewayVars
<1>6. QED
  BY <1>2, <1>3, <1>4, <1>5 DEF FolioNext

-----------------------------------------------------------------------------
(* The money. *)

Money == OnlyConfirmedMoneyIsCaptured /\ CreditedExactlyOnce

NeverRefunded == \A p \in Payments : status[p] # "REFUNDED"

(* A step that moves no payment into or out of CAPTURED, writes no line and *)
(* takes back no confirmation. *)
LEMMA MoneyStays ==
    ASSUME Money, UNCHANGED credits,
           \A p \in Payments :
               /\ status'[p] = "CAPTURED" <=> status[p] = "CAPTURED"
               /\ status[p] = "CAPTURED" /\ paystack[p] = "success" => paystack'[p] = "success"
    PROVE  Money'
  BY DEF Money, OnlyConfirmedMoneyIsCaptured, CreditedExactlyOnce

(* Only ApplyCapture writes a line, and only for a payment not yet CAPTURED. *)
LEMMA MoneyStep == FolioTypeOK /\ CallsInv /\ NeverRefunded /\ Money /\ [FolioNext]_folioVars => Money'
<1> SUFFICES ASSUME FolioTypeOK, CallsInv, NeverRefunded, Money, [FolioNext]_folioVars PROVE Money'
  OBVIOUS
<1>type. /\ call \in [Workers -> Calls] /\ paystack \in [Payments -> Records]
         /\ status \in [Payments -> Statuses] /\ credits \in [Payments -> Nat]
  BY DEF FolioTypeOK, GatewayTypeOK
<1>p. \A w \in Workers : call[w].at # "idle" => call[w].p \in Payments
  BY <1>type, ActiveFields
<1>kept. GatewayTypeOK /\ ConfirmedIsHeld
  BY DEF FolioTypeOK, NeverRefunded, Money, OnlyConfirmedMoneyIsCaptured, ConfirmedIsHeld, Settled
<1>1. ASSUME NEW p \in Payments, Initiate(p) PROVE Money'
  BY <1>1, <1>type, MoneyStays DEF Initiate, SetStatus
<1>2. ASSUME NEW w \in Workers, ApplyCapture(w) PROVE Money'
  <2> DEFINE q == call[w].p
  <2>1. /\ q \in Payments
        /\ paystack[q] = "success"
        /\ status[q] # "CAPTURED"
    BY <1>2, <1>p DEF ApplyCapture, CallsInv, AnswersHold, Applying, Claims, Terminal, Settled
  <2>2. credits[q] = 0
    BY <2>1 DEF Money, CreditedExactlyOnce
  <2>3. \A p \in Payments : /\ status'[p] = IF p = q THEN "CAPTURED" ELSE status[p]
                            /\ credits'[p] = IF p = q THEN 1 ELSE credits[p]
                            /\ paystack'[p] = paystack[p]
    BY <1>2, <1>type, <2>1, <2>2 DEF ApplyCapture, SetStatus
  <2>4. QED
    BY <2>1, <2>3 DEF Money, OnlyConfirmedMoneyIsCaptured, CreditedExactlyOnce
<1>3. ASSUME GatewayNext, UNCHANGED credits PROVE Money'
  <2>1. MoneyKept
    BY <1>3, <1>kept, GatewayKeepsMoney
  <2>. QED
    BY <1>3, <2>1, MoneyStays DEF MoneyKept, Settled
<1>4. CASE UNCHANGED folioVars
  BY <1>4, MoneyStays DEF folioVars, gatewayVars
<1>5. QED
  BY <1>1, <1>2, <1>3, <1>4 DEF FolioNext

-----------------------------------------------------------------------------
(* The event rows.  A verdict rests on facts no later step can take back,   *)
(* because a signed event is about a transaction that is over.              *)

Justified(p, outcome) ==
    /\ outcome = "ignored" => purging \/ paystack[p] = "failed" \/ status[p] = "CAPTURED"
    /\ outcome = "needs_review" => paystack[p] = "success" /\ TerminalUnpaid(status[p])

SignedIsOver    == \A p \in Payments : event[p].kept = "signed" => paystack[p] \in Finished
DecidedIsSigned == \A p \in Payments : event[p].outcome # "null" => event[p].kept = "signed"

(* What a call c that decides an event still knows of it. *)
Informed(c) ==
    c.op = "decide" =>
        /\ event[c.p].kept = "signed"
        /\ c.at = "ask" /\ TerminalUnpaid(c.seen) => TerminalUnpaid(status[c.p])
        /\ c.at = "write" => Justified(c.p, c.todo)

EventsInv ==
    /\ SignedIsOver
    /\ DecidedIsSigned
    /\ NeverRefunded
    /\ \A w \in Workers : Informed(call[w])
    /\ \A p \in Payments : Justified(p, event[p].outcome)

(* What no step takes back once the transaction of p is over. *)
Kept(p) ==
    /\ purging => purging'
    /\ paystack[p] \in Finished =>
          /\ paystack'[p] = paystack[p]
          /\ status[p] = "CAPTURED" => status'[p] = "CAPTURED"
          /\ TerminalUnpaid(status[p]) => TerminalUnpaid(status'[p])

(* No step takes back a capture, a terminal end or a finished record.       *)
LEMMA NothingTakenBack ==
    ASSUME FolioTypeOK, CallsInv, NeverRefunded, [FolioNext]_folioVars
    PROVE  NeverRefunded' /\ \A p \in Payments : Kept(p)
<1>type. /\ call \in [Workers -> Calls] /\ paystack \in [Payments -> Records]
         /\ status \in [Payments -> Statuses]
  BY DEF FolioTypeOK, GatewayTypeOK
<1>p. \A w \in Workers : call[w].at # "idle" => call[w].p \in Payments
  BY <1>type, ActiveFields
<1> DEFINE Goal == NeverRefunded' /\ \A p \in Payments : Kept(p)
<1> USE DEF NeverRefunded, Kept, TerminalUnpaid, LateCapture, Finished
<1>1. ASSUME NEW p \in Payments, Initiate(p) PROVE Goal
  BY <1>1, <1>type DEF Initiate, SetStatus, Terminal, Settled
<1>2. ASSUME NEW w \in Workers, ApplyCapture(w) PROVE Goal
  <2>1. ~TerminalUnpaid(status[call[w].p])
    BY <1>2 DEF ApplyCapture, Claims
  <2>2. QED
    BY <1>2, <1>type, <2>1 DEF ApplyCapture, SetStatus
<1>3. ASSUME NEW w \in Workers, OpenTransaction(w) PROVE Goal
  BY <1>3, <1>type DEF OpenTransaction
<1>4. ASSUME NEW w \in Workers, OpenFails(w) PROVE Goal
  BY <1>4, <1>type DEF OpenFails
<1>5. ASSUME NEW w \in Workers, RecordCheckout(w) PROVE Goal
  <2>1. paystack[call[w].p] = "created"
    BY <1>5 DEF RecordCheckout, CallsInv, RecordersOwn, Recording
  <2>2. QED
    BY <1>5, <1>type, <2>1 DEF RecordCheckout, SetStatus
<1>6. ASSUME NEW w \in Workers, CloseUnknown(w) PROVE Goal
  <2>1. /\ status' = [status EXCEPT ![call[w].p] =
                         IF @ \in Unpaid THEN "CANCELLED" ELSE @]
        /\ UNCHANGED <<paystack, purging>>
    BY <1>6 DEF CloseUnknown
  <2>2. QED
    BY <1>type, <2>1 DEF Unpaid, Terminal, Settled
<1>7. ASSUME NEW w \in Workers, ApplyFailure(w) PROVE Goal
  <2>1. /\ status' = [status EXCEPT ![call[w].p] =
                         IF @ \in Terminal THEN @ ELSE "FAILED"]
        /\ UNCHANGED <<paystack, purging>>
    BY <1>7 DEF ApplyFailure
  <2>2. QED
    BY <1>type, <2>1 DEF Terminal, Settled
<1>8. ASSUME NEW p \in Payments, NEW record \in Finished, Finish(p, record) PROVE Goal
  BY <1>8, <1>type DEF Finish
<1>9. ASSUME StartPurge PROVE Goal
  BY <1>9 DEF StartPurge
<1>10. ASSUME UNCHANGED <<status, paystack, purging>> PROVE Goal
  BY <1>10
<1>11. ASSUME NEW w \in Workers,
              \/ VerifyAnswered(w) \/ VerifyUnanswered(w)
              \/ DecideAnswered(w) \/ DecideUnanswered(w) \/ WriteDecision(w)
              \/ ApplyNothing(w) \/ ApplyRollsBack(w) \/ Crash(w)
       PROVE Goal
  BY <1>10, <1>11 DEF VerifyAnswered, VerifyUnanswered, DecideAnswered, DecideUnanswered,
     WriteDecision, ApplyNothing, ApplyRollsBack, Crash
<1>12. ASSUME NEW w \in Workers, NEW p \in Payments,
              StartCheckout(w, p) \/ StartVerify(w, p) \/ StartDecide(w, p)
       PROVE Goal
  BY <1>10, <1>12 DEF StartCheckout, StartVerify, StartDecide
<1>13. ASSUME NEW p \in Payments,
              DeliverSigned(p) \/ DeliverUnsigned(p) \/ GrowOld(p)
       PROVE Goal
  BY <1>10, <1>13 DEF DeliverSigned, DeliverUnsigned, GrowOld
<1>14. ASSUME UNCHANGED folioVars PROVE Goal
  BY <1>10, <1>14 DEF folioVars, gatewayVars
<1> HIDE DEF Goal
<1>15. Goal
  BY <1>1, <1>2, <1>3, <1>4, <1>5, <1>6, <1>7, <1>8, <1>9, <1>11, <1>12, <1>13, <1>14
     DEF FolioNext, GatewayNext, GatewayStep
<1>16. QED
  BY <1>15 DEF Goal

(* The event rows stay, and one call moves on knowing what it should. *)
LEMMA EventsKept ==
    ASSUME FolioTypeOK, EventsInv, NeverRefunded', \A p \in Payments : Kept(p), UNCHANGED event,
           NEW w \in Workers, \A v \in Workers \ {w} : call'[v] = call[v], Informed(call[w])'
    PROVE  EventsInv'
<1>type. /\ call \in [Workers -> Calls] /\ paystack \in [Payments -> Records]
         /\ event \in [Payments -> Events]
  BY DEF FolioTypeOK, GatewayTypeOK
<1>1. SignedIsOver' /\ DecidedIsSigned'
  BY DEF EventsInv, SignedIsOver, DecidedIsSigned, Kept
<1>2. ASSUME NEW v \in Workers, v # w PROVE Informed(call[v])'
  <2>1. call'[v] = call[v] /\ Informed(call[v])
    BY <1>type, <1>2 DEF EventsInv
  <2>2. CASE call[v].op # "decide"
    BY <2>1, <2>2 DEF Informed
  <2>3. CASE call[v].op = "decide"
    <3>1. call[v].p \in Payments /\ event[call[v].p].kept = "signed"
      BY <1>type, <2>1, <2>3, ActiveFields DEF Informed, Calls, Idle
    <3>2. paystack[call[v].p] \in Finished /\ Kept(call[v].p)
      BY <3>1 DEF EventsInv, SignedIsOver
    <3>3. Justified(call[v].p, call[v].todo) => Justified(call[v].p, call[v].todo)'
      BY <2>1, <3>1, <3>2 DEF Kept, Justified, Finished
    <3>4. TerminalUnpaid(status[call[v].p]) => TerminalUnpaid(status'[call[v].p])
      BY <3>2 DEF Kept
    <3>5. QED
      BY <2>1, <3>1, <3>3, <3>4 DEF Informed
  <2>4. QED
    BY <2>2, <2>3
<1>4. ASSUME NEW p \in Payments PROVE Justified(p, event[p].outcome)'
  <2>1. Justified(p, event[p].outcome) /\ Kept(p)
    BY DEF EventsInv
  <2>2. CASE event[p].outcome = "null"
    BY <2>2 DEF Justified
  <2>3. CASE event[p].outcome # "null"
    <3>1. paystack[p] \in Finished
      BY <2>3 DEF EventsInv, DecidedIsSigned, SignedIsOver
    <3>2. QED
      BY <2>1, <3>1 DEF Kept, Justified, Finished
  <2>4. QED
    BY <2>2, <2>3
<1>5. QED
  BY <1>1, <1>2, <1>4 DEF EventsInv

(* finalizeWebhookEvent and deferWebhookEvent: conditional on outcome NULL. *)
LEMMA DecisionWritten ==
    ASSUME FolioTypeOK, NEW w \in Workers, WriteDecision(w)
    PROVE  \A p \in Payments :
                 /\ event'[p].kept = event[p].kept
                 /\ event[p].outcome # "null" => event'[p] = event[p]
                 /\ \/ event'[p].outcome \in {event[p].outcome, "deferred_exhausted"}
                    \/ p = call[w].p /\ event'[p].outcome = call[w].todo
<1>1. call[w].p \in Payments /\ event \in [Payments -> Events] /\ event[call[w].p] \in Events
  BY ActiveFields DEF WriteDecision, At, FolioTypeOK, GatewayTypeOK
<1>2. CASE call[w].todo = "defer"
  <2>1. Defer(call[w].p, call[w].tries)
    BY <1>2 DEF WriteDecision
  <2>2. QED
    BY <1>1, <2>1 DEF Defer, Finalize, Events
<1>3. CASE call[w].todo # "defer"
  <2>1. Finalize(call[w].p, call[w].todo)
    BY <1>3 DEF WriteDecision
  <2>2. QED
    BY <1>1, <2>1 DEF Finalize, Events
<1>4. QED
  BY <1>2, <1>3

(* Every step keeps the event rows and the verdicts in flight justified.    *)
LEMMA EventsInvStep ==
    ASSUME FolioTypeOK, CallsInv, EventsInv, FolioTypeOK', [FolioNext]_folioVars
    PROVE  EventsInv'
<1>kept. NeverRefunded' /\ \A p \in Payments : Kept(p)
  BY NothingTakenBack DEF EventsInv
<1>type. /\ call \in [Workers -> Calls] /\ paystack \in [Payments -> Records]
         /\ event \in [Payments -> Events] /\ status \in [Payments -> Statuses]
         /\ call' \in [Workers -> Calls]
         /\ GatewayTypeOK
  BY DEF FolioTypeOK, GatewayTypeOK
<1>p. \A w \in Workers : call[w].at # "idle" => call[w].p \in Payments
  BY <1>type, ActiveFields
(* Calls that write no event: it is enough that the caller is informed. *)
<1>return. ASSUME NEW w \in Workers, Return(w), UNCHANGED event PROVE EventsInv'
  <2>1. call'[w] = Idle /\ \A v \in Workers \ {w} : call'[v] = call[v]
    BY <1>return, <1>type DEF Return
  <2>2. Informed(call[w])'
    BY <2>1 DEF Informed, Idle
  <2>3. QED
    BY <1>return, <1>kept, <2>1, <2>2, EventsKept
<1>goto. ASSUME NEW w \in Workers, call[w].at # "idle", NEW at \in Ats, NEW todo \in Todos,
                Goto(w, at, todo), UNCHANGED event,
                call[w].op = "decide" => at # "ask" /\ (at = "write" => Justified(call[w].p, todo))
         PROVE  EventsInv'
  <2> DEFINE c == Moved(call[w], at, todo)
  <2>1. /\ call' = [call EXCEPT ![w] = c]
        /\ c.op = call[w].op /\ c.p = call[w].p /\ c.at = at /\ c.todo = todo
    BY <1>goto, <1>type, GotoShape
  <2> HIDE DEF c
  <2>2. call'[w] = c /\ \A v \in Workers \ {w} : call'[v] = call[v]
    BY <1>type, <2>1
  <2>3. CASE call[w].op # "decide"
    <3>1. Informed(call[w])'
      BY <2>1, <2>2, <2>3 DEF Informed
    <3>2. QED
      BY <1>goto, <1>kept, <2>2, <3>1, EventsKept
  <2>4. CASE call[w].op = "decide"
    <3>1. call[w].p \in Payments /\ event[call[w].p].kept = "signed"
      BY <1>goto, <1>p, <2>4 DEF EventsInv, Informed
    <3>2. paystack[call[w].p] \in Finished /\ Kept(call[w].p)
      BY <3>1, <1>kept DEF EventsInv, SignedIsOver
    <3>3. at = "write" => Justified(call[w].p, todo)
      BY <1>goto, <2>4
    <3>4. Informed(call[w])'
      BY <1>goto, <2>1, <2>2, <2>4, <3>1, <3>2, <3>3 DEF Informed, Justified, Kept, Finished
    <3>5. QED
      BY <1>goto, <1>kept, <2>2, <3>4, EventsKept
  <2>5. QED
    BY <2>3, <2>4
<1>applied. ASSUME NEW w \in Workers, call[w].at # "idle", Applied(w), UNCHANGED event
            PROVE  EventsInv'
  BY <1>applied, <1>return, <1>goto DEF Applied, Ats, Todos, Outcomes, Justified
<1>start. ASSUME NEW w \in Workers, NEW p \in Payments, NEW op, NEW at, NEW tries, NEW todo,
                 Start(w, op, at, p, tries, todo), UNCHANGED <<event, status, paystack, purging>>,
                 op = "decide" => /\ event[p].kept = "signed"
                                  /\ at = "write" => Justified(p, todo)
          PROVE  EventsInv'
  <2>1. /\ call'[w] = [op |-> op, at |-> at, p |-> p, seen |-> status[p],
                       tries |-> tries, todo |-> todo]
        /\ \A v \in Workers \ {w} : call'[v] = call[v]
    BY <1>start, <1>type DEF Start
  <2>2. Informed(call[w])'
    BY <1>start, <2>1 DEF Informed, Justified
  <2>3. QED
    BY <1>start, <1>kept, <2>1, <2>2, EventsKept
(* Steps of no call that write no event. *)
<1>world. ASSUME UNCHANGED <<call, event>> PROVE EventsInv'
  <2>1. Sweeper \in Workers
    BY SweeperAssumption
  <2>2. CASE call[Sweeper].op # "decide"
    <3>1. Informed(call[Sweeper])'
      BY <1>world, <2>2 DEF Informed
    <3>2. QED
      BY <1>world, <1>kept, <2>1, <3>1, EventsKept
  <2>3. CASE call[Sweeper].op = "decide"
    <3>1. /\ Informed(call[Sweeper]) /\ event[call[Sweeper].p].kept = "signed"
          /\ call[Sweeper].p \in Payments
      BY <1>type, <2>1, <2>3, ActiveFields DEF EventsInv, Informed, Calls, Idle
    <3>2. paystack[call[Sweeper].p] \in Finished /\ Kept(call[Sweeper].p)
      BY <1>kept, <3>1 DEF EventsInv, SignedIsOver
    <3>3. Informed(call[Sweeper])'
      BY <1>world, <3>1, <3>2 DEF Informed, Justified, Kept, Finished
    <3>4. QED
      BY <1>world, <1>kept, <2>1, <3>3, EventsKept
  <2>4. QED
    BY <2>2, <2>3
<1>1. ASSUME NEW p \in Payments, Initiate(p) PROVE EventsInv'
  BY <1>1, <1>world DEF Initiate
<1>2. ASSUME NEW w \in Workers, ApplyCapture(w) PROVE EventsInv'
  BY <1>2, <1>applied DEF ApplyCapture, Applying
<1>3. ASSUME NEW w \in Workers, OpenTransaction(w) PROVE EventsInv'
  BY <1>3, <1>goto DEF OpenTransaction, At, Ats, Todos
<1>4. ASSUME NEW w \in Workers, OpenFails(w) PROVE EventsInv'
  BY <1>4, <1>return DEF OpenFails
<1>5. ASSUME NEW w \in Workers, RecordCheckout(w) PROVE EventsInv'
  BY <1>5, <1>return DEF RecordCheckout
<1>6. ASSUME NEW w \in Workers, VerifyAnswered(w) PROVE EventsInv'
  BY <1>6, <1>goto, <1>return DEF VerifyAnswered, At, Ats, Todos
<1>7. ASSUME NEW w \in Workers, VerifyUnanswered(w) PROVE EventsInv'
  BY <1>7, <1>goto, <1>return DEF VerifyUnanswered, At, Ats, Todos
<1>8. ASSUME NEW w \in Workers, CloseUnknown(w) PROVE EventsInv'
  BY <1>8, <1>return DEF CloseUnknown
<1>9. ASSUME NEW w \in Workers, DecideAnswered(w) PROVE EventsInv'
  <2> DEFINE record  == paystack[call[w].p]
             verdict == Verdict(record, call[w].seen)
  <2>1. /\ call[w].at = "ask" /\ call[w].op = "decide" /\ call[w].p \in Payments
        /\ Informed(call[w])
    BY <1>9, <1>p DEF DecideAnswered, At, EventsInv
  <2>2. record \in Finished /\ (TerminalUnpaid(call[w].seen) => TerminalUnpaid(status[call[w].p]))
    BY <2>1 DEF Informed, EventsInv, SignedIsOver
  <2>3. /\ verdict \in {"rejected", "ignored", "defer", "failed", "needs_review", "success"}
        /\ verdict = "ignored" => record = "failed"
        /\ verdict = "needs_review" => record = "success" /\ TerminalUnpaid(call[w].seen)
    BY <2>2 DEF Verdict, Finished
  <2>4. Justified(call[w].p, verdict)
    BY <2>2, <2>3 DEF Justified
  <2>5. /\ Goto(w, IF verdict \in {"success", "failed"} THEN "apply" ELSE "write", verdict)
        /\ UNCHANGED event
    BY <1>9 DEF DecideAnswered
  <2>6. /\ call[w].at # "idle" /\ verdict \in Todos
        /\ (IF verdict \in {"success", "failed"} THEN "apply" ELSE "write") \in Ats \ {"ask"}
    BY <2>1, <2>3 DEF Ats, Todos, Outcomes
  <2> HIDE DEF verdict, record
  <2>7. QED
    BY <2>4, <2>5, <2>6, <1>goto
<1>10. ASSUME NEW w \in Workers, DecideUnanswered(w) PROVE EventsInv'
  BY <1>10, <1>goto DEF DecideUnanswered, At, Ats, Todos, Outcomes, Justified
<1>11. ASSUME NEW w \in Workers, WriteDecision(w) PROVE EventsInv'
  <2>1. /\ At(w, "decide", "write") /\ call[w].p \in Payments /\ Informed(call[w])
        /\ UNCHANGED <<status, paystack, purging>>
        /\ \A v \in Workers : call'[v] = IF v = w THEN Idle ELSE call[v]
    BY <1>11, <1>type, <1>p DEF WriteDecision, At, EventsInv, Return
  <2>2. \A p \in Payments :
           /\ event'[p].kept = event[p].kept
           /\ event[p].outcome # "null" => event'[p] = event[p]
           /\ \/ event'[p].outcome \in {event[p].outcome, "deferred_exhausted"}
              \/ p = call[w].p /\ event'[p].outcome = call[w].todo
    BY <1>11, DecisionWritten
  <2>3. SignedIsOver' /\ NeverRefunded'
    BY <1>kept, <2>1, <2>2 DEF EventsInv, SignedIsOver
  <2>4. event[call[w].p].kept = "signed"
    BY <2>1 DEF Informed, At
  <2>5. /\ \A p \in Payments : event'[p].outcome # "null" =>
              \/ event[p].outcome # "null" \/ p = call[w].p
              \/ event'[p].outcome = "deferred_exhausted"
        /\ \A p \in Payments \ {call[w].p} : event'[p] = event[p]
    BY <1>11, <1>type, <2>1, <2>2 DEF WriteDecision, Defer, Finalize
  <2>6. DecidedIsSigned'
    BY <2>2, <2>4, <2>5 DEF EventsInv, DecidedIsSigned
  <2>7. ASSUME NEW v \in Workers PROVE Informed(call[v])'
    <3>1. CASE v = w
      BY <2>1, <3>1 DEF Informed, Idle
    <3>2. CASE v # w
      <4>1. Informed(call[v]) /\ call'[v] = call[v]
        BY <2>1, <3>2 DEF EventsInv
      <4>2. call[v].op = "decide" => call[v].p \in Payments
        BY <1>type, ActiveFields DEF Calls, Idle
      <4>3. QED
        BY <2>1, <2>2, <4>1, <4>2 DEF Informed, Justified
    <3>3. QED
      BY <3>1, <3>2
  <2>8. ASSUME NEW p \in Payments PROVE Justified(p, event[p].outcome)'
    BY <2>1, <2>2 DEF EventsInv, Informed, At, Justified
  <2>9. QED
    BY <2>3, <2>6, <2>7, <2>8 DEF EventsInv
<1>12. ASSUME NEW w \in Workers, ApplyNothing(w) PROVE EventsInv'
  BY <1>12, <1>applied DEF ApplyNothing, Applying
<1>13. ASSUME NEW w \in Workers, ApplyFailure(w) PROVE EventsInv'
  BY <1>13, <1>applied DEF ApplyFailure, Applying
<1>14. ASSUME NEW w \in Workers, ApplyRollsBack(w) PROVE EventsInv'
  BY <1>14, <1>goto, <1>return DEF ApplyRollsBack, Ats, Todos, Justified
<1>15. ASSUME NEW w \in Workers, Crash(w) PROVE EventsInv'
  BY <1>15, <1>return DEF Crash
<1>16. ASSUME NEW w \in Workers, NEW p \in Payments, StartCheckout(w, p) PROVE EventsInv'
  BY <1>16, <1>start DEF StartCheckout
<1>17. ASSUME NEW w \in Workers, NEW p \in Payments, StartVerify(w, p) PROVE EventsInv'
  BY <1>17, <1>start DEF StartVerify
<1>18. ASSUME NEW w \in Workers, NEW p \in Payments, StartDecide(w, p) PROVE EventsInv'
  <2>1. IgnoredUnread(p) => Justified(p, "ignored")
    BY DEF IgnoredUnread, Justified, Settled, EventsInv, NeverRefunded
  <2>2. QED
    BY <1>18, <1>start, <2>1 DEF StartDecide
<1>19. ASSUME NEW p \in Payments, DeliverSigned(p) \/ DeliverUnsigned(p) PROVE EventsInv'
  <2>1. /\ UNCHANGED <<status, paystack, purging, call>>
        /\ \A q \in Payments \ {p} : event'[q] = event[q]
        /\ event'[p].outcome = event[p].outcome
        /\ event[p].kept # "signed"
        /\ event'[p].kept = "signed" => paystack[p] \in Finished
    BY <1>19, <1>type DEF DeliverSigned, DeliverUnsigned, Events
  <2>2. SignedIsOver' /\ DecidedIsSigned' /\ NeverRefunded'
    BY <2>1 DEF EventsInv, SignedIsOver, DecidedIsSigned, NeverRefunded
  <2>3. ASSUME NEW v \in Workers PROVE Informed(call[v])'
    <3>1. call[v].op = "decide" => call[v].p \in Payments \ {p}
      BY <1>type, <2>1, ActiveFields DEF Calls, Idle, EventsInv, Informed
    <3>2. QED
      BY <2>1, <3>1 DEF EventsInv, Informed, Justified
  <2>4. ASSUME NEW q \in Payments PROVE Justified(q, event[q].outcome)'
    BY <2>1 DEF EventsInv, Justified
  <2>5. QED
    BY <2>2, <2>3, <2>4 DEF EventsInv
<1>20. ASSUME NEW p \in Payments, NEW record \in Finished, Finish(p, record) PROVE EventsInv'
  BY <1>20, <1>world DEF Finish
<1>21. ASSUME NEW p \in Payments, GrowOld(p) PROVE EventsInv'
  BY <1>21, <1>world DEF GrowOld
<1>22. ASSUME StartPurge \/ UNCHANGED folioVars PROVE EventsInv'
  BY <1>22, <1>world DEF StartPurge, folioVars, gatewayVars
<1>23. QED
  BY <1>1, <1>2, <1>3, <1>4, <1>5, <1>6, <1>7, <1>8, <1>9, <1>10, <1>11, <1>12, <1>13, <1>14,
     <1>15, <1>16, <1>17, <1>18, <1>19, <1>20, <1>21, <1>22
     DEF FolioNext, GatewayNext, GatewayStep

-----------------------------------------------------------------------------
(* The theorems. *)

FolioInv == FolioTypeOK /\ CallsInv /\ Money /\ EventsInv

(* Before the first request there is no row, no call and no event.          *)
LEMMA InitInv == FolioInit => FolioInv
<1> SUFFICES ASSUME FolioInit PROVE FolioInv
  OBVIOUS
<1>1. FolioTypeOK
  <2>1. NoEvent \in Events
    BY AttemptsAssumption DEF NoEvent, Events
  <2>2. Idle \in Calls /\ "none" \in Statuses /\ "unknown" \in Records
    BY DEF Calls, Statuses, Records
  <2>3. 0 \in 0..MaxCrashes /\ 0 \in Nat /\ FALSE \in BOOLEAN
    BY CrashesAssumption
  <2>4. /\ status \in [Payments -> Statuses] /\ paystack \in [Payments -> Records]
        /\ event \in [Payments -> Events] /\ call \in [Workers -> Calls]
    BY <2>1, <2>2 DEF FolioInit, GatewayInit
  <2>5. QED
    BY <2>3, <2>4 DEF FolioInit, GatewayInit, FolioTypeOK, GatewayTypeOK
<1>2. CallsInv
  BY DEF FolioInit, GatewayInit, CallsInv, RecordersOwn, OneRecorder, AnswersHold, DecisionsMade,
     Recording, Applying, At, Idle
<1>3. Money
  BY DEF FolioInit, GatewayInit, Money, OnlyConfirmedMoneyIsCaptured, CreditedExactlyOnce
<1>4. EventsInv
  BY DEF FolioInit, GatewayInit, EventsInv, SignedIsOver, DecidedIsSigned, NeverRefunded, Informed,
     Justified, NoEvent, Idle
<1>5. QED
  BY <1>1, <1>2, <1>3, <1>4 DEF FolioInv

(* The inductive invariant holds throughout.                                *)
LEMMA Inductive == FolioSpec => []FolioInv
<1>1. EventsInv => NeverRefunded
  BY DEF EventsInv
<1>2. FolioInv /\ [FolioNext]_folioVars => FolioInv'
  BY <1>1, TypeStep, CallsInvStep, MoneyStep, EventsInvStep DEF FolioInv
<1>3. QED
  BY <1>2, InitInv, PTL DEF FolioSpec

(* The rows, Paystack's records, the events and the calls keep to their     *)
(* types: an attempt count never passes MAX_ATTEMPTS.                       *)
THEOREM PaymentTypes == FolioSpec => []FolioTypeOK
<1>1. FolioInv => FolioTypeOK
  BY DEF FolioInv
<1>2. QED
  BY <1>1, Inductive, PTL

(* A payment's folio line exists exactly when the payment is CAPTURED, and  *)
(* once: however many webhook, sweep and verify calls race to apply the     *)
(* capture, crash and retry, applyGatewayResult credits the folio once.     *)
THEOREM CreditedOnce == FolioSpec => []CreditedExactlyOnce
<1>1. FolioInv => CreditedExactlyOnce
  BY DEF FolioInv, Money
<1>2. QED
  BY <1>1, Inductive, PTL

(* A payment is CAPTURED only if Paystack's record says it was paid, though *)
(* the record is read with no transaction open and applied later.           *)
THEOREM OnlyConfirmed == FolioSpec => []OnlyConfirmedMoneyIsCaptured
<1>1. FolioInv => OnlyConfirmedMoneyIsCaptured
  BY DEF FolioInv, Money
<1>2. QED
  BY <1>1, Inductive, PTL

(* An event is finalized 'ignored' only if it says nothing new: unless the  *)
(* tenant is being purged, confirmed money is in the ledger, and stays.     *)
THEOREM IgnoredIsRecorded == FolioSpec => []IgnoredMoneyIsRecorded
<1>1. FolioInv => IgnoredMoneyIsRecorded
  BY DEF FolioInv, EventsInv, Justified, IgnoredMoneyIsRecorded
<1>2. QED
  BY <1>1, Inductive, PTL

(* 'needs_review' is exactly money Paystack holds for a payment that ended  *)
(* locally, and no later call of any kind captures it or reopens it.        *)
THEOREM ReviewedIsUnrecorded == FolioSpec => []ReviewedMoneyIsUnrecorded
<1>1. FolioInv => ReviewedMoneyIsUnrecorded
  <2>1. \A s : TerminalUnpaid(s) => s \in {"FAILED", "CANCELLED"}
    BY DEF TerminalUnpaid, Terminal
  <2>2. QED
    BY <2>1 DEF FolioInv, EventsInv, Justified, ReviewedMoneyIsUnrecorded
<1>2. QED
  BY <1>1, Inductive, PTL

(* A decided payment_webhook_events row never changes again, however many   *)
(* processors still hold it: finalize and defer ask for outcome IS NULL.    *)
THEOREM DecisionsStand == FolioSpec => DecisionIsFinal
<1> DEFINE Stands == \A p \in Payments : event[p].outcome # "null" => event'[p] = event[p]
<1>1. FolioInv /\ [FolioNext]_folioVars => [Stands]_folioVars
  <2> SUFFICES ASSUME FolioInv, FolioNext PROVE Stands
    OBVIOUS
  <2>type. event \in [Payments -> Events]
    BY DEF FolioInv, FolioTypeOK, GatewayTypeOK
  <2>1. CASE UNCHANGED event
    BY <2>1
  <2>2. ASSUME NEW w \in Workers, WriteDecision(w) PROVE Stands
    BY <2>2, DecisionWritten DEF FolioInv
  <2>3. ASSUME NEW p \in Payments, DeliverSigned(p) \/ DeliverUnsigned(p) PROVE Stands
    <3>1. event[p].kept # "signed" /\ \A q \in Payments \ {p} : event'[q] = event[q]
      BY <2>3, <2>type DEF DeliverSigned, DeliverUnsigned
    <3>2. event[p].outcome = "null"
      BY <3>1 DEF FolioInv, EventsInv, DecidedIsSigned
    <3>3. QED
      BY <3>1, <3>2
  <2> HIDE DEF Stands
  <2>4. ASSUME NEW w \in Workers, GatewayStep(w) PROVE Stands
    BY <2>1, <2>2, <2>4 DEF GatewayStep, OpenTransaction, OpenFails, RecordCheckout,
       VerifyAnswered, VerifyUnanswered, CloseUnknown, DecideAnswered, DecideUnanswered,
       ApplyNothing, ApplyFailure
  <2>5. QED
    BY <2>1, <2>3, <2>4 DEF FolioNext, GatewayNext, Initiate, ApplyCapture, ApplyRollsBack, Crash,
       StartCheckout, StartVerify, StartDecide, Finish, GrowOld, StartPurge
<1>2. QED
  BY <1>1, Inductive, PTL DEF FolioSpec, DecisionIsFinal

(* What applyGatewayResult and decidePaymentWebhookEvent decided is true of *)
(* the money, for any number of payments and processes.                     *)
THEOREM DecisionsTrue == FolioSpec => []DecisionsAreTruthful
BY OnlyConfirmed, IgnoredIsRecorded, ReviewedIsUnrecorded, PTL DEF DecisionsAreTruthful

-----------------------------------------------------------------------------
(* GuestOrderPayment. *)

Committing(w) == call[w].at = "commit"

CommitsInv ==
    /\ \A v, w \in Workers :
          Committing(v) /\ Committing(w) /\ call[v].p = call[w].p => v = w
    /\ \A w \in Workers : Committing(w) => tab[call[w].p] = "open"

(* The sale of a payment agrees with its tab, its row and what is shown.     *)
Agree(t, s, st, shown) ==
    /\ t # "settled" => s.card = 0 /\ s.other = 0
    /\ t = "settled" /\ st # "REFUNDED" => s.card + s.other = 1
    /\ s.card + s.other <= 1
    /\ s.card = 1 => st = "CAPTURED"
    /\ shown = "paid" <=> (st = "CAPTURED" /\ s.card = 1)

SaleRight(p) == Agree(tab[p], sales[p], status[p], paid[p])

OrderInv ==
    /\ OrderTypeOK
    /\ CallsInv
    /\ ConfirmedIsHeld
    /\ CommitsInv
    /\ \A p \in Payments : SaleRight(p)

-----------------------------------------------------------------------------
(* Types. *)

(* A capture keeps every state of OrderTypeOK. *)
LEMMA CaptureTypes ==
  ASSUME OrderTypeOK, NEW w \in Workers, Capture(w)
  PROVE  OrderTypeOK'
<1>1. /\ GatewayTypeOK /\ call[w].at # "idle" /\ call[w].p \in Payments
  <2>1. GatewayTypeOK /\ call[w].at # "idle"
    BY DEF OrderTypeOK, Capture, CaptureOnClosedTab, CaptureOfRejected, CaptureBegins, CaptureCommits,
       Applying
  <2>. QED
    BY <2>1, ActiveFields DEF GatewayTypeOK
<1>2. call' \in [Workers -> Calls]
  BY <1>1, AppliedType, GotoType DEF Capture, CaptureOnClosedTab, CaptureOfRejected,
     CaptureBegins, CaptureCommits, Ats, Todos
<1>3. /\ status' \in [Payments -> Statuses]
      /\ UNCHANGED <<old, paystack, event, purging, crashes>>
  BY <1>1 DEF Capture, CaptureOnClosedTab, CaptureOfRejected, CaptureBegins, CaptureCommits,
     SetStatus, GatewayTypeOK, Statuses, Terminal, Settled
<1>4. GatewayTypeOK'
  BY <1>1, <1>2, <1>3 DEF GatewayTypeOK
<1>5. CASE CaptureCommits(w)
  BY <1>1, <1>4, <1>5 DEF OrderTypeOK, CaptureCommits, PaidStates
<1>6. CASE UNCHANGED tabVars
  BY <1>4, <1>6 DEF OrderTypeOK, tabVars
<1>. QED
  BY <1>5, <1>6 DEF Capture, CaptureOnClosedTab, CaptureOfRejected, CaptureBegins

(* The operations of guests and staff on one order. *)
OrderAction(p) == PlaceOrder(p) \/ Accept(p) \/ Rejection(p) \/ StaffVoid(p) \/ StaffSettle(p)

(* They keep every state of OrderTypeOK too. *)
LEMMA OrderTypes ==
  ASSUME OrderTypeOK, NEW p \in Payments, OrderAction(p)
  PROVE  OrderTypeOK'
<1> USE DEF OrderTypeOK, PaidStates
<1>1. /\ status' \in [Payments -> Statuses] /\ crashes' \in 0..MaxCrashes
      /\ UNCHANGED <<old, paystack, event, purging, call>>
  <2>1. CASE PlaceOrder(p)
    BY <2>1 DEF PlaceOrder, SetStatus, GatewayTypeOK, Statuses, Unpaid
  <2>2. CASE RejectCancels(p)
    BY <2>2 DEF RejectCancels, GatewayTypeOK, Statuses, Terminal
  <2>3. CASE RejectRefunds(p)
    BY <2>3 DEF RejectRefunds, SetStatus, GatewayTypeOK, Statuses, Terminal, Settled
  <2>4. CASE RejectDies(p)
    BY <2>4, CrashesAssumption DEF RejectDies, GatewayTypeOK
  <2>5. CASE UNCHANGED gatewayVars
    BY <2>5 DEF gatewayVars, GatewayTypeOK
  <2>. QED
    BY <2>1, <2>2, <2>3, <2>4, <2>5 DEF OrderAction, Rejection, Accept, StaffVoid, StaffSettle,
       RejectReads, RejectFlips, RejectVoids, RejectReversesNothing
<1>2. GatewayTypeOK'
  BY <1>1 DEF GatewayTypeOK
<1>3. ASSUME PlaceOrder(p) \/ Accept(p) \/ StaffVoid(p) PROVE OrderTypeOK'
  BY <1>2, <1>3 DEF PlaceOrder, Accept, StaffVoid
<1>4. ASSUME StaffSettle(p) PROVE OrderTypeOK'
  BY <1>2, <1>4 DEF StaffSettle
<1>5. ASSUME RejectReads(p) \/ RejectFlips(p) \/ RejectCancels(p) PROVE OrderTypeOK'
  BY <1>2, <1>5 DEF RejectReads, RejectFlips, RejectCancels
<1>6. ASSUME RejectVoids(p) PROVE OrderTypeOK'
  BY <1>2, <1>6 DEF RejectVoids
<1>7. ASSUME RejectRefunds(p) PROVE OrderTypeOK'
  <2>1. sales' \in [Payments -> [card : Nat, other : Nat]]
    <3>1. sales \in [Payments -> [card : Nat, other : Nat]]
      OBVIOUS
    <3>2. [sales[p] EXCEPT !.card = 0] \in [card : Nat, other : Nat]
      BY <3>1
    <3>3. sales' = [sales EXCEPT ![p].card = 0] \/ sales' = sales
      BY <1>7 DEF RejectRefunds
    <3>. QED
      BY <3>1, <3>2, <3>3
  <2>2. /\ paid' \in [Payments -> PaidStates]
        /\ reject' \in [Payments -> {"idle", "flip", "cancel", "void", "reverse"}]
        /\ UNCHANGED <<tab, order, saw>>
    BY <1>7 DEF RejectRefunds
  <2>. QED
    BY <1>2, <2>1, <2>2
<1>8. ASSUME RejectReversesNothing(p) \/ RejectDies(p) PROVE OrderTypeOK'
  BY <1>2, <1>8 DEF RejectReversesNothing, RejectDies
<1>. QED
  BY <1>3, <1>4, <1>5, <1>6, <1>7, <1>8 DEF OrderAction, Rejection

(* So does every step. *)
LEMMA TypesStep ==
  ASSUME OrderTypeOK, CallsInv, [OrderNext]_orderVars
  PROVE  OrderTypeOK'
<1>1. ASSUME GatewayNext, UNCHANGED tabVars PROVE OrderTypeOK'
  BY <1>1, GatewayTypeStep DEF OrderTypeOK, tabVars
<1>2. CASE UNCHANGED orderVars
  BY <1>2 DEF OrderTypeOK, GatewayTypeOK, orderVars, gatewayVars, tabVars
<1>. QED
  BY <1>1, <1>2, CaptureTypes, OrderTypes DEF OrderNext, OrderAction

-----------------------------------------------------------------------------
(* What the calls in flight know, and Paystack's money. *)

(* A capture goes on only from Paystack's word. *)
LEMMA CaptureKnows ==
  ASSUME OrderTypeOK, CallsInv, NEW w \in Workers, Capture(w)
  PROVE  /\ CallsInv'
         /\ call[w].at # "idle" /\ call[w].p \in Payments
         /\ paystack[call[w].p] = "success" /\ UNCHANGED paystack
<1>1. GatewayTypeOK /\ call[w].at # "idle" /\ UNCHANGED paystack
  BY DEF OrderTypeOK, Capture, CaptureOnClosedTab, CaptureOfRejected, CaptureBegins, CaptureCommits,
     Applying
<1>2. call[w].p \in Payments
  BY <1>1, ActiveFields DEF GatewayTypeOK
<1>3. paystack[call[w].p] = "success"
  BY DEF CallsInv, AnswersHold, Capture, CaptureOnClosedTab, CaptureOfRejected, CaptureBegins,
     CaptureCommits
<1>4. ASSUME Applied(w) PROVE CallsInv'
  BY <1>1, <1>4, AppliedStep
<1>5. ASSUME Goto(w, "commit", "success") PROVE CallsInv'
  BY <1>1, <1>3, <1>5, GotoStep DEF Ats, Todos
<1>. QED
  BY <1>1, <1>2, <1>3, <1>4, <1>5 DEF Capture, CaptureOnClosedTab, CaptureOfRejected,
     CaptureBegins, CaptureCommits

(* Guests and staff neither call Paystack nor know what it said.             *)
LEMMA OrderLeavesCalls ==
  ASSUME NEW p \in Payments, OrderAction(p)
  PROVE  UNCHANGED <<call, paystack>>
  BY DEF OrderAction, Rejection, PlaceOrder, Accept, StaffVoid, StaffSettle, RejectReads,
     RejectFlips, RejectCancels, RejectVoids, RejectRefunds, RejectReversesNothing, RejectDies,
     gatewayVars

(* Every step keeps what the calls in flight know. *)
LEMMA CallsStep ==
  ASSUME OrderTypeOK, CallsInv, [OrderNext]_orderVars
  PROVE  CallsInv'
<1>1. ASSUME UNCHANGED <<call, paystack>> PROVE CallsInv'
  BY <1>1 DEF CallsInv, RecordersOwn, OneRecorder, AnswersHold, DecisionsMade, Recording,
     Applying, At
<1>2. ASSUME GatewayNext PROVE CallsInv'
  BY <1>2, GatewayCallsStep DEF OrderTypeOK
<1>3. CASE UNCHANGED orderVars
  BY <1>1, <1>3 DEF orderVars, gatewayVars
<1>. QED
  BY <1>1, <1>2, <1>3, CaptureKnows, OrderLeavesCalls DEF OrderNext, OrderAction

-----------------------------------------------------------------------------
(* Captures under way. *)

(* It is enough that no capture begins and no tab under one closes. *)
LEMMA CommitsKept ==
  ASSUME CommitsInv, NoNewCommit,
         \A w \in Workers : Committing(w)' => tab'[call[w].p] = "open"
  PROVE  CommitsInv'
  BY DEF CommitsInv, NoNewCommit, Committing

(* Whoever opens or closes a tab finds nobody about to commit on it. *)
LEMMA OrderCommits ==
  ASSUME OrderTypeOK, CommitsInv, NEW p \in Payments, OrderAction(p)
  PROVE  CommitsInv'
<1>1. UNCHANGED call
  BY OrderLeavesCalls
<1>2. NoNewCommit
  BY <1>1 DEF NoNewCommit
<1>3. \/ UNCHANGED tab
      \/ /\ tab[p] = "none" \/ Free(p)
         /\ \A q \in Payments \ {p} : tab'[q] = tab[q]
  BY DEF OrderAction, Rejection, PlaceOrder, Accept, StaffVoid, StaffSettle, RejectReads,
     RejectFlips, RejectCancels, RejectVoids, RejectRefunds, RejectReversesNothing, RejectDies,
     OrderTypeOK
<1>4. \A w \in Workers : Committing(w) => call[w].p \in Payments
  BY ActiveFields DEF Committing, OrderTypeOK, GatewayTypeOK
<1>5. \A w \in Workers : Committing(w) => tab'[call[w].p] = "open"
  BY <1>3, <1>4 DEF CommitsInv, Committing, Free
<1>. QED
  BY <1>1, <1>2, <1>5, CommitsKept DEF Committing

(* A capture begins when no other is under way, and commits alone. *)
LEMMA CaptureCommitsKept ==
  ASSUME OrderTypeOK, CallsInv, CommitsInv, NEW w \in Workers, Capture(w)
  PROVE  CommitsInv'
<1>type. GatewayTypeOK /\ call \in [Workers -> Calls] /\ call[w].at # "idle" /\ call[w].p \in Payments
  BY CaptureKnows DEF OrderTypeOK, GatewayTypeOK
<1>p. \A v \in Workers : Committing(v) => call[v].p \in Payments
  BY <1>type, ActiveFields DEF Committing
<1>1. CASE CaptureOnClosedTab(w) \/ CaptureOfRejected(w)
  <2>1. NoNewCommit
    BY <1>1, <1>type, AppliedNoCommit DEF CaptureOnClosedTab, CaptureOfRejected
  <2>2. UNCHANGED tab
    BY <1>1 DEF CaptureOnClosedTab, CaptureOfRejected, tabVars
  <2>. QED
    BY <2>1, <2>2, CommitsKept DEF NoNewCommit, Committing, CommitsInv
<1>2. CASE CaptureBegins(w)
  <2>1. /\ Free(call[w].p) /\ tab[call[w].p] = "open" /\ UNCHANGED tab
        /\ Goto(w, "commit", "success")
    BY <1>2 DEF CaptureBegins, tabVars
  <2>2. /\ call' = [call EXCEPT ![w] = Moved(call[w], "commit", "success")]
        /\ Moved(call[w], "commit", "success").p = call[w].p
    BY <1>type, <2>1, GotoShape DEF Ats, Todos
  <2>3. \A v \in Workers : call'[v].p = call[v].p /\ (v # w => call'[v] = call[v])
    BY <1>type, <2>2
  <2>. QED
    BY <2>1, <2>3 DEF CommitsInv, Committing, Free
<1>3. CASE CaptureCommits(w)
  <2>1. Committing(w) /\ tab' = [tab EXCEPT ![call[w].p] = "settled"] /\ Applied(w)
    BY <1>3 DEF CaptureCommits, Committing
  <2>2. NoNewCommit
    BY <1>type, <2>1, AppliedNoCommit
  <2>3. call'[w].at # "commit"
    <3>1. CASE Return(w)
      BY <1>type, <3>1 DEF Return, Idle
    <3>2. CASE Goto(w, "write", "applied")
      <4>1. /\ call' = [call EXCEPT ![w] = Moved(call[w], "write", "applied")]
            /\ Moved(call[w], "write", "applied").at = "write"
        BY <1>type, <3>2, GotoShape DEF Ats, Todos, Outcomes
      <4>. QED
        BY <1>type, <4>1
    <3>. QED
      BY <2>1, <3>1, <3>2 DEF Applied
  <2>4. \A v \in Workers : Committing(v)' =>
           v # w /\ Committing(v) /\ call[v].p # call[w].p /\ call[v].p \in Payments
    BY <1>p, <2>1, <2>2, <2>3 DEF NoNewCommit, Committing, CommitsInv
  <2>5. \A v \in Workers : Committing(v)' => tab'[call[v].p] = "open"
    BY <2>1, <2>4 DEF CommitsInv, OrderTypeOK
  <2>. QED
    BY <2>2, <2>5, CommitsKept
<1>. QED
  BY <1>1, <1>2, <1>3 DEF Capture

(* So of every step. *)
LEMMA CommitsStep ==
  ASSUME OrderTypeOK, CallsInv, CommitsInv, [OrderNext]_orderVars
  PROVE  CommitsInv'
<1>1. ASSUME GatewayNext, UNCHANGED tabVars PROVE CommitsInv'
  BY <1>1, GatewayNeverClaims, CommitsKept
     DEF OrderTypeOK, tabVars, NoNewCommit, Committing, CommitsInv
<1>2. CASE UNCHANGED orderVars
  BY <1>2 DEF orderVars, gatewayVars, tabVars, CommitsInv, Committing
<1>. QED
  BY <1>1, <1>2, OrderCommits, CaptureCommitsKept DEF OrderNext, OrderAction

-----------------------------------------------------------------------------
(* Sales. *)

Sound == ConfirmedIsHeld /\ \A p \in Payments : SaleRight(p)

(* A capture claims a payment that is not captured or refunded. *)
LEMMA CaptureSales ==
  ASSUME OrderTypeOK, CallsInv, CommitsInv, Sound, NEW w \in Workers, Capture(w)
  PROVE  Sound'
<1>p. PICK p \in Payments : p = call[w].p
  BY CaptureKnows
<1>type. /\ paystack[p] = "success" /\ UNCHANGED paystack
         /\ status \in [Payments -> Statuses] /\ sales \in [Payments -> [card : Nat, other : Nat]]
         /\ tab \in [Payments -> {"none", "open", "settled", "void"}]
         /\ paid \in [Payments -> PaidStates]
  BY <1>p, CaptureKnows DEF OrderTypeOK, GatewayTypeOK
<1>1. CASE CaptureOnClosedTab(w)
  <2>1. /\ status' = [status EXCEPT ![p] = "CAPTURED"] /\ UNCHANGED <<tab, sales, paid>>
        /\ status[p] \notin Settled
    BY <1>p, <1>1 DEF CaptureOnClosedTab, SetStatus, Claims, tabVars, Terminal, Settled
  <2>2. SaleRight(p)'
    BY <1>type, <2>1 DEF Sound, SaleRight, Agree, Settled
  <2>. QED
    BY <1>type, <2>1, <2>2 DEF Sound, ConfirmedIsHeld, SaleRight
<1>2. CASE CaptureOfRejected(w)
  <2>1. /\ status' = [status EXCEPT ![p] = "CANCELLED"] /\ UNCHANGED <<tab, sales, paid>>
        /\ tab[p] = "open"
    BY <1>p, <1>2 DEF CaptureOfRejected, SetStatus, tabVars
  <2>2. SaleRight(p)'
    BY <1>type, <2>1 DEF Sound, SaleRight, Agree
  <2>. QED
    BY <1>type, <2>1, <2>2 DEF Sound, ConfirmedIsHeld, SaleRight, Settled
<1>3. CASE CaptureBegins(w)
  BY <1>3, <1>type DEF CaptureBegins, tabVars, Sound, ConfirmedIsHeld, SaleRight
<1>4. CASE CaptureCommits(w)
  <2>1. /\ status' = [status EXCEPT ![p] = "CAPTURED"]
        /\ sales' = [sales EXCEPT ![p].card = @ + 1]
        /\ tab' = [tab EXCEPT ![p] = "settled"]
        /\ paid' = [paid EXCEPT ![p] = "paid"]
        /\ tab[p] = "open"
    BY <1>p, <1>4 DEF CaptureCommits, SetStatus, CommitsInv, Committing
  <2>2. sales[p].card = 0 /\ sales[p].other = 0
    BY <1>type, <2>1 DEF Sound, SaleRight, Agree
  <2>3. SaleRight(p)'
    BY <1>type, <2>1, <2>2 DEF SaleRight, Agree
  <2>. QED
    BY <1>type, <2>1, <2>3 DEF Sound, ConfirmedIsHeld, SaleRight
<1>. QED
  BY <1>1, <1>2, <1>3, <1>4 DEF Capture

(* Guests and staff keep the sale of every order right. *)
LEMMA OrderSales ==
  ASSUME OrderTypeOK, Sound, NEW p \in Payments, OrderAction(p)
  PROVE  Sound'
<1>type. /\ status \in [Payments -> Statuses] /\ sales \in [Payments -> [card : Nat, other : Nat]]
         /\ tab \in [Payments -> {"none", "open", "settled", "void"}]
         /\ paid \in [Payments -> PaidStates]
  BY DEF OrderTypeOK, GatewayTypeOK
<1>paystack. UNCHANGED paystack
  BY OrderLeavesCalls
<1>1. CASE PlaceOrder(p)
  <2>1. /\ status' = [status EXCEPT ![p] = "INITIATED"] /\ UNCHANGED <<sales, paid>>
        /\ tab[p] = "none" /\ tab' = [tab EXCEPT ![p] = "open"]
    BY <1>1 DEF PlaceOrder, SetStatus
  <2>2. SaleRight(p)'
    BY <1>type, <2>1 DEF Sound, SaleRight, Agree
  <2>. QED
    BY <1>type, <1>paystack, <2>1, <2>2 DEF Sound, ConfirmedIsHeld, SaleRight, Settled
<1>2. CASE UNCHANGED <<status, tab, sales, paid>>
  BY <1>2, <1>paystack DEF Sound, ConfirmedIsHeld, SaleRight
<1>3. CASE RejectCancels(p)
  <2>1. /\ status' = [status EXCEPT ![p] = IF @ \in Unpaid THEN "CANCELLED" ELSE @]
        /\ UNCHANGED <<tab, sales, paid>>
    BY <1>3 DEF RejectCancels
  <2>2. /\ status'[p] \in Settled <=> status[p] \in Settled
        /\ status'[p] \in Settled => status'[p] = status[p]
    BY <1>type, <2>1 DEF Unpaid, Settled
  <2>3. SaleRight(p)'
    BY <1>type, <2>1, <2>2 DEF Sound, SaleRight, Agree, Settled
  <2>. QED
    BY <1>type, <1>paystack, <2>1, <2>2, <2>3 DEF Sound, ConfirmedIsHeld, SaleRight
<1>4. CASE RejectVoids(p) \/ StaffVoid(p)
  <2>1. /\ UNCHANGED <<status, sales, paid>>
        /\ \/ UNCHANGED tab
           \/ tab[p] = "open" /\ tab' = [tab EXCEPT ![p] = "void"]
    BY <1>4 DEF RejectVoids, StaffVoid, gatewayVars
  <2>2. SaleRight(p)'
    BY <1>type, <2>1 DEF Sound, SaleRight, Agree
  <2>. QED
    BY <1>type, <1>paystack, <2>1, <2>2 DEF Sound, ConfirmedIsHeld, SaleRight
<1>5. CASE StaffSettle(p)
  <2>1. /\ UNCHANGED <<status, paid>> /\ tab[p] = "open"
        /\ tab' = [tab EXCEPT ![p] = "settled"]
        /\ sales' = [sales EXCEPT ![p].other = @ + 1]
    BY <1>5 DEF StaffSettle, gatewayVars
  <2>2. sales[p].card = 0 /\ sales[p].other = 0
    BY <1>type, <2>1 DEF Sound, SaleRight, Agree
  <2>3. SaleRight(p)'
    BY <1>type, <2>1, <2>2 DEF Sound, SaleRight, Agree
  <2>. QED
    BY <1>type, <1>paystack, <2>1, <2>3 DEF Sound, ConfirmedIsHeld, SaleRight
<1>6. CASE RejectRefunds(p)
  <2>1. /\ UNCHANGED tab /\ paid' = [paid EXCEPT ![p] = "refunded"]
        /\ \/ /\ status[p] = "CAPTURED"
              /\ status' = [status EXCEPT ![p] = "REFUNDED"]
              /\ sales' = [sales EXCEPT ![p].card = 0]
           \/ status[p] # "CAPTURED" /\ UNCHANGED <<status, sales>>
    BY <1>6 DEF RejectRefunds, SetStatus
  <2>2. SaleRight(p)'
    BY <1>type, <2>1 DEF Sound, SaleRight, Agree
  <2>. QED
    BY <1>type, <1>paystack, <2>1, <2>2 DEF Sound, ConfirmedIsHeld, SaleRight, Settled
<1>. QED
  BY <1>1, <1>2, <1>3, <1>4, <1>5, <1>6 DEF OrderAction, Rejection, Accept, RejectReads,
     RejectFlips, RejectReversesNothing, RejectDies, gatewayVars

(* Every step keeps the sales right. *)
LEMMA SalesStep ==
  ASSUME OrderTypeOK, CallsInv, CommitsInv, Sound, [OrderNext]_orderVars
  PROVE  Sound'
<1>1. ASSUME GatewayNext, UNCHANGED tabVars PROVE Sound'
  <2>1. MoneyKept
    BY <1>1, GatewayKeepsMoney DEF OrderTypeOK, Sound
  <2>. QED
    BY <1>1, <2>1 DEF MoneyKept, tabVars, Sound, ConfirmedIsHeld, SaleRight, Agree, Settled
<1>2. CASE UNCHANGED orderVars
  BY <1>2 DEF orderVars, gatewayVars, tabVars, Sound, ConfirmedIsHeld, SaleRight
<1>. QED
  BY <1>1, <1>2, CaptureSales, OrderSales DEF OrderNext, OrderAction

-----------------------------------------------------------------------------
(* The theorems. *)

(* The inductive invariant holds throughout. *)
LEMMA OrderInvHolds == OrderSpec => []OrderInv
<1>1. OrderInit => OrderTypeOK
  <2> SUFFICES ASSUME OrderInit PROVE OrderTypeOK
    OBVIOUS
  <2>1. GatewayTypeOK
    <3>1. /\ status \in [Payments -> Statuses] /\ old \subseteq Payments
          /\ paystack \in [Payments -> Records] /\ call \in [Workers -> Calls]
      BY DEF OrderInit, GatewayInit, Statuses, Records, Calls
    <3>2. event \in [Payments -> Events]
      BY AttemptsAssumption DEF OrderInit, GatewayInit, NoEvent, Events
    <3>3. crashes \in 0..MaxCrashes
      BY CrashesAssumption DEF OrderInit, GatewayInit
    <3>4. purging \in BOOLEAN
      BY Zenon DEF OrderInit, GatewayInit
    <3>. QED
      BY <3>1, <3>2, <3>3, <3>4 DEF GatewayTypeOK
  <2>. QED
    BY <2>1 DEF OrderInit, OrderTypeOK, PaidStates
<1>2. OrderInit => CallsInv /\ CommitsInv
  BY DEF OrderInit, GatewayInit, CallsInv, RecordersOwn, OneRecorder, AnswersHold, DecisionsMade,
     Recording, Applying, At, Idle, CommitsInv, Committing
<1>3. OrderInit => Sound
  BY DEF OrderInit, GatewayInit, Sound, ConfirmedIsHeld, Settled, SaleRight, Agree
<1>4. OrderInv <=> OrderTypeOK /\ CallsInv /\ CommitsInv /\ Sound
  BY DEF OrderInv, Sound
<1>5. OrderInv /\ [OrderNext]_orderVars => OrderInv'
  <2> SUFFICES ASSUME OrderTypeOK, CallsInv, CommitsInv, Sound, [OrderNext]_orderVars
               PROVE  OrderTypeOK' /\ CallsInv' /\ CommitsInv' /\ Sound'
    BY <1>4 DEF OrderInv, Sound
  <2>. QED
    BY TypesStep, CallsStep, CommitsStep, SalesStep
<1>. QED
  BY <1>1, <1>2, <1>3, <1>4, <1>5, PTL DEF OrderSpec

(* Rows, records, events, calls and orders keep their types. *)
THEOREM GuestOrderTypes == OrderSpec => []OrderTypeOK
  BY OrderInvHolds, PTL DEF OrderInv

(* However webhook, confirmation, rejection and cashier race, an order is    *)
(* sold at most once, and a voided tab has no sale.                          *)
THEOREM SoldOnce == OrderSpec => []SoldAtMostOnce
<1>1. OrderInv => SoldAtMostOnce
  <2> SUFFICES ASSUME OrderInv, NEW p \in Payments
               PROVE  /\ sales[p].card + sales[p].other <= 1
                      /\ tab[p] = "settled" /\ status[p] # "REFUNDED"
                            => sales[p].card + sales[p].other = 1
                      /\ tab[p] = "void" => sales[p] = [card |-> 0, other |-> 0]
    BY DEF SoldAtMostOnce
  <2>1. SaleRight(p) /\ sales[p] \in [card : Nat, other : Nat]
    BY DEF OrderInv, OrderTypeOK
  <2>. QED
    BY <2>1 DEF SaleRight, Agree
<1>. QED
  BY <1>1, OrderInvHolds, PTL

(* The guest is shown 'paid' exactly while the money is held for a sale.     *)
THEOREM PaidMeansHeld == OrderSpec => []PaidIsHeld
<1>1. OrderInv => PaidIsHeld
  BY DEF OrderInv, PaidIsHeld, SaleRight, Agree
<1>. QED
  BY <1>1, OrderInvHolds, PTL
=============================================================================
