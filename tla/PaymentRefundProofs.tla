------------------------ MODULE PaymentRefundProofs ------------------------
(***************************************************************************)
(* Theorems about PaymentRefund, for any number of refunds and processes    *)
(* and any payment.  A refund that takes a Paystack refund not named after  *)
(* it is one Paystack was never asked for: whoever made the other one gave  *)
(* it up (a manager cleared it), which takes longer than any call for this  *)
(* one can last.                                                            *)
(***************************************************************************)
EXTENDS PaymentRefund, FiniteSetTheorems, TLAPS

(* An intent that was made is for some amount. *)
AmountsRight ==
    \A i \in Refunds : IF refund[i].status = "none" THEN refund[i] = NoRefund
                                                    ELSE refund[i].amount >= 1

(* The effects and the payment follow the captured refunds. *)
EffectsRight ==
    /\ \A i \in Refunds : effects[i] = IF refund[i].status = "captured" THEN 1 ELSE 0
    /\ payment = CASE Total(With({"captured"})) = 0 -> "CAPTURED"
                   [] Total(With({"captured"})) = Amount -> "REFUNDED"
                   [] OTHER -> "PARTIALLY_REFUNDED"
    /\ \A i \in Refunds : refund[i].status = "captured" => refund[i].gid # None

(* A call is about a refund that was made. *)
CallsRight ==
    /\ \A w \in Workers : call[w] # Idle => refund[call[w].of].status # "none"
    /\ \A v, w \in Workers, i \in Refunds : Asking(v, i) /\ Asking(w, i) => v = w

(* What a refund call knows of Paystack's refund. *)
AskersRight ==
    \A w \in Workers :
        /\ call[w].at \in {"ask", "refused"} => paystack[call[w].of] = "none"
        /\ call[w].at \in {"record", "commit"} => paystack[call[w].of] # "none"

(* Refunds in time: earlier ones, old ones, given up ones. *)
TimesRight ==
    /\ \A i \in Refunds : paystack[i] # "none" => refund[i].status # "none"
    /\ \A i \in Refunds : i \notin older[i]
    /\ \A w \in Workers, i \in Refunds : Asking(w, i) => aged \subseteq older[i]
    /\ cleared \subseteq aged

(* What a check saw of a Paystack refund. *)
AnswersRight ==
    \A w \in Workers :
        call[w].at \in {"rivals", "settle"} /\ call[w].result # "none" =>
            /\ call[w].gid # None
            /\ call[w].result = "failed" => paystack[call[w].gid] = "failed"

SaleRight ==
    ~crossed =>
        /\ payment = "REFUNDED" => sale # "standing"
        /\ \A w \in Workers : call[w].at = "commit" => call[w].sold = (sale # "none")

(* Paystack has no refund for this intent and will never make one. *)
NeverPaid(i) == paystack[i] = "none" /\ \A w \in Workers : ~Asking(w, i)

(* Paystack's refund j could be that of intent i. *)
Fits(i, j) ==
    /\ paystack[j] # "none"
    /\ refund[j].amount = refund[i].amount
    /\ j \notin older[i]

(* No other intent can lay claim to it, now or later. *)
Owns(i, j) == Fits(i, j) /\ (j # i => NeverPaid(i) /\ ~InFlight(j))

NobodyElseHas(i, j) == \A k \in Refunds \ {i} : refund[k].gid # j

(* The Paystack refund an intent has is its own. *)
GidsRight ==
    \A i \in Refunds :
        refund[i].gid # None => Owns(i, refund[i].gid) /\ NobodyElseHas(i, refund[i].gid)

(* A check that read an id read the intent's. *)
LookRight(w) ==
    call[w].at = "look" /\ call[w].gid # None /\ InFlight(call[w].of)
        => refund[call[w].of].gid = call[w].gid

(* A check that found a Paystack refund for an intent still in flight ... *)
Matched(w) ==
    /\ call[w].at \in {"rivals", "settle"} /\ call[w].result # "none"
    /\ InFlight(call[w].of)

(* ... found one that can be that intent's; before it has looked for rivals *)
(* all it knows is that a manager has not given up the other intent.        *)
Match(w, i, j) ==
    /\ Fits(i, j) /\ NobodyElseHas(i, j) /\ refund[i].gid \in {None, j}
    /\ call[w].at = "settle" => Owns(i, j)
    /\ call[w].at = "rivals" => j = i \/ NeverPaid(i) \/ j \notin cleared

MatchRight(w) == Matched(w) => Match(w, call[w].of, call[w].gid)

(* Two checks agree on whose Paystack refund it is. *)
Agree(v, w) ==
    Matched(v) /\ Matched(w) =>
        /\ call[v].of = call[w].of => call[v].gid = call[w].gid
        /\ call[v].at = "settle" /\ call[w].at = "settle" /\ call[v].gid = call[w].gid
              => call[v].of = call[w].of

(* A refund that failed was refused, or Paystack failed it. *)
FailedRight ==
    \A i \in Refunds \ cleared :
        refund[i].status = "failed" =>
            \/ NeverPaid(i)
            \/ refund[i].gid # None /\ paystack[i] = "failed"

LedgerInv == TypeOK /\ AmountsRight /\ EffectsRight /\ NeverOverRefunded
TimeInv   == CallsRight /\ AskersRight /\ TimesRight /\ AnswersRight
Owners    == /\ GidsRight /\ FailedRight
             /\ \A w \in Workers : LookRight(w) /\ MatchRight(w)
             /\ \A v, w \in Workers : Agree(v, w)

RefundInv == LedgerInv /\ TimeInv /\ SaleRight /\ (~crossed => Owners)

-----------------------------------------------------------------------------
(* The shapes of a call, by where it is. *)
LEMMA CallShape ==
  ASSUME TypeOK, NEW w \in Workers
  PROVE  \/ call[w] = Idle
         \/ call[w] \in [op : {"refund"}, at : {"ask", "refused"}, of : Refunds]
         \/ call[w] \in [op : {"refund"}, at : {"record"}, of : Refunds,
                         result : {"processed", "pending"}]
         \/ call[w] \in [op : {"refund"}, at : {"commit"}, of : Refunds,
                         result : {"processed", "pending"}, sold : BOOLEAN]
         \/ call[w] \in [op : {"check", "clear"}, at : {"look"}, of : Refunds,
                         gid : Refunds \cup {None}]
         \/ call[w] \in [op : {"check", "clear"}, at : {"rivals", "settle"}, of : Refunds,
                         gid : Refunds \cup {None}, result : Answers \cup {"none"}]
         \/ call[w] \in [op : {"clear"}, at : {"clear"}, of : Refunds]
<1>1. call[w] \in Calls
  BY DEF TypeOK
<1>. QED
  BY <1>1, Zenon DEF Calls

(* What they say of a call's fields. *)
LEMMA CallFields ==
  ASSUME TypeOK, NEW w \in Workers
  PROVE  /\ call[w] # Idle => call[w].of \in Refunds
         /\ call[w].at = "idle" => call[w] = Idle
         /\ call[w] = Idle => call[w].at = "idle" /\ call[w].op = "idle"
         /\ call[w].at \in {"ask", "refused", "record", "commit"} <=> call[w].op = "refund"
         /\ call[w].at \in {"look", "rivals", "settle"} => call[w].op \in {"check", "clear"}
         /\ call[w].at \in {"look", "rivals", "settle"} => call[w].gid \in Refunds \cup {None}
         /\ call[w].at \in {"record", "commit"} => call[w].result \in {"processed", "pending"}
         /\ call[w].at \in {"rivals", "settle"} => call[w].result \in Answers \cup {"none"}
<1>. QED
  BY CallShape, SMT DEF Idle

(* What a call about to commit saw of the sale is a truth value. *)
LEMMA CallSold ==
  ASSUME TypeOK, NEW w \in Workers, call[w].at = "commit"
  PROVE  call[w].sold \in BOOLEAN
<1>1. call[w] \in [op : {"refund"}, at : {"commit"}, of : Refunds,
                   result : {"processed", "pending"}, sold : BOOLEAN]
  BY CallShape DEF Idle
<1>. QED
  BY <1>1, Zenon

(* The status an answer gives a refund in flight. *)
After(result) == IF result = "processed" THEN "captured"
                 ELSE IF result = "failed" THEN "failed" ELSE "reserved"

(* What settling does. *)
LEMMA SettleFacts ==
  ASSUME TypeOK, NEW w \in Workers, NEW i \in Refunds, NEW result \in Answers,
         NEW gid \in Refunds \cup {None}, NEW sold \in BOOLEAN, Settle(w, i, result, gid, sold)
  PROVE  /\ InFlight(i)
         /\ refund' = [refund EXCEPT ![i] =
                         [status |-> After(result), amount |-> refund[i].amount,
                          gid |-> IF gid = None THEN refund[i].gid ELSE gid]]
         /\ result = "processed" =>
               /\ effects' = [effects EXCEPT ![i] = @ + 1]
               /\ payment' = IF Full(i) THEN "REFUNDED" ELSE "PARTIALLY_REFUNDED"
               /\ sale' = IF Full(i) /\ sold THEN "voided" ELSE sale
         /\ result # "processed" => UNCHANGED <<effects, payment, sale>>
         /\ crossed' = (crossed \/ Crosses(w))
<1> DEFINE status == [processed |-> "captured", pending |-> "reserved", failed |-> "failed"][result]
<1>1. status = After(result)
  BY DEF Answers, After
<1>. QED
  BY <1>1, Zenon DEF Settle, Claims, VoidsSale

-----------------------------------------------------------------------------
(* Totals. *)
LEMMA UnitsFinite ==
  ASSUME NEW S \in SUBSET Refunds
  PROVE  IsFiniteSet(Units(S)) /\ Total(S) \in Nat
<1>1. IsFiniteSet(S) /\ IsFiniteSet(1..Amount)
  BY FS_Subset, RefundsAreFinite, FS_Interval, NumberAssumption
<1>2. IsFiniteSet(S \X (1..Amount))
  BY <1>1, FS_Product
<1>3. Units(S) \subseteq S \X (1..Amount)
  BY DEF Units
<1>4. IsFiniteSet(Units(S))
  BY <1>2, <1>3, FS_Subset
<1>. QED
  BY <1>4, FS_CardinalityType DEF Total

(* A larger set of refunds is of no less. *)
LEMMA TotalMonotone ==
  ASSUME NEW S \in SUBSET Refunds, NEW T \in SUBSET S
  PROVE  Total(T) <= Total(S)
<1>1. Units(T) \subseteq Units(S)
  BY DEF Units
<1>2. IsFiniteSet(Units(S)) /\ Cardinality(Units(T)) \in Nat /\ Cardinality(Units(S)) \in Nat
  BY UnitsFinite, FS_Subset DEF Total
<1>. QED
  BY <1>1, <1>2, FS_Subset DEF Total

(* A refund that was made counts. *)
LEMMA TotalPositive ==
  ASSUME NEW S \in SUBSET Refunds, NEW i \in S, refund[i].amount >= 1
  PROVE  Total(S) > 0
<1>1. <<i, 1>> \in Units(S)
  BY NumberAssumption DEF Units
<1>2. IsFiniteSet(Units(S)) /\ Total(S) \in Nat
  BY UnitsFinite
<1>3. Total(S) # 0
  BY <1>1, <1>2, FS_EmptySet DEF Total
<1>. QED
  BY <1>2, <1>3

(* The total depends on the amounts alone. *)
LEMMA TotalKept ==
  ASSUME NEW S \in SUBSET Refunds, \A k \in S : refund'[k].amount = refund[k].amount
  PROVE  Total(S)' = Total(S)
<1>1. ASSUME NEW u \in S \X (1..Amount)
      PROVE  (u[2] <= refund'[u[1]].amount) <=> (u[2] <= refund[u[1]].amount)
  BY <1>1
<1>2. {u \in S \X (1..Amount) : u[2] <= refund'[u[1]].amount}
      = {u \in S \X (1..Amount) : u[2] <= refund[u[1]].amount}
  BY <1>1
<1>3. Units(S)' = Units(S)
  BY <1>2 DEF Units
<1>. QED
  BY <1>3 DEF Total

(* A refund that is reserved adds what it is of. *)
LEMMA TotalReserves ==
  ASSUME NEW S \in SUBSET Refunds, NEW i \in Refunds \ S, NEW n \in 1..Amount,
         \A k \in S : refund'[k].amount = refund[k].amount, refund'[i].amount = n
  PROVE  Total(S \cup {i})' = Total(S) + n
<1> DEFINE new == {i} \X (1..n)
<1>1. n \in Nat /\ 1 <= n /\ 1..n \subseteq 1..Amount
  BY NumberAssumption
<1>2. Units(S \cup {i})' = Units(S) \cup new
  <2>1. ASSUME NEW u \in (S \cup {i}) \X (1..Amount)
        PROVE  u[2] <= refund'[u[1]].amount <=> u \in Units(S) \cup new
    BY <1>1 DEF Units
  <2>2. Units(S) \cup new \subseteq (S \cup {i}) \X (1..Amount)
    BY <1>1 DEF Units
  <2>. QED
    BY <2>1, <2>2 DEF Units
<1>3. Units(S) \cap new = {}
  BY DEF Units
<1>4. IsFiniteSet(1..n) /\ Cardinality(1..n) = n
  BY <1>1, FS_Interval, SMT
<1>5. IsFiniteSet({i}) /\ Cardinality({i}) = 1
  BY FS_Singleton
<1>6. IsFiniteSet(new) /\ Cardinality(new) = n
  <2>1. IsFiniteSet(new) /\ Cardinality(new) = Cardinality({i}) * Cardinality(1..n)
    BY <1>4, <1>5, FS_Product, Zenon
  <2>. QED
    BY <1>1, <1>4, <1>5, <2>1
<1> HIDE DEF new
<1>7. IsFiniteSet(Units(S)) /\ Cardinality(Units(S)) \in Nat
  BY UnitsFinite DEF Total
<1>8. Cardinality(Units(S) \cup new) = Cardinality(Units(S)) + n - Cardinality(Units(S) \cap new)
  BY <1>6, <1>7, FS_Union
<1>9. Cardinality(Units(S) \cap new) = 0
  BY <1>3, FS_EmptySet
<1>10. Cardinality(Units(S) \cup new) = Cardinality(Units(S)) + n
  BY <1>1, <1>7, <1>8, <1>9
<1>. QED
  BY <1>2, <1>10, Zenon DEF Total

-----------------------------------------------------------------------------
(* The books of the payment. *)
Books == AmountsRight /\ EffectsRight /\ NeverOverRefunded

(* The fields of an intent. *)
LEMMA RefundFields ==
  ASSUME TypeOK, NEW i \in Refunds
  PROVE  /\ refund[i] = [status |-> refund[i].status, amount |-> refund[i].amount,
                         gid |-> refund[i].gid]
         /\ refund[i].status \in {"none", "reserved", "captured", "failed"}
         /\ refund[i].amount \in 0..Amount
         /\ refund[i].gid \in Refunds \cup {None}
<1>1. refund[i] \in [status : {"none", "reserved", "captured", "failed"},
                     amount : 0..Amount, gid : Refunds \cup {None}]
  BY DEF TypeOK
<1>. QED
  BY <1>1

(* They stand as long as no intent, effect or payment status changes. *)
LEMMA BooksKept ==
  ASSUME Books, UNCHANGED <<refund, effects, payment>>
  PROVE  Books'
<1>1. Total(With({"captured"}))' = Total(With({"captured"}))
      /\ Total(With({"reserved", "captured"}))' = Total(With({"reserved", "captured"}))
  BY DEF Total, Units, With
<1>. QED
  BY <1>1 DEF Books, AmountsRight, EffectsRight, NeverOverRefunded

(* An intent in flight that is not captured: nothing else changes. *)
LEMMA BooksOpen ==
  ASSUME TypeOK, Books, NEW i \in Refunds, NEW s \in {"reserved", "failed"}, InFlight(i),
         UNCHANGED <<effects, payment>>,
         \A k \in Refunds : refund'[k].amount = refund[k].amount,
         \A k \in Refunds \ {i} : refund'[k] = refund[k], refund'[i].status = s
  PROVE  Books'
<1> DEFINE S == With({"captured"})
           T == With({"reserved", "captured"})
<1>1. S' = S /\ S \in SUBSET Refunds /\ T' \in SUBSET T /\ T \in SUBSET Refunds
  BY DEF With, InFlight
<1>2. Total(S)' = Total(S)
  <2>1. PICK S0 \in SUBSET Refunds : S0 = S
    BY <1>1
  <2>2. Total(S0)' = Total(S0)
    BY TotalKept
  <2>. QED
    BY <1>1, <2>1, <2>2 DEF Total, Units
<1>3. Total(T)' <= Amount
  <2>1. PICK T0 \in SUBSET T : T0 = T'
    BY <1>1
  <2>2. Total(T0)' = Total(T0)
    BY <1>1, TotalKept
  <2>3. Total(T0) <= Total(T) /\ Total(T0) \in Nat /\ Total(T) \in Nat
    BY <1>1, TotalMonotone, UnitsFinite
  <2>4. Total(T)' = Total(T0)'
    BY <2>1 DEF Total, Units
  <2>. QED
    BY <2>2, <2>3, <2>4, NumberAssumption DEF Books, NeverOverRefunded
<1>4. AmountsRight'
  BY DEF Books, AmountsRight, InFlight
<1>5. EffectsRight'
  BY <1>2 DEF Books, EffectsRight, InFlight
<1>. QED
  BY <1>3, <1>4, <1>5 DEF Books, NeverOverRefunded

(* An intent that is captured. *)
LEMMA BooksCapture ==
  ASSUME TypeOK, Books, NEW i \in Refunds, InFlight(i),
         effects' = [effects EXCEPT ![i] = @ + 1],
         payment' = IF Full(i) THEN "REFUNDED" ELSE "PARTIALLY_REFUNDED",
         \A k \in Refunds : refund'[k].amount = refund[k].amount,
         \A k \in Refunds \ {i} : refund'[k] = refund[k],
         refund'[i].status = "captured", refund'[i].gid # None
  PROVE  Books'
<1> DEFINE S == With({"captured"})
           T == With({"reserved", "captured"})
<1>1. S' = S \cup {i} /\ S \in SUBSET Refunds /\ T' = T /\ T \in SUBSET Refunds
  BY DEF With, InFlight
<1>2. Total(S)' = Total(S \cup {i})
  <2>1. PICK S0 \in SUBSET Refunds : S0 = S \cup {i}
    BY <1>1
  <2>2. Total(S0)' = Total(S0)
    BY TotalKept
  <2>. QED
    BY <1>1, <2>1, <2>2 DEF Total, Units
<1>3. Total(T)' = Total(T)
  <2>1. PICK T0 \in SUBSET Refunds : T0 = T
    BY <1>1
  <2>2. Total(T0)' = Total(T0)
    BY TotalKept
  <2>. QED
    BY <1>1, <2>1, <2>2 DEF Total, Units
<1>4. Total(S \cup {i}) > 0
  <2>1. S \cup {i} \in SUBSET Refunds /\ refund[i].amount >= 1
    BY <1>1 DEF Books, AmountsRight, InFlight
  <2>. QED
    BY <2>1, TotalPositive
<1>5. AmountsRight'
  BY DEF Books, AmountsRight, InFlight
<1>6. effects[i] = 0 /\ effects' = [effects EXCEPT ![i] = 1] /\ effects \in [Refunds -> 0..1]
  <2>1. effects[i] = 0 /\ effects \in [Refunds -> 0..1]
    BY Zenon DEF Books, EffectsRight, InFlight, TypeOK
  <2>. QED
    BY <2>1
<1>7. payment' = CASE Total(S)' = 0 -> "CAPTURED"
                   [] Total(S)' = Amount -> "REFUNDED"
                   [] OTHER -> "PARTIALLY_REFUNDED"
  BY <1>2, <1>4 DEF Full
<1>8. EffectsRight'
  BY <1>6, <1>7 DEF Books, EffectsRight, InFlight
<1>. QED
  BY <1>3, <1>5, <1>8 DEF Books, NeverOverRefunded

(* An intent that is reserved takes no more than is left. *)
LEMMA BooksReserve ==
  ASSUME TypeOK, Books, NEW w \in Workers, NEW i \in Refunds, NEW amount \in 1..Amount,
         Reserve(w, i, amount)
  PROVE  Books'
<1> DEFINE S == With({"captured"})
           T == With({"reserved", "captured"})
<1>1. /\ refund[i] = NoRefund /\ amount <= Amount - Total(T)
      /\ refund' = [refund EXCEPT ![i] = [status |-> "reserved", amount |-> amount, gid |-> None]]
      /\ UNCHANGED <<effects, payment>>
  BY NumberAssumption DEF Reserve, ledger, Available
<1>2. /\ \A k \in Refunds \ {i} : refund'[k] = refund[k]
      /\ refund'[i].status = "reserved" /\ refund'[i].amount = amount /\ refund'[i].gid = None
      /\ refund[i].status = "none"
  BY <1>1 DEF TypeOK, NoRefund
<1>3. S' = S /\ S \in SUBSET Refunds /\ T' = T \cup {i} /\ T \in SUBSET (Refunds \ {i})
  BY <1>2 DEF With
<1>4. Total(S)' = Total(S)
  <2>1. PICK S0 \in SUBSET (Refunds \ {i}) : S0 = S
    BY <1>2, <1>3 DEF With
  <2>2. Total(S0)' = Total(S0)
    BY <1>2, <2>1, TotalKept
  <2>. QED
    BY <1>3, <2>1, <2>2 DEF Total, Units
<1>5. Total(T)' = Total(T) + amount
  <2>1. PICK T0 \in SUBSET (Refunds \ {i}) : T0 = T
    BY <1>3
  <2>2. Total(T0 \cup {i})' = Total(T0) + amount
    BY <1>2, <2>1, TotalReserves
  <2>. QED
    BY <1>3, <2>1, <2>2 DEF Total, Units
<1>6. Total(T) \in Nat
  BY <1>3, UnitsFinite
<1>7. Total(T)' <= Amount
  BY <1>1, <1>5, <1>6, NumberAssumption
<1>8. AmountsRight'
  BY <1>2 DEF Books, AmountsRight
<1>9. EffectsRight'
  BY <1>1, <1>2, <1>4 DEF Books, EffectsRight
<1>. QED
  BY <1>7, <1>8, <1>9 DEF Books, NeverOverRefunded

(* What settling an intent does to them. *)
LEMMA BooksSettle ==
  ASSUME TypeOK, Books, NEW w \in Workers, NEW i \in Refunds, NEW result \in Answers,
         NEW gid \in Refunds, NEW sold \in BOOLEAN, Settle(w, i, result, gid, sold)
  PROVE  Books'
<1>1. InFlight(i)
  BY SettleFacts
<1>2. /\ \A k \in Refunds : refund'[k].amount = refund[k].amount
      /\ \A k \in Refunds \ {i} : refund'[k] = refund[k]
      /\ refund'[i].status = After(result) /\ refund'[i].gid = gid
  <2>1. refund' = [refund EXCEPT ![i] = [status |-> After(result), amount |-> refund[i].amount,
                                         gid |-> IF gid = None THEN refund[i].gid ELSE gid]]
    BY SettleFacts
  <2>2. refund \in [Refunds -> [status : {"none", "reserved", "captured", "failed"},
                               amount : 0..Amount, gid : Refunds \cup {None}]]
    BY DEF TypeOK
  <2>. QED
    BY <2>1, <2>2, NoneAssumption
<1>3. ASSUME result = "processed" PROVE Books'
  <2>1. /\ effects' = [effects EXCEPT ![i] = @ + 1]
        /\ payment' = IF Full(i) THEN "REFUNDED" ELSE "PARTIALLY_REFUNDED"
    BY <1>3, SettleFacts
  <2>2. refund'[i].status = "captured" /\ refund'[i].gid # None
    BY <1>2, <1>3, NoneAssumption DEF After
  <2>. QED
    BY <1>1, <1>2, <2>1, <2>2, BooksCapture
<1>4. ASSUME result # "processed" PROVE Books'
  <2>1. UNCHANGED <<effects, payment>>
    BY <1>4, SettleFacts
  <2>2. refund'[i].status \in {"reserved", "failed"}
    BY <1>2, <1>4 DEF After
  <2>. QED
    BY <1>1, <1>2, <2>1, <2>2, BooksOpen
<1>. QED
  BY <1>3, <1>4

-----------------------------------------------------------------------------
(* Types.  The calls the operations make are calls. *)
LEMMA CallsBuilt ==
  /\ Idle \in Calls
  /\ \A i \in Refunds :
        /\ [op |-> "refund", at |-> "ask", of |-> i] \in Calls
        /\ [op |-> "refund", at |-> "refused", of |-> i] \in Calls
        /\ [op |-> "clear", at |-> "clear", of |-> i] \in Calls
        /\ \A result \in {"processed", "pending"} :
              /\ [op |-> "refund", at |-> "record", of |-> i, result |-> result] \in Calls
              /\ \A sold \in BOOLEAN :
                    [op |-> "refund", at |-> "commit", of |-> i, result |-> result,
                     sold |-> sold] \in Calls
        /\ \A op \in {"check", "clear"}, gid \in Refunds \cup {None} :
              /\ [op |-> op, at |-> "look", of |-> i, gid |-> gid] \in Calls
              /\ \A at \in {"rivals", "settle"}, result \in Answers \cup {"none"} :
                    [op |-> op, at |-> at, of |-> i, gid |-> gid, result |-> result] \in Calls
<1>1. \A i \in Refunds :
        /\ [op |-> "refund", at |-> "ask", of |-> i]
              \in [op : {"refund"}, at : {"ask", "refused"}, of : Refunds]
        /\ [op |-> "refund", at |-> "refused", of |-> i]
              \in [op : {"refund"}, at : {"ask", "refused"}, of : Refunds]
        /\ [op |-> "clear", at |-> "clear", of |-> i]
              \in [op : {"clear"}, at : {"clear"}, of : Refunds]
  OBVIOUS
<1>2. \A i \in Refunds, result \in {"processed", "pending"} :
        [op |-> "refund", at |-> "record", of |-> i, result |-> result]
            \in [op : {"refund"}, at : {"record"}, of : Refunds, result : {"processed", "pending"}]
  OBVIOUS
<1>3. \A i \in Refunds, result \in {"processed", "pending"}, sold \in BOOLEAN :
        [op |-> "refund", at |-> "commit", of |-> i, result |-> result, sold |-> sold]
            \in [op : {"refund"}, at : {"commit"}, of : Refunds, result : {"processed", "pending"},
                 sold : BOOLEAN]
  BY Zenon
<1>4. \A i \in Refunds, op \in {"check", "clear"}, gid \in Refunds \cup {None} :
        [op |-> op, at |-> "look", of |-> i, gid |-> gid]
            \in [op : {"check", "clear"}, at : {"look"}, of : Refunds, gid : Refunds \cup {None}]
  OBVIOUS
<1>5. \A i \in Refunds, op \in {"check", "clear"}, gid \in Refunds \cup {None},
         at \in {"rivals", "settle"}, result \in Answers \cup {"none"} :
        [op |-> op, at |-> at, of |-> i, gid |-> gid, result |-> result]
            \in [op : {"check", "clear"}, at : {"rivals", "settle"}, of : Refunds,
                 gid : Refunds \cup {None}, result : Answers \cup {"none"}]
  OBVIOUS
<1>. QED
  BY <1>1, <1>2, <1>3, <1>4, <1>5, Zenon DEF Calls

(* What each operation makes of the call of its process; the rest of what   *)
(* this module says of calls is about these.                                *)
unasked == <<refund, effects, payment, sale, checks, last, cleared, aged, older, crossed>>

(* An operation that only moves its call. *)
Moves(w) ==
    \/ AskRefused(w) \/ RecordPeek(w) \/ LookById(w) \/ LookByAmount(w) \/ LookFindsNone(w)
    \/ Rivals(w) \/ Abandon(w)
    \/ \E i \in Refunds : StartCheck(w, i) \/ (w = Manager /\ StartClear(i))

(* What a look-up makes of an answer. *)
LEMMA KnownAnswers ==
  ASSUME TypeOK, NEW j \in Refunds, paystack[j] # "none"
  PROVE  Known(j) \in Answers \cup {"none"} /\ (Known(j) = "failed" => paystack[j] = "failed")
  BY DEF TypeOK, Known, Answers

(* Such an operation changes one call and nothing else. *)
LEMMA MovesCall ==
  ASSUME TypeOK, NEW w \in Workers, Moves(w)
  PROVE  /\ \E rec \in Calls : call' = [call EXCEPT ![w] = rec]
         /\ UNCHANGED <<unasked, paystack>>
<1>1. ASSUME AskRefused(w) PROVE \E rec \in Calls : call' = [call EXCEPT ![w] = rec]
  <2>1. call[w].of \in Refunds
    BY <1>1, CallFields DEF AskRefused, At
  <2>. QED
    BY <1>1, <2>1, CallsBuilt DEF AskRefused
<1>2. ASSUME RecordPeek(w) PROVE \E rec \in Calls : call' = [call EXCEPT ![w] = rec]
  <2>1. call[w].of \in Refunds /\ call[w].result \in {"processed", "pending"}
    BY <1>2, CallFields DEF RecordPeek, At
  <2>2. (sale # "none") \in BOOLEAN
    OBVIOUS
  <2>. QED
    BY <1>2, <2>1, <2>2, CallsBuilt, Zenon DEF RecordPeek
<1>3. ASSUME LookById(w) \/ LookByAmount(w) \/ LookFindsNone(w)
      PROVE  \E rec \in Calls : call' = [call EXCEPT ![w] = rec]
  <2>1. /\ call[w].at = "look" /\ call[w].op \in {"check", "clear"} /\ call[w].of \in Refunds
        /\ call[w].gid \in Refunds \cup {None}
    BY <1>3, CallFields DEF LookById, LookByAmount, LookFindsNone, Found
  <2>2. PICK at \in {"rivals", "settle"}, gid \in Refunds \cup {None},
             result \in Answers \cup {"none"} : Found(w, at, gid, result)
    <3>1. \A j \in Refunds : paystack[j] # "none" => Known(j) \in Answers \cup {"none"}
      BY KnownAnswers
    <3>2. \A j \in Refunds : paystack[j] = "none" => Known(j) = "none"
      BY DEF Known
    <3>. QED
      BY <1>3, <2>1, <3>1, <3>2 DEF LookById, LookByAmount, LookFindsNone, Candidates
  <2>. QED
    BY <2>1, <2>2, CallsBuilt DEF Found
<1>4. ASSUME Rivals(w) PROVE \E rec \in Calls : call' = [call EXCEPT ![w] = rec]
  <2>1. /\ call[w].op \in {"check", "clear"} /\ call[w].of \in Refunds
        /\ call[w].gid \in Refunds \cup {None} /\ call[w].result \in Answers \cup {"none"}
    BY <1>4, CallFields DEF Rivals
  <2>2. PICK result \in Answers \cup {"none"} :
           call' = [call EXCEPT ![w] = [op |-> call[w].op, at |-> "settle", of |-> call[w].of,
                                        gid |-> call[w].gid, result |-> result]]
    BY <1>4, <2>1 DEF Rivals, TypeOK
  <2>. QED
    BY <2>1, <2>2, CallsBuilt
<1>5. ASSUME Abandon(w) PROVE \E rec \in Calls : call' = [call EXCEPT ![w] = rec]
  BY <1>5, CallsBuilt DEF Abandon, Return
<1>6. ASSUME NEW i \in Refunds, StartCheck(w, i) \/ (w = Manager /\ StartClear(i))
      PROVE  \E rec \in Calls : call' = [call EXCEPT ![w] = rec]
  <2>1. refund[i].gid \in Refunds \cup {None}
    BY RefundFields
  <2>. QED
    BY <1>6, <2>1, CallsBuilt DEF StartCheck, StartClear, StartLook
<1>7. UNCHANGED <<unasked, paystack>>
  BY DEF Moves, AskRefused, RecordPeek, LookById, LookByAmount, LookFindsNone, Found, Rivals,
     Abandon, StartCheck, StartClear, StartLook, ledger, unasked
<1>. QED
  BY <1>1, <1>2, <1>3, <1>4, <1>5, <1>6, <1>7 DEF Moves

(* A refund call, or a check, that settles its intent, and what it leaves. *)
Returns(w) == call' = [call EXCEPT ![w] = Idle]

(* The refund call settles with the refund it asked for. *)
LEMMA RecordSettles ==
  ASSUME TypeOK, NEW w \in Workers, RecordCommit(w), InFlight(call[w].of)
  PROVE  /\ call[w].of \in Refunds /\ Asking(w, call[w].of) /\ call[w].at = "commit"
         /\ call[w].result \in Answers /\ call[w].result # "failed" /\ call[w].sold \in BOOLEAN
         /\ Settle(w, call[w].of, call[w].result, call[w].of, call[w].sold)
         /\ Returns(w) /\ UNCHANGED <<checks, last, cleared, aged, paystack, older>>
<1>1. call[w].at = "commit" /\ call[w].op = "refund"
  BY DEF RecordCommit, At
<1>2. call[w].of \in Refunds /\ call[w].result \in {"processed", "pending"}
  BY <1>1, CallFields
<1>3. call[w].sold \in BOOLEAN
  BY <1>1, CallSold
<1>4. Settle(w, call[w].of, call[w].result, call[w].of, call[w].sold)
  BY DEF RecordCommit, Claims
<1>5. Returns(w) /\ UNCHANGED <<checks, last, cleared, aged, paystack, older>>
  BY DEF RecordCommit, Return, Returns
<1>. QED
  BY <1>1, <1>2, <1>3, <1>4, <1>5 DEF Asking, Answers

(* A check settles with the one it found. *)
LEMMA CheckSettlesIt ==
  ASSUME TypeOK, AnswersRight, NEW w \in Workers, CheckSettles(w), InFlight(call[w].of)
  PROVE  /\ call[w].of \in Refunds /\ call[w].at = "settle" /\ call[w].result \in Answers
         /\ call[w].gid \in Refunds
         /\ Settle(w, call[w].of, call[w].result, call[w].gid, sale # "none")
         /\ Count(call[w].of, call[w].result)
         /\ Returns(w) /\ UNCHANGED <<cleared, aged, paystack, older>>
<1>1. call[w].at = "settle" /\ call[w].result # "none"
  BY DEF CheckSettles
<1>2. call[w].of \in Refunds /\ call[w].result \in Answers /\ call[w].gid \in Refunds
  BY <1>1, CallFields DEF AnswersRight
<1>3. Settle(w, call[w].of, call[w].result, call[w].gid, sale # "none")
      /\ Count(call[w].of, call[w].result)
  BY DEF CheckSettles, Claims
<1>. QED
  BY <1>1, <1>2, <1>3 DEF CheckSettles, Return, Returns

(* The types of what no operation above changes in a way of its own. *)
LEMMA SettleTypes ==
  ASSUME TypeOK, EffectsRight, NEW w \in Workers, NEW i \in Refunds, NEW result \in Answers,
         NEW gid \in Refunds, NEW sold \in BOOLEAN, Settle(w, i, result, gid, sold), Returns(w),
         checks' \in [Refunds -> 0..MinChecks],
         last' \in [Refunds -> Answers \cup {"null", "none", "cleared"}],
         UNCHANGED <<cleared, aged, paystack, older>>
  PROVE  TypeOK'
<1>1. refund' \in [Refunds -> [status : {"none", "reserved", "captured", "failed"},
                               amount : 0..Amount, gid : Refunds \cup {None}]]
  <2>1. refund' = [refund EXCEPT ![i] = [status |-> After(result), amount |-> refund[i].amount,
                                         gid |-> IF gid = None THEN refund[i].gid ELSE gid]]
    BY SettleFacts
  <2>2. After(result) \in {"none", "reserved", "captured", "failed"}
    BY DEF After
  <2>. QED
    BY <2>1, <2>2, RefundFields, NoneAssumption DEF TypeOK
<1>2. effects' \in [Refunds -> 0..1]
  <2>1. effects[i] = 0
    <3>1. refund[i].status = "reserved"
      BY SettleFacts DEF InFlight
    <3>2. effects[i] = IF refund[i].status = "captured" THEN 1 ELSE 0
      BY DEF EffectsRight
    <3>. QED
      BY <3>1, <3>2
  <2>2. effects' = [effects EXCEPT ![i] = @ + 1] \/ effects' = effects
    BY SettleFacts
  <2>. QED
    BY <2>1, <2>2 DEF TypeOK
<1>3. payment' \in {"CAPTURED", "PARTIALLY_REFUNDED", "REFUNDED"}
      /\ sale' \in {"none", "standing", "voided"}
  <2>1. ASSUME result = "processed"
        PROVE  payment' \in {"PARTIALLY_REFUNDED", "REFUNDED"} /\ sale' \in {sale, "voided"}
    BY <2>1, SettleFacts
  <2>2. ASSUME result # "processed" PROVE payment' = payment /\ sale' = sale
    BY <2>2, SettleFacts
  <2>. QED
    BY <2>1, <2>2 DEF TypeOK
<1>4. crossed' \in BOOLEAN
  <2>1. crossed' = (crossed \/ Crosses(w))
    BY SettleFacts
  <2>. QED
    BY <2>1, Zenon DEF TypeOK
<1>5. call' \in [Workers -> Calls]
  BY CallsBuilt DEF Returns, TypeOK
<1>. QED
  BY <1>1, <1>2, <1>3, <1>4, <1>5 DEF TypeOK

(* Counting a check stays within MinChecks. *)
LEMMA CountTypes ==
  ASSUME TypeOK, NEW i \in Refunds, NEW result \in Answers \cup {"none"}, Count(i, result)
  PROVE  /\ checks' \in [Refunds -> 0..MinChecks]
         /\ last' \in [Refunds -> Answers \cup {"null", "none", "cleared"}]
<1>1. checks[i] \in 0..MinChecks /\ MinChecks \in Nat
  BY NumberAssumption DEF TypeOK
<1>2. (IF checks[i] < MinChecks THEN checks[i] + 1 ELSE checks[i]) \in 0..MinChecks
  BY <1>1
<1>. QED
  BY <1>2 DEF Count, TypeOK

(* An intent in flight fails: its amount is released. *)
Fails(i) ==
    /\ InFlight(i)
    /\ refund' = [refund EXCEPT ![i].status = "failed"]

(* Only its status changes. *)
LEMMA FailTypes ==
  ASSUME TypeOK, NEW i \in Refunds, Fails(i)
  PROVE  /\ refund' \in [Refunds -> [status : {"none", "reserved", "captured", "failed"},
                                     amount : 0..Amount, gid : Refunds \cup {None}]]
         /\ \A k \in Refunds : refund'[k].amount = refund[k].amount
         /\ \A k \in Refunds : refund'[k].gid = refund[k].gid
         /\ \A k \in Refunds \ {i} : refund'[k] = refund[k]
         /\ refund'[i].status = "failed"
<1>1. refund[i] \in [status : {"none", "reserved", "captured", "failed"},
                     amount : 0..Amount, gid : Refunds \cup {None}]
  BY DEF TypeOK
<1>2. refund \in [Refunds -> [status : {"none", "reserved", "captured", "failed"},
                              amount : 0..Amount, gid : Refunds \cup {None}]]
  BY DEF TypeOK
<1>. QED
  BY <1>1, <1>2 DEF Fails

(* The steps, by what they change. *)
LEMMA Steps ==
  ASSUME [Next]_vars
  PROVE  \/ \E w \in Workers : Moves(w)
         \/ \E w \in Workers, i \in Refunds, status \in {"processed", "pending"} :
               AskAccepted(w, i, status) \/ AskUnheard(w, i, status)
         \/ \E w \in Workers : Release(w) \/ RecordCommit(w) \/ CheckSettles(w)
                                  \/ CheckCounts(w) \/ Clear(w)
         \/ \E w \in Workers, i \in Refunds, amount \in 1..Amount : Reserve(w, i, amount)
         \/ TakeSale
         \/ \E i \in Refunds : Age(i)
         \/ \E i \in Refunds, status \in {"processed", "failed", "odd"} :
               PaystackFinishes(i, status)
         \/ UNCHANGED vars
<1>1. ASSUME NEW w \in Workers, Step(w) \/ Abandon(w)
      PROVE  \/ Moves(w)
             \/ \E i \in Refunds, status \in {"processed", "pending"} :
                  AskAccepted(w, i, status) \/ AskUnheard(w, i, status)
             \/ Release(w) \/ RecordCommit(w) \/ CheckSettles(w) \/ CheckCounts(w) \/ Clear(w)
  BY <1>1, Zenon DEF Step, Ask, Check, Moves
<1>2. ASSUME NEW w \in Workers, NEW i \in Refunds, StartCheck(w, i) PROVE Moves(w)
  BY <1>2, Zenon DEF Moves
<1>3. ASSUME NEW i \in Refunds, StartClear(i) PROVE Manager \in Workers /\ Moves(Manager)
  BY <1>3, WorkerAssumption, Zenon DEF Moves
<1>. QED
  BY <1>1, <1>2, <1>3 DEF Next

(* Every step keeps the types. *)
LEMMA TypesStep ==
  ASSUME TypeOK, EffectsRight, AnswersRight, [Next]_vars
  PROVE  TypeOK'
<1>1. ASSUME NEW w \in Workers, Moves(w) PROVE TypeOK'
  <2>1. call' \in [Workers -> Calls] /\ UNCHANGED <<unasked, paystack>>
    BY <1>1, MovesCall DEF TypeOK
  <2>. QED
    BY <2>1 DEF TypeOK, unasked
<1>2. ASSUME NEW w \in Workers, NEW i \in Refunds, NEW status \in {"processed", "pending"},
             AskAccepted(w, i, status) \/ AskUnheard(w, i, status)
      PROVE  TypeOK'
  <2>1. call' \in [Workers -> Calls]
    <3>1. PICK rec \in Calls : call' = [call EXCEPT ![w] = rec]
      BY <1>2, CallsBuilt, Zenon DEF AskAccepted, AskUnheard, Return
    <3>. QED
      BY <3>1 DEF TypeOK
  <2>2. paystack' \in [Refunds -> Answers \cup {"none", "odd"}]
    BY <1>2 DEF AskAccepted, AskUnheard, Asked, TypeOK, Answers
  <2>. QED
    BY <1>2, <2>1, <2>2 DEF AskAccepted, AskUnheard, Asked, TypeOK, ledger
<1>3. ASSUME NEW w \in Workers, Release(w) PROVE TypeOK'
  <2>1. call[w].of \in Refunds
    BY <1>3, CallFields DEF Release, At
  <2>2. Fails(call[w].of) \/ refund' = refund
    BY <1>3 DEF Release, Fails
  <2>3. refund' \in [Refunds -> [status : {"none", "reserved", "captured", "failed"},
                                 amount : 0..Amount, gid : Refunds \cup {None}]]
    BY <2>1, <2>2, FailTypes DEF TypeOK
  <2>4. call' \in [Workers -> Calls]
    BY <1>3, CallsBuilt DEF Release, Return, TypeOK
  <2>. QED
    BY <1>3, <2>3, <2>4 DEF Release, TypeOK
<1>4. ASSUME NEW w \in Workers, RecordCommit(w) PROVE TypeOK'
  <2>1. ASSUME InFlight(call[w].of) PROVE TypeOK'
    <3>1. checks' = checks /\ last' = last
      BY <1>4, <2>1, RecordSettles
    <3>2. call[w].of \in Refunds /\ call[w].result \in Answers /\ call[w].sold \in BOOLEAN
          /\ Settle(w, call[w].of, call[w].result, call[w].of, call[w].sold)
          /\ Returns(w) /\ UNCHANGED <<cleared, aged, paystack, older>>
      BY <1>4, <2>1, RecordSettles
    <3>3. checks' \in [Refunds -> 0..MinChecks]
          /\ last' \in [Refunds -> Answers \cup {"null", "none", "cleared"}]
      BY <3>1 DEF TypeOK
    <3>. QED
      BY <3>2, <3>3, SettleTypes
  <2>2. ASSUME ~InFlight(call[w].of) PROVE TypeOK'
    <3>1. UNCHANGED <<ledger, crossed, checks, last, cleared, aged, paystack, older>>
      BY <1>4, <2>2 DEF RecordCommit, Settle, Claims
    <3>2. call' \in [Workers -> Calls]
      BY <1>4, CallsBuilt DEF RecordCommit, Return, TypeOK
    <3>. QED
      BY <3>1, <3>2 DEF TypeOK, ledger
  <2>. QED
    BY <2>1, <2>2
<1>5. ASSUME NEW w \in Workers, CheckSettles(w) PROVE TypeOK'
  <2>1. ASSUME InFlight(call[w].of) PROVE TypeOK'
    <3>1. call[w].of \in Refunds /\ call[w].result \in Answers /\ call[w].gid \in Refunds
          /\ Settle(w, call[w].of, call[w].result, call[w].gid, sale # "none")
          /\ Count(call[w].of, call[w].result)
          /\ Returns(w) /\ UNCHANGED <<cleared, aged, paystack, older>>
      BY <1>5, <2>1, CheckSettlesIt
    <3>2. checks' \in [Refunds -> 0..MinChecks]
          /\ last' \in [Refunds -> Answers \cup {"null", "none", "cleared"}]
      BY <3>1, CountTypes
    <3>3. (sale # "none") \in BOOLEAN
      OBVIOUS
    <3>. QED
      BY <3>1, <3>2, <3>3, SettleTypes
  <2>2. ASSUME ~InFlight(call[w].of) PROVE TypeOK'
    <3>1. UNCHANGED <<ledger, crossed, checks, last, cleared, aged, paystack, older>>
      BY <1>5, <2>2 DEF CheckSettles, Settle, Claims
    <3>2. call' \in [Workers -> Calls]
      BY <1>5, CallsBuilt DEF CheckSettles, Return, TypeOK
    <3>. QED
      BY <3>1, <3>2 DEF TypeOK, ledger
  <2>. QED
    BY <2>1, <2>2
<1>6. ASSUME NEW w \in Workers, CheckCounts(w) PROVE TypeOK'
  <2>1. call[w].of \in Refunds
    BY <1>6, CallFields DEF CheckCounts, Idle
  <2>2. checks' \in [Refunds -> 0..MinChecks]
        /\ last' \in [Refunds -> Answers \cup {"null", "none", "cleared"}]
    BY <1>6, <2>1, CountTypes DEF CheckCounts
  <2>3. call' \in [Workers -> Calls]
    BY <1>6, <2>1, CallsBuilt DEF CheckCounts, Return, TypeOK
  <2>. QED
    BY <1>6, <2>2, <2>3 DEF CheckCounts, TypeOK, ledger
<1>7. ASSUME NEW w \in Workers, Clear(w) PROVE TypeOK'
  <2>1. call[w].of \in Refunds
    BY <1>7, CallFields DEF Clear, At
  <2>2. Fails(call[w].of) \/ refund' = refund
    BY <1>7 DEF Clear, Eligible, Fails
  <2>3. refund' \in [Refunds -> [status : {"none", "reserved", "captured", "failed"},
                                 amount : 0..Amount, gid : Refunds \cup {None}]]
    BY <2>1, <2>2, FailTypes DEF TypeOK
  <2>4. call' \in [Workers -> Calls]
    BY <1>7, CallsBuilt DEF Clear, Return, TypeOK
  <2>5. last' \in [Refunds -> Answers \cup {"null", "none", "cleared"}] /\ cleared' \subseteq Refunds
    BY <1>7, <2>1 DEF Clear, TypeOK
  <2>6. crossed' \in BOOLEAN
    BY <1>7, Zenon DEF Clear, TypeOK
  <2>. QED
    BY <1>7, <2>3, <2>4, <2>5, <2>6 DEF Clear, TypeOK
<1>8. ASSUME NEW w \in Workers, NEW i \in Refunds, NEW amount \in 1..Amount, Reserve(w, i, amount)
      PROVE  TypeOK'
  <2>1. refund' \in [Refunds -> [status : {"none", "reserved", "captured", "failed"},
                                 amount : 0..Amount, gid : Refunds \cup {None}]]
    BY <1>8 DEF Reserve, TypeOK
  <2>2. call' \in [Workers -> Calls]
    BY <1>8, CallsBuilt DEF Reserve, TypeOK
  <2>3. older' \in [Refunds -> SUBSET Refunds]
    BY <1>8 DEF Reserve, TypeOK, Made
  <2>. QED
    BY <1>8, <2>1, <2>2, <2>3 DEF Reserve, TypeOK
<1>9. ASSUME TakeSale PROVE TypeOK'
  <2>1. crossed' \in BOOLEAN
    BY <1>9, Zenon DEF TakeSale, TypeOK
  <2>. QED
    BY <1>9, <2>1 DEF TakeSale, TypeOK
<1>10. ASSUME NEW i \in Refunds, Age(i) PROVE TypeOK'
  BY <1>10 DEF Age, TypeOK, ledger
<1>11. ASSUME NEW i \in Refunds, NEW status \in {"processed", "failed", "odd"},
              PaystackFinishes(i, status)
       PROVE  TypeOK'
  BY <1>11 DEF PaystackFinishes, TypeOK, ledger, Answers
<1>12. ASSUME UNCHANGED vars PROVE TypeOK'
  BY <1>12 DEF vars, TypeOK
<1>. QED
  BY <1>1, <1>2, <1>3, <1>4, <1>5, <1>6, <1>7, <1>8, <1>9, <1>10, <1>11, <1>12, Steps

(* Every step keeps the books. *)
LEMMA BooksStep ==
  ASSUME TypeOK, Books, AnswersRight, [Next]_vars
  PROVE  Books'
<1>1. ASSUME NEW w \in Workers, Moves(w) PROVE Books'
  BY <1>1, MovesCall, BooksKept DEF unasked
<1>2. ASSUME NEW w \in Workers, NEW i \in Refunds, NEW status \in {"processed", "pending"},
             AskAccepted(w, i, status) \/ AskUnheard(w, i, status)
      PROVE  Books'
  BY <1>2, BooksKept DEF AskAccepted, AskUnheard, Asked, ledger
<1>3. ASSUME NEW w \in Workers, Release(w) \/ Clear(w) PROVE Books'
  <2>1. call[w].of \in Refunds /\ UNCHANGED <<effects, payment>>
    BY <1>3, CallFields DEF Release, Clear, At
  <2>2. Fails(call[w].of) \/ refund' = refund
    BY <1>3 DEF Release, Clear, Eligible, Fails
  <2>3. ASSUME Fails(call[w].of) PROVE Books'
    BY <2>1, <2>3, FailTypes, BooksOpen DEF Fails
  <2>. QED
    BY <2>1, <2>2, <2>3, BooksKept
<1>4. ASSUME NEW w \in Workers, RecordCommit(w) PROVE Books'
  <2>1. ASSUME InFlight(call[w].of) PROVE Books'
    BY <1>4, <2>1, RecordSettles, BooksSettle
  <2>2. ASSUME ~InFlight(call[w].of) PROVE Books'
    BY <1>4, <2>2, BooksKept DEF RecordCommit, Settle, Claims, ledger
  <2>. QED
    BY <2>1, <2>2
<1>5. ASSUME NEW w \in Workers, CheckSettles(w) PROVE Books'
  <2>1. ASSUME InFlight(call[w].of) PROVE Books'
    <3>1. (sale # "none") \in BOOLEAN
      OBVIOUS
    <3>. QED
      BY <1>5, <2>1, <3>1, CheckSettlesIt, BooksSettle
  <2>2. ASSUME ~InFlight(call[w].of) PROVE Books'
    BY <1>5, <2>2, BooksKept DEF CheckSettles, Settle, Claims, ledger
  <2>. QED
    BY <2>1, <2>2
<1>6. ASSUME NEW w \in Workers, CheckCounts(w) PROVE Books'
  BY <1>6, BooksKept DEF CheckCounts, ledger
<1>7. ASSUME NEW w \in Workers, NEW i \in Refunds, NEW amount \in 1..Amount, Reserve(w, i, amount)
      PROVE  Books'
  BY <1>7, BooksReserve
<1>8. ASSUME TakeSale PROVE Books'
  BY <1>8, BooksKept DEF TakeSale
<1>9. ASSUME NEW i \in Refunds, Age(i) PROVE Books'
  BY <1>9, BooksKept DEF Age, ledger
<1>10. ASSUME NEW i \in Refunds, NEW status \in {"processed", "failed", "odd"},
              PaystackFinishes(i, status)
       PROVE  Books'
  BY <1>10, BooksKept DEF PaystackFinishes, ledger
<1>11. ASSUME UNCHANGED vars PROVE Books'
  BY <1>11, BooksKept DEF vars
<1>. QED
  BY <1>1, <1>2, <1>3, <1>4, <1>5, <1>6, <1>7, <1>8, <1>9, <1>10, <1>11, Steps

-----------------------------------------------------------------------------
(* Calls.  Where a call that only moves gets to. *)
LEMMA MovesTo ==
  ASSUME TypeOK, CallsRight, AnswersRight, NEW w \in Workers, Moves(w)
  PROVE  /\ \A v \in Workers \ {w} : call'[v] = call[v]
         /\ call'[w].op = "refund" => call[w].op = "refund" /\ call'[w].of = call[w].of
         /\ call'[w].at \in {"ask", "refused"} => call[w].at = "ask" /\ call'[w].of = call[w].of
         /\ call'[w].at \in {"record", "commit"} =>
               /\ call[w].at = "record" /\ call'[w].of = call[w].of
               /\ call'[w].at = "commit" /\ call'[w].sold = (sale # "none")
         /\ call'[w] # Idle => refund[call'[w].of].status # "none"
         /\ call'[w].at = "look" => call'[w].gid = refund[call'[w].of].gid
         /\ call'[w].at \in {"rivals", "settle"} /\ call'[w].result # "none" =>
               /\ LookById(w) \/ LookByAmount(w) \/ Rivals(w)
               /\ call'[w].gid # None
               /\ call'[w].result = "failed" => paystack[call'[w].gid] = "failed"
<1> DEFINE Result ==
         /\ call'[w].op = "refund" => call[w].op = "refund" /\ call'[w].of = call[w].of
         /\ call'[w].at \in {"ask", "refused"} => call[w].at = "ask" /\ call'[w].of = call[w].of
         /\ call'[w].at \in {"record", "commit"} =>
               /\ call[w].at = "record" /\ call'[w].of = call[w].of
               /\ call'[w].at = "commit" /\ call'[w].sold = (sale # "none")
         /\ call'[w] # Idle => refund[call'[w].of].status # "none"
         /\ call'[w].at = "look" => call'[w].gid = refund[call'[w].of].gid
         /\ call'[w].at \in {"rivals", "settle"} /\ call'[w].result # "none" =>
               /\ LookById(w) \/ LookByAmount(w) \/ Rivals(w)
               /\ call'[w].gid # None
               /\ call'[w].result = "failed" => paystack[call'[w].gid] = "failed"
<1>1. \A v \in Workers \ {w} : call'[v] = call[v]
  BY MovesCall DEF TypeOK
<1>2. \A rec : call' = [call EXCEPT ![w] = rec] => call'[w] = rec
  BY DEF TypeOK
<1>3. call[w] # Idle => call[w].of \in Refunds /\ refund[call[w].of].status # "none"
  BY CallFields DEF CallsRight
<1>4. ASSUME AskRefused(w) PROVE Result
  <2>1. call'[w] = [op |-> "refund", at |-> "refused", of |-> call[w].of]
    BY <1>2, <1>4 DEF AskRefused, TypeOK
  <2>2. call[w].op = "refund" /\ call[w].at = "ask" /\ call[w] # Idle
    BY <1>4 DEF AskRefused, At, Idle
  <2>. QED
    BY <1>3, <2>1, <2>2
<1>5. ASSUME RecordPeek(w) PROVE Result
  <2>1. PICK sold \in BOOLEAN : sold = (sale # "none")
    BY Zenon
  <2>2. call' = [call EXCEPT ![w] = [op |-> "refund", at |-> "commit", of |-> call[w].of,
                                     result |-> call[w].result, sold |-> sold]]
    BY <1>5, <2>1, Zenon DEF RecordPeek
  <2>3. call'[w] = [op |-> "refund", at |-> "commit", of |-> call[w].of,
                    result |-> call[w].result, sold |-> sold]
    BY <1>2, <2>2
  <2>4. call'[w].op = "refund" /\ call'[w].at = "commit" /\ call'[w].of = call[w].of
        /\ call'[w].sold = sold
    BY <2>3
  <2>5. call[w].op = "refund" /\ call[w].at = "record" /\ call[w] # Idle
    BY <1>5 DEF RecordPeek, At, Idle
  <2>6. call'[w].sold = (sale # "none")
    BY <2>1, <2>4, Zenon
  <2>. QED
    BY <1>3, <2>4, <2>5, <2>6
<1>6. ASSUME NEW at \in {"rivals", "settle"}, NEW gid, NEW result, Found(w, at, gid, result)
      PROVE  /\ call'[w] = [op |-> call[w].op, at |-> at, of |-> call[w].of,
                            gid |-> gid, result |-> result]
             /\ call[w].op \in {"check", "clear"} /\ call[w] # Idle
  BY <1>2, <1>6, CallFields DEF Found, Idle
<1>7. ASSUME LookById(w) PROVE Result
  <2>1. Found(w, "settle", call[w].gid, Known(call[w].gid)) /\ call[w].gid \in Refunds
    BY <1>7, CallFields DEF LookById
  <2>2. Known(call[w].gid) = "failed" => paystack[call[w].gid] = "failed"
    BY DEF Known
  <2>3. call'[w] = [op |-> call[w].op, at |-> "settle", of |-> call[w].of,
                    gid |-> call[w].gid, result |-> Known(call[w].gid)]
        /\ call[w].op \in {"check", "clear"} /\ call[w] # Idle
    BY <1>6, <2>1
  <2>. QED
    BY <1>3, <1>7, <2>1, <2>2, <2>3, NoneAssumption
<1>8. ASSUME LookByAmount(w) PROVE Result
  <2>1. PICK j \in Refunds : Found(w, "rivals", j, Known(j))
    BY <1>8 DEF LookByAmount, Candidates
  <2>2. Known(j) = "failed" => paystack[j] = "failed"
    BY DEF Known
  <2>3. call'[w] = [op |-> call[w].op, at |-> "rivals", of |-> call[w].of,
                    gid |-> j, result |-> Known(j)]
        /\ call[w].op \in {"check", "clear"} /\ call[w] # Idle
    BY <1>6, <2>1
  <2>. QED
    BY <1>3, <1>8, <2>1, <2>2, <2>3, NoneAssumption
<1>9. ASSUME LookFindsNone(w) PROVE Result
  <2>1. call'[w] = [op |-> call[w].op, at |-> "settle", of |-> call[w].of,
                    gid |-> call[w].gid, result |-> "none"]
        /\ call[w].op \in {"check", "clear"} /\ call[w] # Idle
    BY <1>6, <1>9 DEF LookFindsNone
  <2>. QED
    BY <1>3, <2>1
<1>10. ASSUME Rivals(w) PROVE Result
  <2>1. PICK result \in {call[w].result, "none"} :
           call' = [call EXCEPT ![w] = [op |-> call[w].op, at |-> "settle", of |-> call[w].of,
                                        gid |-> call[w].gid, result |-> result]]
    BY <1>10 DEF Rivals, TypeOK
  <2>2. call[w].at = "rivals" /\ call[w].op \in {"check", "clear"} /\ call[w] # Idle
    BY <1>10, CallFields DEF Rivals, Idle
  <2>3. call[w].result # "none" => /\ call[w].gid # None
                                   /\ call[w].result = "failed" => paystack[call[w].gid] = "failed"
    BY <2>2 DEF AnswersRight
  <2>. QED
    BY <1>2, <1>3, <1>10, <2>1, <2>2, <2>3
<1>11. ASSUME Abandon(w) PROVE Result
  BY <1>2, <1>11 DEF Abandon, Return, Idle
<1>12. ASSUME NEW i \in Refunds, StartCheck(w, i) \/ (w = Manager /\ StartClear(i)) PROVE Result
  <2>1. PICK op \in {"check", "clear"} : StartLook(w, op, i)
    BY <1>12 DEF StartCheck, StartClear
  <2>2. call'[w] = [op |-> op, at |-> "look", of |-> i, gid |-> refund[i].gid]
    BY <1>2, <2>1 DEF StartLook
  <2>3. refund[i].status # "none"
    BY <1>12 DEF StartCheck, StartClear, Eligible, InFlight
  <2>. QED
    BY <2>2, <2>3
<1> HIDE DEF Result
<1>13. Result
  BY <1>4, <1>5, <1>7, <1>8, <1>9, <1>10, <1>11, <1>12 DEF Moves
<1>. QED
  BY <1>1, <1>13 DEF Result

-----------------------------------------------------------------------------
(* What every step keeps of a refund, of Paystack's refund, and of a call. *)
RefundsLast ==
    \A i \in Refunds : refund[i].status # "none" =>
        /\ refund'[i].status # "none"
        /\ refund'[i].amount = refund[i].amount
        /\ refund'[i].status = "reserved" => refund[i].status = "reserved"
        /\ refund[i].gid # None => refund'[i].gid # None
        /\ older'[i] = older[i]

(* Paystack forgets no refund, and makes one only for a call that asks. *)
PaystackLasts ==
    \A i \in Refunds :
        /\ paystack[i] # "none" => paystack'[i] # "none"
        /\ paystack[i] = "failed" => paystack'[i] = "failed"
        /\ paystack[i] = "none" /\ paystack'[i] # "none" =>
              \E w \in Workers : Asking(w, i) /\ call[w].at = "ask" /\ call'[w].at # "ask"
                                 /\ call'[w].at # "refused"

(* How a call goes on. *)
Goes(w) ==
    \/ call'[w] \in {call[w], Idle}
    \/ Moves(w)
    \/ /\ At(w, "refund", "ask") /\ paystack'[call[w].of] # "none"
       /\ call'[w].op = "refund" /\ call'[w].at = "record" /\ call'[w].of = call[w].of
    \/ call[w].at = "settle" /\ call'[w] = [op |-> "clear", at |-> "clear", of |-> call[w].of]
    \/ \E i \in Refunds, amount \in 1..Amount : Reserve(w, i, amount)

(* Settling changes one intent: its status, and the id it holds. *)
LEMMA SettleLasts ==
  ASSUME TypeOK, NEW w \in Workers, NEW i \in Refunds, NEW result \in Answers,
         NEW gid \in Refunds, NEW sold \in BOOLEAN, Settle(w, i, result, gid, sold)
  PROVE  /\ \A k \in Refunds \ {i} : refund'[k] = refund[k]
         /\ refund'[i].status = After(result) /\ refund'[i].gid = gid
         /\ refund'[i].amount = refund[i].amount
         /\ refund[i].status = "reserved"
<1>1. refund' = [refund EXCEPT ![i] = [status |-> After(result), amount |-> refund[i].amount,
                                       gid |-> IF gid = None THEN refund[i].gid ELSE gid]]
      /\ refund[i].status = "reserved"
  BY SettleFacts DEF InFlight
<1>2. refund \in [Refunds -> [status : {"none", "reserved", "captured", "failed"},
                              amount : 0..Amount, gid : Refunds \cup {None}]]
  BY DEF TypeOK
<1>. QED
  BY <1>1, <1>2, NoneAssumption

(* Every step keeps an intent that was made. *)
LEMMA RefundsStep ==
  ASSUME TypeOK, AnswersRight, [Next]_vars
  PROVE  RefundsLast
<1>1. ASSUME refund' = refund, older' = older PROVE RefundsLast
  BY <1>1 DEF RefundsLast
<1>2. ASSUME NEW w \in Workers, Moves(w) PROVE RefundsLast
  BY <1>1, <1>2, MovesCall DEF unasked
<1>3. ASSUME NEW w \in Workers, NEW i \in Refunds, NEW status \in {"processed", "pending"},
             AskAccepted(w, i, status) \/ AskUnheard(w, i, status)
      PROVE  RefundsLast
  BY <1>1, <1>3 DEF AskAccepted, AskUnheard, Asked, ledger
<1>4. ASSUME NEW w \in Workers, Release(w) \/ Clear(w) PROVE RefundsLast
  <2>1. call[w].of \in Refunds /\ older' = older
    BY <1>4, CallFields DEF Release, Clear, At
  <2>2. Fails(call[w].of) \/ refund' = refund
    BY <1>4 DEF Release, Clear, Eligible, Fails
  <2>3. ASSUME Fails(call[w].of) PROVE RefundsLast
    BY <2>1, <2>3, FailTypes DEF Fails, InFlight, RefundsLast
  <2>. QED
    BY <1>1, <2>1, <2>2, <2>3
<1>5. ASSUME NEW w \in Workers, RecordCommit(w) PROVE RefundsLast
  <2>1. ASSUME InFlight(call[w].of) PROVE RefundsLast
    <3>1. PICK i \in Refunds, result \in Answers, gid \in Refunds, sold \in BOOLEAN :
            Settle(w, i, result, gid, sold) /\ older' = older
      BY <1>5, <2>1, RecordSettles
    <3>. QED
      BY <3>1, SettleLasts, NoneAssumption DEF RefundsLast, After
  <2>2. ASSUME ~InFlight(call[w].of) PROVE RefundsLast
    BY <1>1, <1>5, <2>2 DEF RecordCommit, Settle, Claims, ledger
  <2>. QED
    BY <2>1, <2>2
<1>6. ASSUME NEW w \in Workers, CheckSettles(w) PROVE RefundsLast
  <2>1. ASSUME InFlight(call[w].of) PROVE RefundsLast
    <3>1. (sale # "none") \in BOOLEAN
      OBVIOUS
    <3>2. PICK i \in Refunds, result \in Answers, gid \in Refunds, sold \in BOOLEAN :
            Settle(w, i, result, gid, sold) /\ older' = older
      BY <1>6, <2>1, <3>1, CheckSettlesIt
    <3>. QED
      BY <3>2, SettleLasts, NoneAssumption DEF RefundsLast, After
  <2>2. ASSUME ~InFlight(call[w].of) PROVE RefundsLast
    BY <1>1, <1>6, <2>2 DEF CheckSettles, Settle, Claims, ledger
  <2>. QED
    BY <2>1, <2>2
<1>7. ASSUME NEW w \in Workers, CheckCounts(w) PROVE RefundsLast
  BY <1>1, <1>7 DEF CheckCounts, ledger
<1>8. ASSUME NEW w \in Workers, NEW i \in Refunds, NEW amount \in 1..Amount, Reserve(w, i, amount)
      PROVE  RefundsLast
  <2>1. refund[i].status = "none"
    BY <1>8 DEF Reserve, NoRefund
  <2>2. \A k \in Refunds \ {i} : refund'[k] = refund[k] /\ older'[k] = older[k]
    BY <1>8 DEF Reserve, TypeOK
  <2>. QED
    BY <2>1, <2>2 DEF RefundsLast
<1>9. ASSUME \/ TakeSale \/ UNCHANGED vars
             \/ \E i \in Refunds : Age(i)
             \/ \E i \in Refunds, status \in {"processed", "failed", "odd"} :
                   PaystackFinishes(i, status)
      PROVE  RefundsLast
  BY <1>1, <1>9 DEF TakeSale, Age, PaystackFinishes, ledger, vars
<1>. QED
  BY <1>2, <1>3, <1>4, <1>5, <1>6, <1>7, <1>8, <1>9, Steps

(* Every step keeps Paystack's refunds. *)
LEMMA PaystackStep ==
  ASSUME TypeOK, AskersRight, [Next]_vars
  PROVE  PaystackLasts
<1>1. ASSUME paystack' = paystack PROVE PaystackLasts
  BY <1>1 DEF PaystackLasts
<1>2. ASSUME NEW w \in Workers, Moves(w) PROVE PaystackLasts
  BY <1>1, <1>2, MovesCall
<1>3. ASSUME NEW w \in Workers, NEW i \in Refunds, NEW status \in {"processed", "pending"},
             AskAccepted(w, i, status) \/ AskUnheard(w, i, status)
      PROVE  PaystackLasts
  <2>1. Asking(w, i) /\ call[w].at = "ask" /\ paystack[i] = "none"
    BY <1>3 DEF AskAccepted, AskUnheard, Asked, At, Asking, AskersRight
  <2>2. \A k \in Refunds : paystack'[k] = IF k = i THEN status ELSE paystack[k]
    BY <1>3 DEF AskAccepted, AskUnheard, Asked, TypeOK
  <2>3. call'[w].at \in {"record", "idle"}
    BY <1>3 DEF AskAccepted, AskUnheard, Return, Idle, TypeOK
  <2>. QED
    BY <2>1, <2>2, <2>3 DEF PaystackLasts
<1>4. ASSUME NEW i \in Refunds, NEW status \in {"processed", "failed", "odd"},
             PaystackFinishes(i, status)
      PROVE  PaystackLasts
  BY <1>4 DEF PaystackFinishes, PaystackLasts, TypeOK
<1>5. ASSUME NEW w \in Workers,
             Release(w) \/ RecordCommit(w) \/ CheckSettles(w) \/ CheckCounts(w) \/ Clear(w)
      PROVE  PaystackLasts
  BY <1>1, <1>5 DEF Release, RecordCommit, CheckSettles, CheckCounts, Clear
<1>6. ASSUME \/ TakeSale \/ UNCHANGED vars
             \/ \E i \in Refunds : Age(i)
             \/ \E w \in Workers, i \in Refunds, amount \in 1..Amount : Reserve(w, i, amount)
      PROVE  PaystackLasts
  BY <1>1, <1>6 DEF TakeSale, Age, Reserve, vars
<1>. QED
  BY <1>2, <1>3, <1>4, <1>5, <1>6, Steps

(* Every call goes on in one of these ways. *)
LEMMA CallsStep ==
  ASSUME TypeOK, [Next]_vars, NEW v \in Workers
  PROVE  Goes(v)
<1>1. ASSUME call' = call PROVE Goes(v)
  BY <1>1 DEF Goes
<1>2. ASSUME NEW w \in Workers, Returns(w) PROVE Goes(v)
  BY <1>2 DEF Goes, Returns, TypeOK
<1>3. ASSUME NEW w \in Workers, v # w, NEW rec, call' = [call EXCEPT ![w] = rec] PROVE Goes(v)
  BY <1>3 DEF Goes, TypeOK
<1>4. ASSUME NEW w \in Workers, Moves(w) PROVE Goes(v)
  BY <1>3, <1>4, MovesCall DEF Goes
<1>5. ASSUME NEW w \in Workers, NEW i \in Refunds, NEW status \in {"processed", "pending"},
             AskAccepted(w, i, status)
      PROVE  Goes(v)
  <2>1. /\ call' = [call EXCEPT ![w] = [op |-> "refund", at |-> "record", of |-> i,
                                        result |-> status]]
        /\ At(w, "refund", "ask") /\ i = call[w].of
        /\ paystack' = [paystack EXCEPT ![i] = status]
    BY <1>5 DEF AskAccepted, Asked
  <2>2. ASSUME v = w PROVE Goes(v)
    BY <2>1, <2>2 DEF Goes, TypeOK
  <2>. QED
    BY <1>3, <2>1, <2>2
<1>6. ASSUME NEW w \in Workers, NEW i \in Refunds, NEW status \in {"processed", "pending"},
             AskUnheard(w, i, status)
      PROVE  Goes(v)
  BY <1>2, <1>6 DEF AskUnheard, Return, Returns
<1>7. ASSUME NEW w \in Workers, Release(w) \/ RecordCommit(w) \/ CheckSettles(w) \/ Clear(w)
      PROVE  Goes(v)
  BY <1>2, <1>7 DEF Release, RecordCommit, CheckSettles, Clear, Return, Returns
<1>8. ASSUME NEW w \in Workers, CheckCounts(w) PROVE Goes(v)
  <2>1. call[w].at = "settle" /\ (\/ Returns(w)
                                  \/ call' = [call EXCEPT ![w] = [op |-> "clear", at |-> "clear",
                                                                  of |-> call[w].of]])
    BY <1>8 DEF CheckCounts, Return, Returns
  <2>2. ASSUME v = w PROVE Goes(v)
    BY <1>2, <2>1, <2>2 DEF Goes, TypeOK
  <2>. QED
    BY <1>2, <1>3, <2>1, <2>2
<1>9. ASSUME NEW w \in Workers, NEW i \in Refunds, NEW amount \in 1..Amount, Reserve(w, i, amount)
      PROVE  Goes(v)
  <2>1. ASSUME v # w PROVE Goes(v)
    BY <1>3, <1>9, <2>1 DEF Reserve
  <2>. QED
    BY <1>9, <2>1 DEF Goes
<1>10. ASSUME \/ TakeSale \/ UNCHANGED vars
              \/ \E i \in Refunds : Age(i)
              \/ \E i \in Refunds, status \in {"processed", "failed", "odd"} :
                    PaystackFinishes(i, status)
       PROVE  Goes(v)
  BY <1>1, <1>10 DEF TakeSale, Age, PaystackFinishes, vars
<1>. QED
  BY <1>4, <1>5, <1>6, <1>7, <1>8, <1>9, <1>10, Steps

(* What reserving an amount changes. *)
LEMMA ReserveFacts ==
  ASSUME TypeOK, NEW w \in Workers, NEW i \in Refunds, NEW amount, Reserve(w, i, amount)
  PROVE  /\ refund[i].status = "none" /\ call[w] = Idle
         /\ call'[w].op = "refund" /\ call'[w].at = "ask" /\ call'[w].of = i
         /\ refund'[i].status = "reserved"
         /\ \A v \in Workers \ {w} : call'[v] = call[v]
         /\ \A k \in Refunds \ {i} : refund'[k] = refund[k]
         /\ paystack' = paystack
  BY DEF Reserve, TypeOK, NoRefund

(* A process that asks for a refund after a step asked before it, or has    *)
(* just reserved it.                                                        *)
LEMMA AskingStep ==
  ASSUME TypeOK, CallsRight, AnswersRight, [Next]_vars, NEW v \in Workers, NEW i \in Refunds,
         Asking(v, i)'
  PROVE  \/ Asking(v, i)
         \/ \E amount \in 1..Amount : Reserve(v, i, amount)
<1>0. call'[v].op = "refund" /\ call'[v].of = i
  BY DEF Asking
<1>1. Goes(v)
  BY CallsStep
<1>2. ASSUME call'[v] \in {call[v], Idle} PROVE Asking(v, i)
  BY <1>0, <1>2 DEF Asking, Idle
<1>3. ASSUME Moves(v) PROVE Asking(v, i)
  BY <1>0, <1>3, MovesTo DEF Asking
<1>4. ASSUME NEW k \in Refunds, NEW amount \in 1..Amount, Reserve(v, k, amount)
      PROVE  \E n \in 1..Amount : Reserve(v, i, n)
  <2>1. k = i
    BY <1>0, <1>4, ReserveFacts
  <2>. QED
    BY <1>4, <2>1
<1>5. ASSUME At(v, "refund", "ask"), call'[v].of = call[v].of PROVE Asking(v, i)
  BY <1>0, <1>5 DEF At, Asking
<1>6. ASSUME call'[v] = [op |-> "clear", at |-> "clear", of |-> call[v].of] PROVE FALSE
  BY <1>0, <1>6
<1>. QED
  BY <1>1, <1>2, <1>3, <1>4, <1>5, <1>6 DEF Goes

(* What Paystack was never asked for it is never asked for later. *)
LEMMA NeverPaidLasts ==
  ASSUME TypeOK, CallsRight, AskersRight, AnswersRight, [Next]_vars, NEW i \in Refunds,
         refund[i].status # "none", NeverPaid(i)
  PROVE  NeverPaid(i)'
<1>1. PaystackLasts
  BY PaystackStep
<1>2. paystack[i] = "none" /\ \A w \in Workers : ~Asking(w, i)
  BY DEF NeverPaid
<1>3. paystack'[i] = "none"
  BY <1>1, <1>2 DEF PaystackLasts
<1>4. ASSUME NEW v \in Workers, Asking(v, i)' PROVE FALSE
  BY <1>2, <1>4, AskingStep, ReserveFacts
<1>. QED
  BY <1>3, <1>4 DEF NeverPaid

-----------------------------------------------------------------------------
(* A call is about a refund that was made, and one process asks for it. *)
LEMMA CallsRightStep ==
  ASSUME TypeOK, CallsRight, AnswersRight, [Next]_vars
  PROVE  CallsRight'
<1>1. RefundsLast
  BY RefundsStep
<1>2. ASSUME NEW w \in Workers, call'[w] # Idle PROVE refund'[call'[w].of].status # "none"
  <2>1. Goes(w)
    BY CallsStep
  <2>2. call[w] # Idle => call[w].of \in Refunds /\ refund[call[w].of].status # "none"
    BY CallFields DEF CallsRight
  <2>3. ASSUME NEW i \in Refunds, NEW amount \in 1..Amount, Reserve(w, i, amount)
        PROVE  refund'[call'[w].of].status # "none"
    BY <2>3, ReserveFacts
  <2>4. ASSUME Moves(w) PROVE refund'[call'[w].of].status # "none"
    <3>1. refund[call'[w].of].status # "none" /\ call' \in [Workers -> Calls]
      BY <1>2, <2>4, MovesTo, MovesCall DEF TypeOK
    <3>2. call'[w].of \in Refunds
      BY <1>2, <3>1 DEF Calls, Idle
    <3>. QED
      BY <1>1, <3>1, <3>2 DEF RefundsLast
  <2>5. ASSUME call'[w] = call[w] PROVE refund'[call'[w].of].status # "none"
    BY <1>1, <1>2, <2>2, <2>5 DEF RefundsLast
  <2>6. ASSUME call[w].at \in {"ask", "settle"}, call'[w].of = call[w].of
        PROVE  refund'[call'[w].of].status # "none"
    BY <1>1, <2>2, <2>6 DEF RefundsLast, Idle
  <2>. QED
    BY <1>2, <2>1, <2>3, <2>4, <2>5, <2>6 DEF Goes, At
<1>3. ASSUME NEW v \in Workers, NEW w \in Workers, NEW i \in Refunds, Asking(v, i)', Asking(w, i)'
      PROVE  v = w
  <2>1. ASSUME NEW u \in Workers, Asking(u, i) PROVE refund[i].status # "none"
    BY <2>1 DEF CallsRight, Asking, Idle
  <2>2. ASSUME NEW x \in Workers, NEW y \in Workers, x # y, Asking(y, i)',
               NEW amount \in 1..Amount, Reserve(x, i, amount)
        PROVE  FALSE
    <3>1. call'[y] = call[y] /\ refund[i].status = "none"
      BY <2>2, ReserveFacts
    <3>. QED
      BY <2>1, <2>2, <3>1 DEF Asking
  <2>3. v = w \/ (Asking(v, i) /\ Asking(w, i))
    BY <1>3, <2>2, AskingStep
  <2>. QED
    BY <2>3 DEF CallsRight
<1>. QED
  BY <1>2, <1>3 DEF CallsRight

(* A refund call goes on knowing what it knows of Paystack's refund. *)
LEMMA AskersRightStep ==
  ASSUME TypeOK, CallsRight, AskersRight, TimesRight, AnswersRight, [Next]_vars
  PROVE  AskersRight'
<1> SUFFICES ASSUME NEW w \in Workers
             PROVE  /\ call'[w].at \in {"ask", "refused"} => paystack'[call'[w].of] = "none"
                    /\ call'[w].at \in {"record", "commit"} => paystack'[call'[w].of] # "none"
  BY DEF AskersRight
<1>1. PaystackLasts
  BY PaystackStep
<1>2. Goes(w)
  BY CallsStep
<1>3. ASSUME call'[w].at \in {"ask", "refused"}, NEW i \in Refunds, Asking(w, i), call'[w].of = i,
             paystack[i] = "none"
      PROVE  paystack'[i] = "none"
  <2>1. ASSUME NEW v \in Workers, Asking(v, i), call'[v].at # "ask", call'[v].at # "refused"
        PROVE  FALSE
    BY <1>3, <2>1 DEF CallsRight
  <2>. QED
    BY <1>1, <1>3, <2>1 DEF PaystackLasts
<1>4. ASSUME call[w].at \in {"ask", "refused"}, call'[w].of = call[w].of,
             call'[w].at \in {"ask", "refused"}
      PROVE  paystack'[call'[w].of] = "none"
  <2>1. call[w].of \in Refunds /\ call[w].op = "refund"
    BY <1>4, CallFields DEF Idle
  <2>. QED
    BY <1>3, <1>4, <2>1 DEF Asking, AskersRight
<1>5. ASSUME call[w].at \in {"record", "commit"}, call'[w].of = call[w].of
      PROVE  paystack'[call'[w].of] # "none"
  <2>1. call[w].of \in Refunds
    BY <1>5, CallFields DEF Idle
  <2>. QED
    BY <1>1, <1>5, <2>1 DEF PaystackLasts, AskersRight
<1> DEFINE Right == /\ call'[w].at \in {"ask", "refused"} => paystack'[call'[w].of] = "none"
                    /\ call'[w].at \in {"record", "commit"} => paystack'[call'[w].of] # "none"
<1>6. ASSUME NEW i \in Refunds, NEW amount \in 1..Amount, Reserve(w, i, amount) PROVE Right
  <2>1. call'[w].at = "ask" /\ call'[w].of = i /\ paystack'[i] = "none"
    BY <1>6, ReserveFacts DEF TimesRight
  <2>. QED
    BY <2>1
<1>7. ASSUME Moves(w) PROVE Right
  <2>1. /\ call'[w].at \in {"ask", "refused"} => call[w].at = "ask" /\ call'[w].of = call[w].of
        /\ call'[w].at \in {"record", "commit"} =>
              call[w].at = "record" /\ call'[w].of = call[w].of
    BY <1>7, MovesTo
  <2>2. ASSUME call'[w].at \in {"ask", "refused"} PROVE paystack'[call'[w].of] = "none"
    BY <1>4, <2>1, <2>2
  <2>3. ASSUME call'[w].at \in {"record", "commit"} PROVE paystack'[call'[w].of] # "none"
    BY <1>5, <2>1, <2>3
  <2>. QED
    BY <2>2, <2>3
<1>8. ASSUME call'[w] \in {call[w], Idle} PROVE Right
  BY <1>4, <1>5, <1>8 DEF Idle
<1>9. ASSUME At(w, "refund", "ask"), paystack'[call[w].of] # "none", call'[w].at = "record",
             call'[w].of = call[w].of
      PROVE  Right
  BY <1>9
<1>10. ASSUME call'[w] = [op |-> "clear", at |-> "clear", of |-> call[w].of] PROVE Right
  BY <1>10
<1> HIDE DEF Right
<1>11. Right
  BY <1>2, <1>6, <1>7, <1>8, <1>9, <1>10, Zenon DEF Goes
<1>. QED
  BY <1>11 DEF Right

(* How refunds get older, and which are given up. *)
LEMMA TimesStep ==
  ASSUME TypeOK, [Next]_vars
  PROVE  /\ older' = older \/ \E w \in Workers, i \in Refunds, amount \in 1..Amount :
                                 Reserve(w, i, amount)
         /\ aged \subseteq aged'
         /\ \A w \in Workers, i \in Refunds : Asking(w, i) => aged' \ aged \subseteq older[i]
         /\ cleared' = cleared \/ \E w \in Workers : /\ Clear(w) /\ Eligible(call[w].of)
                                                     /\ cleared' = cleared \cup {call[w].of}
<1> DEFINE Result ==
         /\ older' = older \/ \E w \in Workers, i \in Refunds, amount \in 1..Amount :
                                 Reserve(w, i, amount)
         /\ aged \subseteq aged'
         /\ \A w \in Workers, i \in Refunds : Asking(w, i) => aged' \ aged \subseteq older[i]
         /\ cleared' = cleared \/ \E w \in Workers : /\ Clear(w) /\ Eligible(call[w].of)
                                                     /\ cleared' = cleared \cup {call[w].of}
<1>1. ASSUME older' = older, aged' = aged, cleared' = cleared PROVE Result
  BY <1>1
<1>2. ASSUME NEW w \in Workers, Moves(w) PROVE Result
  BY <1>1, <1>2, MovesCall DEF unasked
<1>3. ASSUME NEW w \in Workers, NEW i \in Refunds, NEW status \in {"processed", "pending"},
             AskAccepted(w, i, status) \/ AskUnheard(w, i, status)
      PROVE  Result
  BY <1>1, <1>3 DEF AskAccepted, AskUnheard, Asked
<1>4. ASSUME NEW w \in Workers,
             Release(w) \/ RecordCommit(w) \/ CheckSettles(w) \/ CheckCounts(w)
      PROVE  Result
  BY <1>1, <1>4 DEF Release, RecordCommit, CheckSettles, CheckCounts
<1>5. ASSUME NEW w \in Workers, Clear(w) PROVE Result
  <2>1. older' = older /\ aged' = aged
    BY <1>5 DEF Clear
  <2>2. cleared' = cleared \/ (Eligible(call[w].of) /\ cleared' = cleared \cup {call[w].of})
    BY <1>5 DEF Clear
  <2>. QED
    BY <1>5, <2>1, <2>2
<1>6. ASSUME NEW w \in Workers, NEW i \in Refunds, NEW amount \in 1..Amount, Reserve(w, i, amount)
      PROVE  Result
  <2>1. aged' = aged /\ cleared' = cleared
    BY <1>6 DEF Reserve
  <2>. QED
    BY <1>6, <2>1
<1>7. ASSUME NEW i \in Refunds, Age(i) PROVE Result
  <2>1. older' = older /\ cleared' = cleared /\ aged' = aged \cup {i}
        /\ \A w \in Workers, k \in Refunds : Asking(w, k) => i \in older[k]
    BY <1>7 DEF Age
  <2>. QED
    BY <2>1
<1>8. ASSUME \/ TakeSale \/ UNCHANGED vars
             \/ \E i \in Refunds, status \in {"processed", "failed", "odd"} :
                   PaystackFinishes(i, status)
      PROVE  Result
  BY <1>1, <1>8 DEF TakeSale, PaystackFinishes, vars
<1> HIDE DEF Result
<1>9. Result
  BY <1>2, <1>3, <1>4, <1>5, <1>6, <1>7, <1>8, Steps
<1>. QED
  BY <1>9 DEF Result

(* A refund old enough to be given up is older than any still asked for. *)
LEMMA TimesRightStep ==
  ASSUME TypeOK, CallsRight, AskersRight, TimesRight, AnswersRight, [Next]_vars
  PROVE  TimesRight'
<1>0. RefundsLast /\ PaystackLasts
  BY RefundsStep, PaystackStep
<1>1. \A w \in Workers, i \in Refunds : Asking(w, i) => refund[i].status # "none"
  BY DEF CallsRight, Asking, Idle
<1>2. ASSUME NEW i \in Refunds, paystack'[i] # "none" PROVE refund'[i].status # "none"
  BY <1>0, <1>1, <1>2 DEF RefundsLast, PaystackLasts, TimesRight
<1>3. ASSUME NEW w \in Workers, NEW i \in Refunds, NEW amount \in 1..Amount, Reserve(w, i, amount)
      PROVE  /\ \A k \in Refunds \ {i} : older'[k] = older[k]
             /\ i \notin older'[i] /\ aged' \subseteq older'[i] /\ aged' = aged
  BY <1>3 DEF Reserve, TypeOK, Made
<1>4. ASSUME NEW i \in Refunds PROVE i \notin older'[i]
  BY <1>3, TimesStep DEF TimesRight
<1>5. ASSUME NEW v \in Workers, NEW i \in Refunds, Asking(v, i)' PROVE aged' \subseteq older'[i]
  <2>1. ASSUME Asking(v, i) PROVE aged' \subseteq older'[i]
    <3>1. aged \subseteq older[i] /\ aged' \ aged \subseteq older[i]
      BY <2>1, TimesStep DEF TimesRight
    <3>2. older'[i] = older[i]
      BY <1>0, <1>1, <2>1 DEF RefundsLast
    <3>. QED
      BY <3>1, <3>2
  <2>2. ASSUME NEW amount \in 1..Amount, Reserve(v, i, amount) PROVE aged' \subseteq older'[i]
    BY <1>3, <2>2
  <2>. QED
    BY <1>5, <2>1, <2>2, AskingStep
<1>6. cleared' \subseteq aged'
  BY TimesStep DEF TimesRight, Eligible
<1>. QED
  BY <1>2, <1>4, <1>5, <1>6 DEF TimesRight

(* A failure at Paystack is final, so a check that saw one is right. *)
LEMMA AnswersRightStep ==
  ASSUME TypeOK, CallsRight, AskersRight, AnswersRight, [Next]_vars
  PROVE  AnswersRight'
<1> SUFFICES ASSUME NEW w \in Workers, call'[w].at \in {"rivals", "settle"}, call'[w].result # "none"
             PROVE  /\ call'[w].gid # None
                    /\ call'[w].result = "failed" => paystack'[call'[w].gid] = "failed"
  BY DEF AnswersRight
<1>1. PaystackLasts
  BY PaystackStep
<1>2. Goes(w)
  BY CallsStep
<1>3. ASSUME call'[w] = call[w]
      PROVE  /\ call'[w].gid # None
             /\ call'[w].result = "failed" => paystack'[call'[w].gid] = "failed"
  <2>1. call[w].gid \in Refunds \cup {None}
    BY <1>3, CallFields
  <2>. QED
    BY <1>1, <1>3, <2>1 DEF AnswersRight, PaystackLasts
<1>4. ASSUME Moves(w)
      PROVE  /\ call'[w].gid # None
             /\ call'[w].result = "failed" => paystack'[call'[w].gid] = "failed"
  BY <1>4, MovesTo, MovesCall
<1>5. ASSUME NEW i \in Refunds, NEW amount \in 1..Amount, Reserve(w, i, amount) PROVE FALSE
  BY <1>5, ReserveFacts
<1>. QED
  BY <1>2, <1>3, <1>4, <1>5 DEF Goes, Idle

(* What settling does to the sale; a step only ever marks a crossing. *)
LEMMA SettleSale ==
  ASSUME TypeOK, NEW w \in Workers, NEW i \in Refunds, NEW result \in Answers,
         NEW gid \in Refunds, NEW sold \in BOOLEAN, Settle(w, i, result, gid, sold),
         sold = (sale # "none"), payment = "REFUNDED" => sale # "standing"
  PROVE  /\ payment' = "REFUNDED" => sale' # "standing"
         /\ (sale' # "none") = (sale # "none")
<1>1. ASSUME result = "processed"
      PROVE  /\ payment' = IF Full(i) THEN "REFUNDED" ELSE "PARTIALLY_REFUNDED"
             /\ sale' = IF Full(i) /\ sold THEN "voided" ELSE sale
  BY <1>1, SettleFacts
<1>2. ASSUME result # "processed" PROVE payment' = payment /\ sale' = sale
  BY <1>2, SettleFacts
<1>3. ASSUME result = "processed", Full(i) PROVE sale' = IF sale # "none" THEN "voided" ELSE sale
  BY <1>1, <1>3, Zenon
<1>4. ASSUME result = "processed", ~Full(i) PROVE payment' = "PARTIALLY_REFUNDED" /\ sale' = sale
  BY <1>1, <1>4, Zenon
<1>. QED
  BY <1>2, <1>3, <1>4

(* A sale that no refund call misses is voided with its payment. *)
LEMMA SaleRightStep ==
  ASSUME TypeOK, CallsRight, AnswersRight, SaleRight, [Next]_vars
  PROVE  SaleRight'
<1> DEFINE Same(w) == call'[w].at = "commit" => \/ call'[w].sold = (sale # "none")
                                               \/ call'[w] = call[w]
<1>0. ASSUME NEW w \in Workers PROVE Same(w)
  <2>1. Goes(w)
    BY CallsStep
  <2>2. ASSUME Moves(w) PROVE Same(w)
    BY <2>2, MovesTo, Zenon
  <2>3. ASSUME NEW i \in Refunds, NEW amount \in 1..Amount, Reserve(w, i, amount)
        PROVE  call'[w].at # "commit"
    BY <2>3, ReserveFacts
  <2>4. ASSUME call'[w] = [op |-> "clear", at |-> "clear", of |-> call[w].of]
        PROVE  call'[w].at # "commit"
    BY <2>4
  <2>5. ASSUME call'[w] = Idle PROVE call'[w].at # "commit"
    BY <2>5 DEF Idle
  <2>6. ASSUME call'[w].at = "record" PROVE call'[w].at # "commit"
    BY <2>6
  <2>7. call'[w] \in {call[w], Idle} => call'[w] = call[w] \/ call'[w] = Idle
    OBVIOUS
  <2>. QED
    BY <2>1, <2>2, <2>3, <2>4, <2>5, <2>6, <2>7, Zenon DEF Goes
<1>1. ASSUME UNCHANGED <<payment, sale>>, crossed => crossed' PROVE SaleRight'
  BY <1>0, <1>1, Zenon DEF SaleRight
<1>2. ASSUME ~crossed, ~crossed',
             payment' = "REFUNDED" => sale' # "standing", (sale' # "none") = (sale # "none")
      PROVE  SaleRight'
  BY <1>0, <1>2, Zenon DEF SaleRight
<1>3. ASSUME crossed' PROVE SaleRight'
  BY <1>3, Zenon DEF SaleRight
<1>4. ASSUME NEW w \in Workers, Moves(w) PROVE SaleRight'
  BY <1>1, <1>4, MovesCall DEF unasked
<1>5. ASSUME NEW w \in Workers, NEW i \in Refunds, NEW status \in {"processed", "pending"},
             AskAccepted(w, i, status) \/ AskUnheard(w, i, status)
      PROVE  SaleRight'
  BY <1>1, <1>5 DEF AskAccepted, AskUnheard, Asked, ledger
<1>6. ASSUME NEW w \in Workers, Release(w) \/ CheckCounts(w) PROVE SaleRight'
  BY <1>1, <1>6 DEF Release, CheckCounts, ledger
<1>7. ASSUME NEW w \in Workers, Clear(w) PROVE SaleRight'
  <2>1. UNCHANGED <<payment, sale>>
    BY <1>7 DEF Clear
  <2>2. crossed => crossed'
    BY <1>7, Zenon DEF Clear
  <2>. QED
    BY <1>1, <2>1, <2>2
<1>8. ASSUME NEW w \in Workers, RecordCommit(w) PROVE SaleRight'
  <2>1. ASSUME InFlight(call[w].of), ~crossed, ~crossed' PROVE SaleRight'
    <3>1. PICK i \in Refunds, result \in Answers, gid \in Refunds :
            Settle(w, i, result, gid, call[w].sold) /\ call[w].sold \in BOOLEAN
      BY <1>8, <2>1, RecordSettles
    <3>2. call[w].sold = (sale # "none") /\ (payment = "REFUNDED" => sale # "standing")
      <4>1. call[w].at = "commit"
        BY <1>8, <2>1, RecordSettles
      <4>. QED
        BY <2>1, <4>1, Zenon DEF SaleRight
    <3>. QED
      BY <1>2, <2>1, <3>1, <3>2, SettleSale
  <2>2. ASSUME InFlight(call[w].of), crossed PROVE crossed'
    <3>1. PICK i \in Refunds, result \in Answers, gid \in Refunds, sold \in BOOLEAN :
            Settle(w, i, result, gid, sold)
      BY <1>8, <2>2, RecordSettles
    <3>. QED
      BY <2>2, <3>1, Zenon DEF Settle
  <2>3. ASSUME ~InFlight(call[w].of) PROVE SaleRight'
    BY <1>1, <1>8, <2>3 DEF RecordCommit, Settle, Claims, ledger
  <2>. QED
    BY <1>3, <2>1, <2>2, <2>3
<1>9. ASSUME NEW w \in Workers, CheckSettles(w) PROVE SaleRight'
  <2>0. PICK sold \in BOOLEAN : sold = (sale # "none")
    BY Zenon
  <2>1. ASSUME InFlight(call[w].of)
        PROVE  \E i \in Refunds, result \in Answers, gid \in Refunds :
                 Settle(w, i, result, gid, sold)
    BY <1>9, <2>0, <2>1, CheckSettlesIt, Zenon
  <2>2. ASSUME InFlight(call[w].of), ~crossed, ~crossed' PROVE SaleRight'
    <3>1. payment = "REFUNDED" => sale # "standing"
      BY <2>2 DEF SaleRight
    <3>. QED
      BY <1>2, <2>0, <2>1, <2>2, <3>1, SettleSale
  <2>3. ASSUME InFlight(call[w].of), crossed PROVE crossed'
    BY <2>1, <2>3, Zenon DEF Settle
  <2>4. ASSUME ~InFlight(call[w].of) PROVE SaleRight'
    BY <1>1, <1>9, <2>4 DEF CheckSettles, Settle, Claims, ledger
  <2>. QED
    BY <1>3, <2>2, <2>3, <2>4
<1>10. ASSUME NEW w \in Workers, NEW i \in Refunds, NEW amount \in 1..Amount, Reserve(w, i, amount)
       PROVE  SaleRight'
  BY <1>1, <1>10 DEF Reserve
<1>11. ASSUME TakeSale PROVE SaleRight'
  <2>1. /\ payment' = "CAPTURED" /\ call' = call
        /\ crossed' = (crossed \/ \E w \in Workers : At(w, "refund", "commit"))
    BY <1>11 DEF TakeSale
  <2>2. ASSUME NEW w \in Workers, ~crossed' PROVE call'[w].at # "commit"
    <3>1. ~At(w, "refund", "commit")
      BY <2>1, <2>2, Zenon
    <3>2. call[w].at = "commit" => call[w].op = "refund"
      BY CallFields
    <3>. QED
      BY <2>1, <3>1, <3>2 DEF At
  <2>. QED
    BY <2>1, <2>2, Zenon DEF SaleRight
<1>12. ASSUME \/ UNCHANGED vars
              \/ \E i \in Refunds : Age(i)
              \/ \E i \in Refunds, status \in {"processed", "failed", "odd"} :
                   PaystackFinishes(i, status)
      PROVE  SaleRight'
  BY <1>1, <1>12 DEF Age, PaystackFinishes, ledger, vars
<1>. QED
  BY <1>4, <1>5, <1>6, <1>7, <1>8, <1>9, <1>10, <1>11, <1>12, Steps, Zenon

-----------------------------------------------------------------------------
(* Whose Paystack refund is whose, as long as nothing crossed a check. *)
LEMMA CrossedGrows ==
  ASSUME TypeOK, AnswersRight, [Next]_vars, crossed
  PROVE  crossed'
<1>1. ASSUME NEW w \in Workers, Moves(w) PROVE crossed'
  BY <1>1, MovesCall DEF unasked
<1>2. ASSUME NEW w \in Workers, NEW i \in Refunds, NEW status \in {"processed", "pending"},
             AskAccepted(w, i, status) \/ AskUnheard(w, i, status)
      PROVE  crossed'
  BY <1>2 DEF AskAccepted, AskUnheard, Asked
<1>3. ASSUME NEW w \in Workers, Release(w) \/ CheckCounts(w) PROVE crossed'
  BY <1>3 DEF Release, CheckCounts
<1>4. ASSUME NEW w \in Workers, Clear(w) PROVE crossed'
  BY <1>4, Zenon DEF Clear
<1>5. ASSUME NEW w \in Workers, RecordCommit(w) PROVE crossed'
  BY <1>5, Zenon DEF RecordCommit, Settle
<1>6. ASSUME NEW w \in Workers, CheckSettles(w) PROVE crossed'
  BY <1>6, Zenon DEF CheckSettles, Settle
<1>7. ASSUME NEW w \in Workers, NEW i \in Refunds, NEW amount \in 1..Amount, Reserve(w, i, amount)
      PROVE  crossed'
  BY <1>7 DEF Reserve
<1>8. ASSUME TakeSale PROVE crossed'
  BY <1>8, Zenon DEF TakeSale
<1>9. ASSUME \/ UNCHANGED vars
             \/ \E i \in Refunds : Age(i)
             \/ \E i \in Refunds, status \in {"processed", "failed", "odd"} :
                   PaystackFinishes(i, status)
      PROVE  crossed'
  BY <1>9 DEF Age, PaystackFinishes, vars
<1>. QED
  BY <1>1, <1>2, <1>3, <1>4, <1>5, <1>6, <1>7, <1>8, <1>9, Steps, Zenon

(* What the lemmas on owners take for granted. *)
Ground == TypeOK /\ AmountsRight /\ EffectsRight /\ TimeInv

(* What fits stays fitting, and what is owned stays owned. *)
LEMMA OwnsLasts ==
  ASSUME Ground, [Next]_vars, NEW i \in Refunds, NEW j \in Refunds, refund[i].status # "none"
  PROVE  /\ Fits(i, j) => Fits(i, j)'
         /\ Owns(i, j) => Owns(i, j)'
         /\ NeverPaid(i) => NeverPaid(i)'
<1>1. RefundsLast /\ PaystackLasts
  BY RefundsStep, PaystackStep DEF Ground, TimeInv
<1>2. NeverPaid(i) => NeverPaid(i)'
  BY NeverPaidLasts DEF Ground, TimeInv
<1>3. Fits(i, j) => Fits(i, j)' /\ refund[j].status # "none"
  BY <1>1 DEF Fits, RefundsLast, PaystackLasts, Ground, TimeInv, TimesRight
<1>4. ASSUME Owns(i, j), j # i PROVE ~InFlight(j)'
  BY <1>1, <1>3, <1>4 DEF Owns, InFlight, RefundsLast
<1>. QED
  BY <1>2, <1>3, <1>4 DEF Owns

(* A step that records no Paystack refund, seen from an intent ... *)
SameGids == \A k \in Refunds : refund'[k].gid = refund[k].gid

(* ... that has one, ... *)
LEMMA GidsLast ==
  ASSUME Ground, GidsRight, [Next]_vars, SameGids
  PROVE  GidsRight'
<1> SUFFICES ASSUME NEW i \in Refunds, refund'[i].gid # None
             PROVE  (Owns(i, refund[i].gid) /\ NobodyElseHas(i, refund[i].gid))'
  BY DEF GidsRight
<1>1. PICK j \in Refunds : j = refund'[i].gid /\ j = refund[i].gid
  BY RefundFields DEF SameGids, Ground
<1>2. Owns(i, j) /\ NobodyElseHas(i, j) /\ refund[i].status # "none"
  BY <1>1 DEF GidsRight, SameGids, Ground, AmountsRight, NoRefund
<1>3. Owns(i, j)'
  BY <1>2, OwnsLasts
<1>4. NobodyElseHas(i, j)'
  BY <1>2 DEF NobodyElseHas, SameGids
<1>. QED
  BY <1>1, <1>3, <1>4 DEF Owns, Fits, NobodyElseHas, NeverPaid, InFlight, Asking

(* ... and from a check that does nothing in it. *)
LEMMA ChecksLast ==
  ASSUME Ground, [Next]_vars, SameGids, NEW v \in Workers, call'[v] = call[v],
         LookRight(v), MatchRight(v), call[v].at = "rivals" => cleared' = cleared
  PROVE  /\ LookRight(v)' /\ MatchRight(v)'
         /\ Matched(v)' => Matched(v)
<1>1. RefundsLast
  BY RefundsStep DEF Ground, TimeInv
<1>2. call[v].at \in {"look", "rivals", "settle"} =>
        /\ call[v].of \in Refunds /\ refund[call[v].of].status # "none"
        /\ call[v].gid \in Refunds \cup {None}
  BY CallFields DEF Ground, TimeInv, CallsRight, Idle
<1>3. call[v].at \in {"look", "rivals", "settle"} /\ InFlight(call[v].of)' => InFlight(call[v].of)
  BY <1>1, <1>2 DEF RefundsLast, InFlight
<1>4. LookRight(v)'
  BY <1>2, <1>3 DEF LookRight, InFlight, SameGids
<1>5. Matched(v)' => Matched(v)
  BY <1>3 DEF Matched, InFlight
<1>6. ASSUME Matched(v)' PROVE Match(v, call[v].of, call[v].gid)'
  <2>1. Matched(v)
    BY <1>5, <1>6
  <2>2. PICK i \in Refunds, j \in Refunds :
          i = call[v].of /\ j = call[v].gid /\ refund[i].status # "none"
    BY <1>2, <2>1 DEF Matched, Ground, TimeInv, AnswersRight
  <2>3. Match(v, i, j)
    BY <2>1, <2>2 DEF MatchRight
  <2>4. Fits(i, j)' /\ (Owns(i, j) => Owns(i, j)') /\ (NeverPaid(i) => NeverPaid(i)')
    BY <2>2, <2>3, OwnsLasts DEF Match
  <2>5. NobodyElseHas(i, j)' /\ refund'[i].gid \in {None, j}
    BY <2>3 DEF Match, NobodyElseHas, SameGids
  <2>6. call[v].at = "rivals" => j = i \/ NeverPaid(i)' \/ j \notin cleared'
    BY <2>3, <2>4 DEF Match
  <2>7. Match(v, i, j)'
    BY <2>3, <2>4, <2>5, <2>6 DEF Match
  <2>. QED
    BY <2>2, <2>7
<1>. QED
  BY <1>4, <1>5, <1>6 DEF MatchRight

(* A check that finds a Paystack refund. *)
Finds(w) == LookById(w) \/ LookByAmount(w) \/ Rivals(w)

(* It changes only its call, and the intent it is about is in flight. *)
LEMMA FoundFacts ==
  ASSUME Ground, NEW w \in Workers, Finds(w), Matched(w)'
  PROVE  /\ UNCHANGED <<refund, older, paystack, cleared>>
         /\ \A i \in Refunds : NeverPaid(i) => NeverPaid(i)'
         /\ call[w].of \in Refunds /\ call'[w].of = call[w].of /\ call'[w].gid \in Refunds
         /\ InFlight(call[w].of) /\ refund[call[w].of].status # "none"
         /\ \A v \in Workers \ {w} : call'[v] = call[v]
<1>1. Moves(w)
  BY DEF Finds, Moves
<1>2. UNCHANGED <<unasked, paystack>> /\ call' \in [Workers -> Calls]
  BY <1>1, MovesCall DEF Ground, TypeOK
<1>3. call[w].at \in {"look", "rivals"} /\ call'[w].of = call[w].of /\ call[w].op \in {"check", "clear"}
      /\ call[w].of \in Refunds /\ call[w].gid \in Refunds \cup {None}
      /\ call'[w].op = call[w].op
  <2>1. call[w].at \in {"look", "rivals"} /\ call[w].op \in {"check", "clear"}
        /\ call[w].of \in Refunds /\ call[w].gid \in Refunds \cup {None}
    BY CallFields DEF Finds, LookById, LookByAmount, Rivals, Ground, Idle
  <2>2. \E at, gid, result : call' = [call EXCEPT ![w] =
           [op |-> call[w].op, at |-> at, of |-> call[w].of, gid |-> gid, result |-> result]]
    <3>1. ASSUME NEW at, NEW gid, NEW result, Found(w, at, gid, result)
          PROVE  \E a, g, r : call' = [call EXCEPT ![w] =
                   [op |-> call[w].op, at |-> a, of |-> call[w].of, gid |-> g, result |-> r]]
      BY <3>1, Zenon DEF Found
    <3>2. ASSUME Rivals(w)
          PROVE  \E r : call' = [call EXCEPT ![w] =
                   [op |-> call[w].op, at |-> "settle", of |-> call[w].of, gid |-> call[w].gid,
                    result |-> r]]
      BY <3>2 DEF Rivals
    <3>. QED
      BY <3>1, <3>2, Zenon DEF Finds, LookById, LookByAmount
  <2>. QED
    BY <2>1, <2>2 DEF Ground, TypeOK
<1>4. \A v \in Workers \ {w} : call'[v] = call[v]
  BY <1>1, MovesTo DEF Ground, TimeInv
<1>5. call'[w].gid \in Refunds
  <2>1. call'[w].at \in {"rivals", "settle"} /\ call'[w].result # "none"
    BY DEF Matched
  <2>2. call'[w].gid # None
    BY <1>1, <2>1, MovesTo DEF Ground, TimeInv
  <2>3. call'[w].gid \in Refunds \cup {None}
    BY <1>2, <2>1 DEF Calls, Idle
  <2>. QED
    BY <2>2, <2>3
<1>6. InFlight(call[w].of) /\ refund[call[w].of].status # "none"
  BY <1>2, <1>3 DEF Matched, InFlight, unasked
<1>7. ASSUME NEW i \in Refunds, NeverPaid(i) PROVE NeverPaid(i)'
  BY <1>2, <1>3, <1>4, <1>7 DEF NeverPaid, Asking, unasked
<1>. QED
  BY <1>2, <1>3, <1>4, <1>5, <1>6, <1>7 DEF unasked

(* What such a check has to know of intent i and Paystack refund j ... *)
Learns(w, i, j, at) ==
    /\ Fits(i, j) /\ NobodyElseHas(i, j) /\ refund[i].gid \in {None, j}
    /\ at = "settle" => Owns(i, j)
    /\ at = "rivals" => j = i \/ NeverPaid(i) \/ j \notin cleared
    /\ \A v \in Workers \ {w} : Matched(v) =>
          /\ call[v].of = i => call[v].gid = j
          /\ call[v].at = "settle" /\ at = "settle" /\ call[v].gid = j => call[v].of = i

(* ... for all to be right after it. *)
LEMMA LearnsRight ==
  ASSUME Ground, NEW w \in Workers, Finds(w), Matched(w)',
         Learns(w, call[w].of, call'[w].gid, call'[w].at)
  PROVE  /\ MatchRight(w)'
         /\ \A v \in Workers \ {w} : Agree(v, w)' /\ Agree(w, v)'
<1>1. PICK i \in Refunds, j \in Refunds, at \in {call'[w].at} :
         /\ i = call[w].of /\ i = call'[w].of /\ j = call'[w].gid /\ at = call'[w].at
         /\ Learns(w, i, j, at)
  BY FoundFacts
<1>2. /\ UNCHANGED <<refund, older, paystack, cleared>>
      /\ \A k \in Refunds : NeverPaid(k) => NeverPaid(k)'
      /\ \A v \in Workers \ {w} : call'[v] = call[v]
  BY FoundFacts
<1>3. Fits(i, j)' /\ NobodyElseHas(i, j)' /\ refund'[i].gid \in {None, j}
  BY <1>1, <1>2 DEF Learns, Fits, NobodyElseHas
<1>4. at = "settle" => Owns(i, j)'
  BY <1>1, <1>2, <1>3 DEF Learns, Owns, InFlight
<1>5. at = "rivals" => j = i \/ NeverPaid(i)' \/ j \notin cleared'
  BY <1>1, <1>2 DEF Learns
<1>6. Match(w, i, j)'
  BY <1>1, <1>3, <1>4, <1>5 DEF Match
<1>7. ASSUME NEW v \in Workers \ {w} PROVE Agree(v, w)' /\ Agree(w, v)'
  <2>1. Matched(v)' => Matched(v)
    BY <1>2 DEF Matched, InFlight
  <2>. QED
    BY <1>1, <1>2, <2>1 DEF Learns, Agree
<1>. QED
  BY <1>1, <1>6, <1>7 DEF MatchRight

(* By its id: the intent has it. *)
LEMMA LearnsById ==
  ASSUME Ground, Owners, NEW w \in Workers, LookById(w), Matched(w)'
  PROVE  Learns(w, call[w].of, call'[w].gid, call'[w].at)
<1>1. PICK i \in Refunds, j \in Refunds :
         /\ i = call[w].of /\ j = call'[w].gid /\ InFlight(i) /\ refund[i].status # "none"
  BY FoundFacts DEF Finds
<1>2. call[w].at = "look" /\ call[w].gid # None /\ call'[w].gid = call[w].gid
      /\ call'[w].at = "settle"
  BY DEF LookById, Found, Ground, TypeOK
<1>3. refund[i].gid = j /\ j # None
  BY <1>1, <1>2 DEF Owners, LookRight
<1>4. Owns(i, j) /\ NobodyElseHas(i, j)
  BY <1>3 DEF Owners, GidsRight
<1>5. ASSUME NEW v \in Workers \ {w}, Matched(v)
      PROVE  /\ call[v].of = i => call[v].gid = j
             /\ call[v].gid = j => call[v].of = i
  <2>1. NobodyElseHas(call[v].of, call[v].gid) /\ refund[call[v].of].gid \in {None, call[v].gid}
    BY <1>5 DEF Owners, MatchRight, Match
  <2>. QED
    BY <1>3, <2>1 DEF NobodyElseHas
<1>. QED
  BY <1>1, <1>2, <1>3, <1>4, <1>5 DEF Learns, Owns

(* By its amount: nothing else fits. *)
LEMMA LearnsByAmount ==
  ASSUME Ground, Owners, NEW w \in Workers, LookByAmount(w), Matched(w)'
  PROVE  Learns(w, call[w].of, call'[w].gid, call'[w].at)
<1>1. PICK i \in Refunds, j \in Refunds :
         /\ i = call[w].of /\ j = call'[w].gid /\ InFlight(i) /\ refund[i].status # "none"
  BY FoundFacts DEF Finds
<1>2. Candidates(i) = {j} /\ call'[w].at = "rivals"
  <2>1. PICK c \in Refunds : Candidates(call[w].of) = {c} /\ Found(w, "rivals", c, Known(c))
    BY DEF LookByAmount, Candidates
  <2>2. call'[w].gid = c /\ call'[w].at = "rivals"
    BY <2>1 DEF Found, Ground, TypeOK
  <2>. QED
    BY <1>1, <2>1, <2>2
<1>3. \A c \in Refunds : Fits(i, c) /\ NobodyElseHas(i, c) <=> c = j
  BY <1>1, <1>2 DEF Candidates, Fits, NobodyElseHas
<1>4. Fits(i, j) /\ NobodyElseHas(i, j)
  BY <1>3
<1>5. refund[i].gid \in {None, j}
  <2>1. refund[i].gid \in Refunds \cup {None}
    BY RefundFields DEF Ground
  <2>. QED
    BY <1>3, <2>1 DEF Owners, GidsRight, Owns
<1>6. ASSUME j # i, j \in cleared PROVE NeverPaid(i)
  <2>1. ASSUME paystack[i] # "none" PROVE FALSE
    <3>1. Fits(i, i)
      BY <2>1 DEF Fits, Ground, TimeInv, TimesRight
    <3>2. NobodyElseHas(i, i)
      BY <1>1, NoneAssumption DEF NobodyElseHas, Owners, GidsRight, Owns
    <3>. QED
      BY <1>3, <1>6, <3>1, <3>2
  <2>2. ASSUME NEW v \in Workers, Asking(v, i) PROVE FALSE
    BY <1>4, <1>6, <2>2 DEF Fits, Ground, TimeInv, TimesRight
  <2>. QED
    BY <2>1, <2>2 DEF NeverPaid
<1>7. ASSUME NEW v \in Workers \ {w}, Matched(v), call[v].of = i PROVE call[v].gid = j
  <2>1. Fits(i, call[v].gid) /\ NobodyElseHas(i, call[v].gid)
    BY <1>7 DEF Owners, MatchRight, Match
  <2>2. call[v].gid \in Refunds
    BY <1>7, CallFields DEF Matched, Ground, TimeInv, AnswersRight
  <2>. QED
    BY <1>3, <2>1, <2>2
<1>8. Learns(w, i, j, "rivals")
  BY <1>4, <1>5, <1>6, <1>7 DEF Learns
<1>. QED
  BY <1>1, <1>2, <1>8

(* And when nobody else waits for one of that amount, it is the intent's. *)
LEMMA LearnsNoRival ==
  ASSUME Ground, Owners, NEW w \in Workers, Rivals(w), Matched(w)'
  PROVE  Learns(w, call[w].of, call'[w].gid, call'[w].at)
<1>1. PICK i \in Refunds, j \in Refunds :
         /\ i = call[w].of /\ j = call'[w].gid /\ InFlight(i) /\ refund[i].status # "none"
         /\ i = call'[w].of
  BY FoundFacts DEF Finds
<1>2. /\ call[w].at = "rivals" /\ call'[w].at = "settle" /\ call[w].gid = j
      /\ call[w].result # "none" /\ \A k \in Refunds : ~Rival(i, k)
  <2>1. /\ call'[w].at = "settle" /\ call'[w].gid = call[w].gid
        /\ call'[w].result = IF \E k \in Refunds : Rival(call[w].of, k)
                             THEN "none" ELSE call[w].result
    BY DEF Rivals, Ground, TypeOK
  <2>2. call'[w].result # "none"
    BY DEF Matched
  <2>. QED
    BY <1>1, <2>1, <2>2 DEF Rivals
<1>3. Matched(w) /\ Match(w, i, j)
  BY <1>1, <1>2 DEF Matched, Owners, MatchRight
<1>4. Fits(i, j) /\ NobodyElseHas(i, j) /\ refund[i].gid \in {None, j}
      /\ (j = i \/ NeverPaid(i) \/ j \notin cleared)
  BY <1>2, <1>3 DEF Match
<1>5. paystack[j] # "none" /\ refund[j].status # "none" /\ ~NeverPaid(j)
  BY <1>4 DEF Fits, NeverPaid, Ground, TimeInv, TimesRight
<1>6. ASSUME j # i PROVE refund[j].gid = None
  <2>1. refund[j].gid # j
    BY <1>4, <1>6 DEF NobodyElseHas
  <2>2. refund[j].gid # None => Owns(j, refund[j].gid)
    BY DEF Owners, GidsRight
  <2>. QED
    BY <1>5, <2>1, <2>2 DEF Owns
<1>7. ASSUME j # i PROVE ~InFlight(j) /\ NeverPaid(i)
  <2>1. ~InFlight(j)
    BY <1>2, <1>4, <1>6, <1>7 DEF Rival, Fits
  <2>2. refund[j].status = "failed"
    <3>1. refund[j].status \in {"none", "reserved", "captured", "failed"}
      BY RefundFields DEF Ground
    <3>2. refund[j].status # "captured"
      BY <1>6, <1>7 DEF Ground, EffectsRight
    <3>. QED
      BY <1>5, <2>1, <3>1, <3>2 DEF InFlight
  <2>3. j \in cleared
    BY <1>5, <1>6, <1>7, <2>2 DEF Owners, FailedRight
  <2>. QED
    BY <1>4, <1>7, <2>1, <2>3
<1>8. Owns(i, j)
  BY <1>4, <1>7 DEF Owns
<1>9. ASSUME NEW v \in Workers \ {w}, Matched(v), call[v].of = i PROVE call[v].gid = j
  BY <1>1, <1>2, <1>3, <1>9 DEF Owners, Agree
<1>10. ASSUME NEW v \in Workers \ {w}, Matched(v), call[v].at = "settle", call[v].gid = j
       PROVE  call[v].of = i
  <2>1. PICK k \in Refunds : k = call[v].of
    BY <1>10, CallFields DEF Matched, Ground, Idle
  <2>2. Match(v, k, j) /\ InFlight(k)
    BY <1>10, <2>1 DEF Matched, Owners, MatchRight
  <2>3. Owns(k, j) /\ refund[k].gid \in {None, j} /\ refund[k].amount = refund[i].amount
    BY <1>4, <1>10, <2>2 DEF Match, Fits
  <2>4. ASSUME k # i PROVE FALSE
    <3>1. k = j => FALSE
      BY <1>7, <2>2, <2>4
    <3>2. i # j
      BY <1>1, <2>3, <2>4 DEF Owns
    <3>3. refund[k].gid = None
      BY <1>4, <2>3, <2>4 DEF NobodyElseHas
    <3>. QED
      BY <1>2, <2>2, <2>3, <2>4, <3>3 DEF Rival
  <2>. QED
    BY <2>1, <2>4
<1>11. Learns(w, i, j, "settle")
  BY <1>4, <1>8, <1>9, <1>10 DEF Learns
<1>. QED
  BY <1>1, <1>2, <1>11

-----------------------------------------------------------------------------
(* Refunds that had failed are still right. *)
LEMMA FailedLast ==
  ASSUME Ground, FailedRight, [Next]_vars, cleared \subseteq cleared',
         \A i \in Refunds \ cleared' :
             refund'[i].status = "failed" => refund[i].status = "failed" \/ NeverPaid(i)'
  PROVE  FailedRight'
<1>1. RefundsLast /\ PaystackLasts
  BY RefundsStep, PaystackStep DEF Ground, TimeInv
<1>2. ASSUME NEW i \in Refunds \ cleared', refund'[i].status = "failed"
      PROVE  NeverPaid(i)' \/ (refund'[i].gid # None /\ paystack'[i] = "failed")
  <2>1. ASSUME refund[i].status = "failed"
        PROVE  NeverPaid(i)' \/ (refund'[i].gid # None /\ paystack'[i] = "failed")
    <3>1. NeverPaid(i) \/ (refund[i].gid # None /\ paystack[i] = "failed")
      BY <1>2, <2>1 DEF FailedRight
    <3>2. NeverPaid(i) => NeverPaid(i)'
      BY <2>1, OwnsLasts
    <3>3. refund[i].gid # None /\ paystack[i] = "failed"
             => refund'[i].gid # None /\ paystack'[i] = "failed"
      BY <1>1, <2>1 DEF RefundsLast, PaystackLasts
    <3>. QED
      BY <3>1, <3>2, <3>3
  <2>. QED
    BY <1>2, <2>1
<1>. QED
  BY <1>2 DEF FailedRight

(* A step that records no Paystack refund and starts or ends no check. *)
LEMMA OwnersLast ==
  ASSUME Ground, Owners, [Next]_vars, SameGids, FailedRight',
         \A v \in Workers : \/ call'[v] = call[v]
                            \/ call'[v].at \notin {"look", "rivals", "settle"},
         \A v \in Workers : call'[v] = call[v] /\ call[v].at = "rivals" => cleared' = cleared
  PROVE  Owners'
<1>1. GidsRight'
  BY GidsLast DEF Owners
<1>2. ASSUME NEW v \in Workers
      PROVE  LookRight(v)' /\ MatchRight(v)' /\ (Matched(v)' => Matched(v) /\ call'[v] = call[v])
  <2>1. ASSUME call'[v] = call[v]
        PROVE  LookRight(v)' /\ MatchRight(v)' /\ (Matched(v)' => Matched(v))
    BY <2>1, ChecksLast DEF Owners
  <2>2. ASSUME call'[v].at \notin {"look", "rivals", "settle"}
        PROVE  LookRight(v)' /\ MatchRight(v)' /\ ~Matched(v)'
    BY <2>2 DEF LookRight, MatchRight, Matched
  <2>. QED
    BY <2>1, <2>2
<1>3. ASSUME NEW v \in Workers, NEW w \in Workers PROVE Agree(v, w)'
  BY <1>2 DEF Agree, Owners
<1>. QED
  BY <1>1, <1>2, <1>3 DEF Owners

(* A step of a check that looks. *)
LEMMA OwnersMove ==
  ASSUME Ground, Owners, [Next]_vars, NEW w \in Workers, Moves(w)
  PROVE  Owners'
<1>1. UNCHANGED <<unasked, paystack>>
  BY MovesCall DEF Ground
<1>2. SameGids /\ cleared' = cleared
  BY <1>1 DEF SameGids, unasked
<1>3. FailedRight'
  BY <1>1, FailedLast DEF Owners, unasked
<1>4. GidsRight'
  BY <1>2, GidsLast DEF Owners
<1>5. ASSUME NEW v \in Workers \ {w}
      PROVE  /\ call'[v] = call[v]
             /\ LookRight(v)' /\ MatchRight(v)' /\ (Matched(v)' => Matched(v))
  <2>1. call'[v] = call[v]
    BY MovesTo DEF Ground, TimeInv
  <2>. QED
    BY <1>2, <2>1, ChecksLast DEF Owners
<1>6. LookRight(w)'
  BY <1>1, MovesTo DEF LookRight, Ground, TimeInv, unasked
<1>7. ASSUME Matched(w)'
      PROVE  MatchRight(w)' /\ \A v \in Workers \ {w} : Agree(v, w)' /\ Agree(w, v)'
  <2>1. Finds(w)
    BY <1>7, MovesTo DEF Finds, Matched, Ground, TimeInv
  <2>2. Learns(w, call[w].of, call'[w].gid, call'[w].at)
    BY <1>7, <2>1, LearnsById, LearnsByAmount, LearnsNoRival DEF Finds
  <2>. QED
    BY <1>7, <2>1, <2>2, LearnsRight
<1>8. MatchRight(w)' /\ \A v \in Workers \ {w} : Agree(v, w)' /\ Agree(w, v)'
  <2>1. ASSUME ~Matched(w)'
        PROVE  MatchRight(w)' /\ \A v \in Workers \ {w} : Agree(v, w)' /\ Agree(w, v)'
    BY <2>1 DEF MatchRight, Agree
  <2>. QED
    BY <1>7, <2>1
<1>9. ASSUME NEW u \in Workers \ {w}, NEW v \in Workers \ {w} PROVE Agree(u, v)'
  BY <1>5 DEF Agree, Owners
<1>10. Agree(w, w)'
  BY DEF Agree
<1>11. \A v \in Workers : LookRight(v)' /\ MatchRight(v)'
  BY <1>5, <1>6, <1>8
<1>12. ASSUME NEW u \in Workers, NEW v \in Workers PROVE Agree(u, v)'
  BY <1>8, <1>9, <1>10
<1>. QED
  BY <1>3, <1>4, <1>11, <1>12 DEF Owners

(* A Paystack refund is recorded on an intent it is the intent's own. *)
LEMMA OwnersSettle ==
  ASSUME Ground, Owners, [Next]_vars, NEW w \in Workers, NEW i \in Refunds,
         NEW result \in Answers, NEW j \in Refunds, NEW sold \in BOOLEAN,
         Settle(w, i, result, j, sold), Returns(w), UNCHANGED <<cleared, paystack, older>>,
         ~crossed', Owns(i, j), NobodyElseHas(i, j), refund[i].gid \in {None, j},
         result = "failed" => paystack[j] = "failed",
         \A v \in Workers \ {w} : Matched(v) /\ call[v].at = "settle" =>
             (call[v].of = i <=> call[v].gid = j)
  PROVE  Owners'
<1>1. /\ \A k \in Refunds \ {i} : refund'[k] = refund[k]
      /\ refund'[i].status = After(result) /\ refund'[i].gid = j
      /\ refund'[i].amount = refund[i].amount /\ refund[i].status = "reserved"
  BY SettleLasts DEF Ground
<1>2. \A v \in Workers \ {w} : call[v].at # "rivals"
  BY Zenon DEF Settle, Crosses
<1>3. /\ \A v \in Workers \ {w} : call'[v] = call[v]
      /\ call'[w].at = "idle" /\ call'[w].op = "idle"
  BY DEF Returns, Ground, TypeOK, Idle
<1>4. ASSUME NEW k \in Refunds PROVE NeverPaid(k) => NeverPaid(k)'
  BY <1>3 DEF NeverPaid, Asking
<1>5. ASSUME NEW k \in Refunds, NEW g \in Refunds
      PROVE  /\ Fits(k, g) => Fits(k, g)'
             /\ Owns(k, g) => Owns(k, g)'
  <2>1. Fits(k, g) => Fits(k, g)'
    BY <1>1 DEF Fits
  <2>2. InFlight(g)' => InFlight(g)
    BY <1>1 DEF InFlight
  <2>. QED
    BY <1>4, <2>1, <2>2 DEF Owns
<1>6. NobodyElseHas(i, j)'
  BY <1>1 DEF NobodyElseHas
<1>7. ASSUME NEW k \in Refunds \ {i}, NEW g \in Refunds \ {j}, NobodyElseHas(k, g)
      PROVE  NobodyElseHas(k, g)'
  BY <1>1, <1>7 DEF NobodyElseHas
<1>8. GidsRight'
  <2>1. ASSUME NEW k \in Refunds, refund'[k].gid # None
        PROVE  (Owns(k, refund[k].gid) /\ NobodyElseHas(k, refund[k].gid))'
    <3>1. ASSUME k = i PROVE Owns(k, j)' /\ NobodyElseHas(k, j)' /\ refund'[k].gid = j
      BY <1>1, <1>5, <1>6, <3>1
    <3>2. ASSUME k # i, NEW g \in Refunds, refund[k].gid = g
          PROVE  Owns(k, g)' /\ NobodyElseHas(k, g)' /\ refund'[k].gid = g
      <4>1. g # j /\ Owns(k, g) /\ NobodyElseHas(k, g)
        BY <3>2, NoneAssumption DEF NobodyElseHas, Owners, GidsRight
      <4>. QED
        BY <1>1, <1>5, <1>7, <3>2, <4>1
    <3>3. PICK g \in Refunds : g = refund'[k].gid
      BY <1>1, <2>1, RefundFields DEF Ground
    <3>4. Owns(k, g)' /\ NobodyElseHas(k, g)'
      BY <1>1, <3>1, <3>2, <3>3
    <3>. QED
      BY <3>3, <3>4 DEF Owns, Fits, NobodyElseHas, NeverPaid, InFlight, Asking
  <2>. QED
    BY <2>1 DEF GidsRight
<1>9. FailedRight'
  <2>1. ASSUME NEW k \in Refunds \ cleared, refund'[k].status = "failed"
        PROVE  NeverPaid(k)' \/ (refund'[k].gid # None /\ paystack'[k] = "failed")
    <3>1. ASSUME k # i PROVE NeverPaid(k)' \/ (refund'[k].gid # None /\ paystack'[k] = "failed")
      BY <1>1, <1>4, <2>1, <3>1 DEF Owners, FailedRight
    <3>2. ASSUME k = i PROVE NeverPaid(k)' \/ (refund'[k].gid # None /\ paystack'[k] = "failed")
      <4>1. result = "failed"
        BY <1>1, <2>1, <3>2 DEF After
      <4>. QED
        BY <1>1, <1>4, <3>2, <4>1, NoneAssumption DEF Owns
    <3>. QED
      BY <3>1, <3>2
  <2>. QED
    BY <2>1 DEF FailedRight
<1>10. ASSUME NEW v \in Workers \ {w}
       PROVE  LookRight(v)' /\ MatchRight(v)' /\ (Matched(v)' => Matched(v) /\ call'[v] = call[v])
  <2>1. call[v].at \in {"look", "rivals", "settle"} =>
          call[v].of \in Refunds /\ call[v].gid \in Refunds \cup {None}
    BY CallFields DEF Ground, Idle
  <2>2. LookRight(v)'
    BY <1>1, <1>3, <2>1 DEF LookRight, InFlight, Owners
  <2>3. Matched(v)' => Matched(v)
    BY <1>1, <1>3, <2>1 DEF Matched, InFlight
  <2>4. ASSUME Matched(v)' PROVE Match(v, call[v].of, call[v].gid)'
    <3>1. PICK k \in Refunds, g \in Refunds : k = call[v].of /\ g = call[v].gid
      BY <2>1, <2>3, <2>4 DEF Matched, Ground, TimeInv, AnswersRight
    <3>2. Match(v, k, g) /\ call[v].at = "settle" /\ (k = i <=> g = j)
      BY <1>2, <2>3, <2>4, <3>1 DEF Matched, Owners, MatchRight
    <3>3. Fits(k, g)' /\ Owns(k, g)'
      BY <1>5, <3>2 DEF Match
    <3>4. NobodyElseHas(k, g)'
      BY <1>6, <1>7, <3>2 DEF Match
    <3>5. refund'[k].gid \in {None, g}
      BY <1>1, <3>2 DEF Match
    <3>6. call'[v].at = "settle"
      BY <1>3, <3>2
    <3>7. Match(v, k, g)'
      BY <3>3, <3>4, <3>5, <3>6 DEF Match
    <3>. QED
      BY <1>3, <3>1, <3>7
  <2>. QED
    BY <1>3, <2>2, <2>3, <2>4 DEF MatchRight
<1>11. LookRight(w)' /\ MatchRight(w)' /\ ~Matched(w)'
  BY <1>3 DEF LookRight, MatchRight, Matched
<1>12. ASSUME NEW u \in Workers, NEW v \in Workers PROVE Agree(u, v)'
  BY <1>10, <1>11 DEF Agree, Owners
<1>. QED
  BY <1>8, <1>9, <1>10, <1>11, <1>12 DEF Owners

(* The refund call records the Paystack refund it asked for. *)
LEMMA OwnersRecord ==
  ASSUME Ground, Owners, [Next]_vars, NEW w \in Workers, RecordCommit(w), InFlight(call[w].of),
         ~crossed'
  PROVE  Owners'
<1>1. PICK i \in Refunds, result \in Answers, sold \in BOOLEAN :
         /\ i = call[w].of /\ Asking(w, i) /\ call[w].at = "commit" /\ result # "failed"
         /\ Settle(w, i, result, i, sold) /\ Returns(w)
         /\ UNCHANGED <<cleared, paystack, older>>
  BY RecordSettles DEF Ground
<1>2. InFlight(i) /\ ~NeverPaid(i)
  BY <1>1 DEF NeverPaid
<1>3. Owns(i, i)
  BY <1>1 DEF Owns, Fits, Ground, TimeInv, AskersRight, TimesRight
<1>4. NobodyElseHas(i, i)
  BY <1>2, NoneAssumption DEF NobodyElseHas, Owners, GidsRight, Owns
<1>5. refund[i].gid \in {None, i}
  BY <1>2 DEF Owners, GidsRight, Owns
<1>6. ASSUME NEW v \in Workers \ {w}, Matched(v), call[v].at = "settle"
      PROVE  call[v].of = i <=> call[v].gid = i
  <2>1. Owns(call[v].of, call[v].gid)
    BY <1>6 DEF Owners, MatchRight, Match
  <2>. QED
    BY <1>2, <2>1 DEF Owns
<1>. QED
  BY <1>1, <1>3, <1>4, <1>5, <1>6, OwnersSettle

(* A check records the one it found. *)
LEMMA OwnersCheck ==
  ASSUME Ground, Owners, [Next]_vars, NEW w \in Workers, CheckSettles(w), InFlight(call[w].of),
         ~crossed'
  PROVE  Owners'
<1>0. PICK sold \in BOOLEAN : sold = (sale # "none")
  BY Zenon
<1>1. /\ call[w].of \in Refunds /\ call[w].at = "settle" /\ call[w].result \in Answers
      /\ call[w].gid \in Refunds /\ Settle(w, call[w].of, call[w].result, call[w].gid, sold)
      /\ Returns(w) /\ UNCHANGED <<cleared, paystack, older>>
  BY <1>0, CheckSettlesIt, Zenon DEF Ground, TimeInv
<1>2. PICK i \in Refunds, j \in Refunds, result \in Answers :
         i = call[w].of /\ j = call[w].gid /\ result = call[w].result
  BY <1>1
<1>3. Matched(w) /\ Match(w, i, j)
  BY <1>1, <1>2 DEF Matched, Owners, MatchRight, CheckSettles
<1>4. Owns(i, j) /\ NobodyElseHas(i, j) /\ refund[i].gid \in {None, j}
  BY <1>1, <1>3 DEF Match
<1>5. result = "failed" => paystack[j] = "failed"
  BY <1>1, <1>2 DEF Ground, TimeInv, AnswersRight
<1>6. ASSUME NEW v \in Workers \ {w}, Matched(v), call[v].at = "settle"
      PROVE  call[v].of = i <=> call[v].gid = j
  BY <1>1, <1>2, <1>3, <1>6 DEF Owners, Agree
<1>7. Settle(w, i, result, j, sold)
  BY <1>1, <1>2
<1>. QED
  BY <1>1, <1>4, <1>5, <1>6, <1>7, OwnersSettle

(* Every step that crosses no check keeps the owners right. *)
LEMMA OwnersStep ==
  ASSUME Ground, ~crossed => Owners, [Next]_vars, ~crossed'
  PROVE  Owners'
<1>1. Owners /\ ~crossed
  BY CrossedGrows DEF Ground, TimeInv
<1>2. ASSUME SameGids, cleared' = cleared,
             \A i \in Refunds \ cleared :
                 refund'[i].status = "failed" => refund[i].status = "failed" \/ NeverPaid(i)',
             \A v \in Workers : \/ call'[v] = call[v]
                                \/ call'[v].at \notin {"look", "rivals", "settle"}
      PROVE  Owners'
  <2>1. FailedRight'
    BY <1>1, <1>2, FailedLast DEF Owners
  <2>. QED
    BY <1>1, <1>2, <2>1, OwnersLast
<1>3. ASSUME UNCHANGED <<refund, cleared>>,
             \A v \in Workers : \/ call'[v] = call[v]
                                \/ call'[v].at \notin {"look", "rivals", "settle"}
      PROVE  Owners'
  BY <1>2, <1>3 DEF SameGids
<1>4. ASSUME NEW w \in Workers, Returns(w)
      PROVE  /\ \A v \in Workers : \/ call'[v] = call[v]
                                   \/ call'[v].at \notin {"look", "rivals", "settle"}
             /\ call'[w] = Idle
  BY <1>4 DEF Returns, Ground, TypeOK, Idle
<1>5. ASSUME NEW w \in Workers, Moves(w) PROVE Owners'
  BY <1>1, <1>5, OwnersMove
<1>6. ASSUME NEW w \in Workers, NEW i \in Refunds, NEW status \in {"processed", "pending"},
             AskAccepted(w, i, status) \/ AskUnheard(w, i, status)
      PROVE  Owners'
  <2>1. refund' = refund /\ cleared' = cleared
    BY <1>6 DEF AskAccepted, AskUnheard, Asked, ledger
  <2>2. \A v \in Workers : \/ call'[v] = call[v]
                           \/ call'[v].at \notin {"look", "rivals", "settle"}
    BY <1>6 DEF AskAccepted, AskUnheard, Return, Idle, Ground, TypeOK
  <2>. QED
    BY <1>3, <2>1, <2>2
<1>7. ASSUME NEW w \in Workers, Release(w) PROVE Owners'
  <2>1. /\ Returns(w) /\ UNCHANGED <<paystack, cleared>>
        /\ call[w].op = "refund" /\ call[w].at = "refused"
    BY <1>7 DEF Release, Return, Returns, At
  <2>2. PICK i \in Refunds : i = call[w].of
    BY <2>1, CallFields DEF Ground, Idle
  <2>3. Asking(w, i) /\ paystack[i] = "none"
    BY <2>1, <2>2 DEF Asking, Ground, TimeInv, AskersRight
  <2>4. ASSUME NEW v \in Workers, Asking(v, i)' PROVE FALSE
    <3>1. v # w
      BY <1>4, <2>1, <2>4 DEF Asking, Idle
    <3>2. Asking(v, i)
      BY <2>1, <2>4, <3>1 DEF Asking, Returns, Ground, TypeOK
    <3>. QED
      BY <2>3, <3>1, <3>2 DEF Ground, TimeInv, CallsRight
  <2>5. NeverPaid(i)'
    BY <2>1, <2>3, <2>4 DEF NeverPaid
  <2>6. ASSUME Fails(i)
        PROVE  /\ SameGids
               /\ \A k \in Refunds \ {i} : refund'[k] = refund[k]
    BY <2>6, FailTypes DEF SameGids, Ground
  <2>7. Fails(i) \/ refund' = refund
    BY <1>7, <2>2 DEF Release, Fails
  <2>8. SameGids /\ \A k \in Refunds \ cleared :
            refund'[k].status = "failed" => refund[k].status = "failed" \/ NeverPaid(k)'
    BY <2>5, <2>6, <2>7 DEF SameGids
  <2>. QED
    BY <1>2, <1>4, <2>1, <2>8
<1>8. ASSUME NEW w \in Workers, Clear(w) PROVE Owners'
  <2>1. Returns(w) /\ call[w].op = "clear" /\ call[w].at = "clear"
    BY <1>8 DEF Clear, Return, Returns, At
  <2>2. PICK i \in Refunds : i = call[w].of
    BY <2>1, CallFields DEF Ground, Idle
  <2>3. ASSUME ~Eligible(i) PROVE Owners'
    BY <1>3, <1>4, <1>8, <2>1, <2>2, <2>3 DEF Clear
  <2>4. ASSUME Eligible(i) PROVE Owners'
    <3>1. Fails(i) /\ cleared' = cleared \cup {i}
      BY <1>8, <2>2, <2>4 DEF Clear, Fails, Eligible
    <3>2. ~Crosses(w)
      BY <1>8, <2>2, <2>4, Zenon DEF Clear
    <3>3. SameGids /\ \A k \in Refunds \ {i} : refund'[k] = refund[k]
      BY <3>1, FailTypes DEF SameGids, Ground
    <3>4. FailedRight'
      BY <1>1, <3>1, <3>3, FailedLast DEF Owners
    <3>5. \A v \in Workers : call'[v] = call[v] /\ call[v].at = "rivals" => cleared' = cleared
      BY <1>4, <2>1, <3>2 DEF Crosses, Idle
    <3>. QED
      BY <1>1, <1>4, <2>1, <3>3, <3>4, <3>5, OwnersLast
  <2>. QED
    BY <2>3, <2>4
<1>9. ASSUME NEW w \in Workers, RecordCommit(w) PROVE Owners'
  <2>1. ASSUME ~InFlight(call[w].of) PROVE Owners'
    <3>1. Returns(w) /\ refund' = refund /\ cleared' = cleared
      BY <1>9, <2>1 DEF RecordCommit, Settle, Claims, ledger, Return, Returns
    <3>. QED
      BY <1>3, <1>4, <3>1
  <2>. QED
    BY <1>1, <1>9, <2>1, OwnersRecord
<1>10. ASSUME NEW w \in Workers, CheckSettles(w) PROVE Owners'
  <2>1. ASSUME ~InFlight(call[w].of) PROVE Owners'
    <3>1. Returns(w) /\ refund' = refund /\ cleared' = cleared
      BY <1>10, <2>1 DEF CheckSettles, Settle, Claims, ledger, Return, Returns
    <3>. QED
      BY <1>3, <1>4, <3>1
  <2>. QED
    BY <1>1, <1>10, <2>1, OwnersCheck
<1>11. ASSUME NEW w \in Workers, CheckCounts(w) PROVE Owners'
  <2>1. refund' = refund /\ cleared' = cleared
    BY <1>11 DEF CheckCounts, ledger
  <2>2. \A v \in Workers : \/ call'[v] = call[v]
                           \/ call'[v].at \notin {"look", "rivals", "settle"}
    BY <1>11 DEF CheckCounts, Return, Idle, Ground, TypeOK
  <2>. QED
    BY <1>3, <2>1, <2>2
<1>12. ASSUME NEW w \in Workers, NEW i \in Refunds, NEW amount \in 1..Amount, Reserve(w, i, amount)
       PROVE  Owners'
  <2>1. /\ SameGids /\ cleared' = cleared
        /\ refund'[i].status = "reserved" /\ \A k \in Refunds \ {i} : refund'[k] = refund[k]
    BY <1>12 DEF Reserve, SameGids, Ground, TypeOK, NoRefund
  <2>2. \A v \in Workers : \/ call'[v] = call[v]
                           \/ call'[v].at \notin {"look", "rivals", "settle"}
    BY <1>12 DEF Reserve, Ground, TypeOK
  <2>. QED
    BY <1>2, <2>1, <2>2
<1>13. ASSUME \/ TakeSale \/ UNCHANGED vars
              \/ \E i \in Refunds : Age(i)
              \/ \E i \in Refunds, status \in {"processed", "failed", "odd"} :
                    PaystackFinishes(i, status)
       PROVE  Owners'
  BY <1>3, <1>13 DEF TakeSale, Age, PaystackFinishes, ledger, vars
<1>. QED
  BY <1>5, <1>6, <1>7, <1>8, <1>9, <1>10, <1>11, <1>12, <1>13, Steps

-----------------------------------------------------------------------------
(* RefundInv is an inductive invariant of PaymentRefund. *)
LEMMA RefundInvInit ==
  ASSUME Init
  PROVE  RefundInv
<1>1. TypeOK
  <2>1. call \in [Workers -> Calls]
    BY CallsBuilt DEF Init
  <2>2. crossed \in BOOLEAN
    BY Zenon DEF Init
  <2>3. refund \in [Refunds -> [status : {"none", "reserved", "captured", "failed"},
                                amount : 0..Amount, gid : Refunds \cup {None}]]
    BY NumberAssumption DEF Init, NoRefund
  <2>. QED
    BY <2>1, <2>2, <2>3, NumberAssumption DEF Init, TypeOK
<1>2. \A i \in Refunds : refund[i].status = "none" /\ refund[i].gid = None /\ refund[i] = NoRefund
  BY DEF Init, NoRefund
<1>3. With({"captured"}) = {} /\ With({"reserved", "captured"}) = {}
  BY <1>2 DEF With
<1>4. Total({}) = 0
  BY FS_EmptySet DEF Total, Units
<1>5. AmountsRight /\ EffectsRight /\ NeverOverRefunded
  BY <1>2, <1>3, <1>4, NumberAssumption DEF Init, AmountsRight, EffectsRight, NeverOverRefunded
<1>6. \A w \in Workers : call[w] = Idle
  BY DEF Init
<1>7. TimeInv
  BY <1>6 DEF Init, TimeInv, CallsRight, AskersRight, TimesRight, AnswersRight, Asking, Idle
<1>8. SaleRight
  <2>1. payment = "CAPTURED" /\ \A w \in Workers : call[w].at # "commit"
    BY <1>6 DEF Init, Idle
  <2>. QED
    BY <2>1 DEF SaleRight
<1>9. Owners
  BY <1>2, <1>6 DEF Owners, GidsRight, FailedRight, LookRight, MatchRight, Agree, Matched, Idle
<1>. QED
  BY <1>1, <1>5, <1>7, <1>8, <1>9 DEF RefundInv, LedgerInv

(* Every step keeps it. *)
LEMMA RefundInvStep ==
  ASSUME RefundInv, [Next]_vars
  PROVE  RefundInv'
<1>1. TypeOK /\ Books /\ TimeInv /\ SaleRight /\ Ground /\ (~crossed => Owners)
  BY DEF RefundInv, LedgerInv, Books, Ground
<1>2. CallsRight /\ AskersRight /\ TimesRight /\ AnswersRight /\ EffectsRight
  BY <1>1 DEF TimeInv, Ground
<1>3. TypeOK' /\ Books'
  BY <1>1, <1>2, TypesStep, BooksStep
<1>4. TimeInv'
  BY <1>1, <1>2, CallsRightStep, AskersRightStep, TimesRightStep, AnswersRightStep DEF TimeInv
<1>5. SaleRight'
  BY <1>1, <1>2, SaleRightStep
<1>6. ~crossed' => Owners'
  BY <1>1, OwnersStep
<1>. QED
  BY <1>3, <1>4, <1>5, <1>6 DEF RefundInv, LedgerInv, Books

(* So it holds in every behaviour. *)
LEMMA RefundInvHolds == Spec => []RefundInv
<1>. QED
  BY RefundInvInit, RefundInvStep, PTL DEF Spec

(* Types, for any number of refunds and processes. *)
THEOREM RefundTypes == Spec => []TypeOK
<1>1. RefundInv => TypeOK
  BY DEF RefundInv, LedgerInv
<1>. QED
  BY <1>1, RefundInvHolds, PTL

(* refundPayment: what was refunded, or may yet be, never exceeds the       *)
(* payment, however many processes refund it and however they end.          *)
THEOREM NoOverRefund == Spec => []NeverOverRefunded
<1>1. RefundInv => NeverOverRefunded
  BY DEF RefundInv, LedgerInv
<1>. QED
  BY <1>1, RefundInvHolds, PTL

(* applyProcessedRefundEffects: whichever path sees a refund first applies  *)
(* it, no other does, and two refunds never count one Paystack refund       *)
(* unless one is recorded between the two reads of a check.                 *)
THEOREM RefundsApplyOnce == Spec => []RefundAppliedOnce
<1>1. RefundInv => RefundAppliedOnce
  <2>1. ASSUME RefundInv, ~crossed, NEW i \in With({"captured"}), NEW j \in With({"captured"}),
               i # j
        PROVE  refund[i].gid # refund[j].gid
    <3>1. i \in Refunds /\ j \in Refunds /\ refund[i].gid # None /\ GidsRight
      BY <2>1 DEF RefundInv, LedgerInv, EffectsRight, Owners, With
    <3>. QED
      BY <2>1, <3>1 DEF GidsRight, NobodyElseHas
  <2>. QED
    BY <2>1 DEF RefundInv, LedgerInv, EffectsRight, RefundAppliedOnce
<1>. QED
  BY <1>1, RefundInvHolds, PTL

(* "Never releases an amount on doubt": an amount that is free again, and   *)
(* that no manager gave up, is of a refund Paystack does not have or failed. *)
THEOREM ReleasesAreUnpaid == Spec => []ReleasedIsUnpaid
<1>1. RefundInv => ReleasedIsUnpaid
  BY DEF RefundInv, Owners, FailedRight, NeverPaid, ReleasedIsUnpaid
<1>. QED
  BY <1>1, RefundInvHolds, PTL

(* A full refund voids the settlement it funded, unless the sale was made   *)
(* between the call's two reads.                                            *)
THEOREM FullRefundVoidsSale == Spec => []SaleVoidedInOrder
<1>1. RefundInv => SaleVoidedInOrder
  BY DEF RefundInv, SaleRight, SaleVoidedInOrder
<1>. QED
  BY <1>1, RefundInvHolds, PTL

-----------------------------------------------------------------------------
(* The ledger.  Its sums are the totals of the intents. *)
LEMMA LedgerSums ==
  ASSUME NEW S \in SUBSET Refunds
  PROVE  Ledger!Sum(S) = Total(S)
<1>1. {u \in S \X (1..Amount) : u[2] <= [i \in Refunds |-> refund[i].amount][u[1]]} = Units(S)
  BY DEF Units
<1>2. Ledger!Cardinality(Units(S)) = Cardinality(Units(S))
  BY DEF Ledger!Cardinality, Cardinality
<1>. QED
  BY <1>1, <1>2 DEF Ledger!Sum, Total

(* So are the sets of refunds it sums. *)
LEMMA LedgerSets ==
  \A statuses : Ledger!In(statuses) = With(statuses) /\ With(statuses) \in SUBSET Refunds
BY DEF Ledger!In, With

(* A step that changes neither intent, effects nor payment stutters. *)
LEMMA LedgerStutters ==
  ASSUME UNCHANGED <<refund, effects, payment>>
  PROVE  UNCHANGED Ledger!vars
BY DEF Ledger!vars

(* An intent gets another status and keeps its amount, and the others stay. *)
LEMMA LedgerChanges ==
  ASSUME NEW i \in Refunds, \A k \in Refunds \ {i} : refund'[k] = refund[k]
  PROVE  /\ [k \in Refunds |-> refund'[k].status]
               = [[k \in Refunds |-> refund[k].status] EXCEPT ![i] = refund'[i].status]
         /\ [k \in Refunds |-> refund'[k].amount]
               = [[k \in Refunds |-> refund[k].amount] EXCEPT ![i] = refund'[i].amount]
         /\ refund'[i].amount = refund[i].amount =>
               [k \in Refunds |-> refund'[k].amount] = [k \in Refunds |-> refund[k].amount]
         /\ refund'[i].status = refund[i].status =>
               [k \in Refunds |-> refund'[k].status] = [k \in Refunds |-> refund[k].status]
OBVIOUS

(* An intent in flight that fails is released. *)
LEMMA LedgerReleases ==
  ASSUME NEW i \in Refunds, InFlight(i), UNCHANGED <<effects, payment>>,
         \A k \in Refunds \ {i} : refund'[k] = refund[k],
         refund'[i].status = "failed", refund'[i].amount = refund[i].amount
  PROVE  Ledger!Release(i)
BY LedgerChanges DEF Ledger!Release, InFlight

(* An intent that is reserved fits what is left. *)
LEMMA LedgerReserves ==
  ASSUME TypeOK, NEW w \in Workers, NEW i \in Refunds, NEW amount \in 1..Amount,
         Reserve(w, i, amount)
  PROVE  Ledger!Reserve(i, amount)
<1> DEFINE T == With({"reserved", "captured"})
<1>1. /\ refund[i] = NoRefund /\ amount <= Amount - Total(T)
      /\ refund' = [refund EXCEPT ![i] = [status |-> "reserved", amount |-> amount, gid |-> None]]
      /\ UNCHANGED <<effects, payment>>
  BY NumberAssumption DEF Reserve, ledger, Available
<1>2. /\ \A k \in Refunds \ {i} : refund'[k] = refund[k]
      /\ refund'[i].status = "reserved" /\ refund'[i].amount = amount
      /\ refund[i].status = "none"
  BY <1>1 DEF TypeOK, NoRefund
<1>3. Ledger!Sum(Ledger!In({"reserved", "captured"})) = Total(T) /\ Total(T) \in Nat
  BY LedgerSets, LedgerSums, UnitsFinite
<1>4. Ledger!Sum(Ledger!In({"reserved", "captured"})) + amount <= Amount
  BY <1>1, <1>3, NumberAssumption
<1>. QED
  BY <1>1, <1>2, <1>4, LedgerChanges DEF Ledger!Reserve

(* Settling an intent captures it, releases it or leaves it in flight. *)
LEMMA LedgerSettles ==
  ASSUME TypeOK, EffectsRight, NEW w \in Workers, NEW i \in Refunds, NEW result \in Answers,
         NEW gid \in Refunds, NEW sold \in BOOLEAN, Settle(w, i, result, gid, sold)
  PROVE  Ledger!Next \/ UNCHANGED Ledger!vars
<1>1. /\ \A k \in Refunds \ {i} : refund'[k] = refund[k]
      /\ refund'[i].status = After(result) /\ refund'[i].amount = refund[i].amount
      /\ refund[i].status = "reserved"
  BY SettleLasts
<1>2. ASSUME result = "processed" PROVE Ledger!Capture(i)
  <2>1. /\ effects' = [effects EXCEPT ![i] = @ + 1]
        /\ payment' = IF Full(i) THEN "REFUNDED" ELSE "PARTIALLY_REFUNDED"
    BY <1>2, SettleFacts
  <2>2. effects[i] = 0
    BY <1>1 DEF EffectsRight
  <2>3. effects' = [effects EXCEPT ![i] = 1]
    BY <2>1, <2>2
  <2>4. Ledger!Sum(Ledger!In({"captured"}) \cup {i}) = Total(With({"captured"}) \cup {i})
    BY LedgerSets, LedgerSums
  <2>5. payment' = IF Ledger!Sum(Ledger!In({"captured"}) \cup {i}) = Amount
                   THEN "REFUNDED" ELSE "PARTIALLY_REFUNDED"
    BY <2>1, <2>4 DEF Full
  <2>6. refund'[i].status = "captured"
    BY <1>1, <1>2 DEF After
  <2>. QED
    BY <1>1, <2>3, <2>5, <2>6, LedgerChanges DEF Ledger!Capture
<1>3. ASSUME result = "failed" PROVE Ledger!Release(i)
  <2>1. UNCHANGED <<effects, payment>> /\ refund'[i].status = "failed"
    BY <1>1, <1>3, SettleFacts DEF After
  <2>. QED
    BY <1>1, <2>1, LedgerReleases DEF InFlight
<1>4. ASSUME result = "pending" PROVE UNCHANGED Ledger!vars
  <2>1. UNCHANGED <<effects, payment>> /\ refund'[i].status = "reserved"
    BY <1>1, <1>4, SettleFacts DEF After
  <2>. QED
    BY <1>1, <2>1, LedgerChanges DEF Ledger!vars
<1>. QED
  BY <1>2, <1>3, <1>4 DEF Answers, Ledger!Next

(* Every step is one of the ledger, or a stutter. *)
LEMMA LedgerStep ==
  ASSUME RefundInv, [Next]_vars
  PROVE  [Ledger!Next]_(Ledger!vars)
<1> DEFINE Goal == Ledger!Next \/ UNCHANGED Ledger!vars
<1>1. TypeOK /\ EffectsRight /\ AnswersRight
  BY DEF RefundInv, LedgerInv, TimeInv
<1>2. ASSUME UNCHANGED <<refund, effects, payment>> PROVE Goal
  BY <1>2, LedgerStutters
<1>3. ASSUME NEW w \in Workers, Moves(w) PROVE Goal
  BY <1>1, <1>2, <1>3, MovesCall DEF unasked
<1>4. ASSUME NEW w \in Workers, NEW i \in Refunds, NEW status \in {"processed", "pending"},
             AskAccepted(w, i, status) \/ AskUnheard(w, i, status)
      PROVE  Goal
  BY <1>2, <1>4 DEF AskAccepted, AskUnheard, Asked, ledger
<1>5. ASSUME NEW w \in Workers, Release(w) \/ Clear(w) PROVE Goal
  <2>1. PICK i \in Refunds : i = call[w].of
    BY <1>1, <1>5, CallFields DEF Release, Clear, At
  <2>2. UNCHANGED <<effects, payment>> /\ (Fails(i) \/ refund' = refund)
    BY <1>5, <2>1 DEF Release, Clear, Eligible, Fails
  <2>3. ASSUME Fails(i) PROVE Ledger!Release(i)
    <3>1. /\ \A k \in Refunds : refund'[k].amount = refund[k].amount
          /\ \A k \in Refunds \ {i} : refund'[k] = refund[k]
          /\ refund'[i].status = "failed"
      BY <1>1, <2>3, FailTypes
    <3>. QED
      BY <2>2, <2>3, <3>1, LedgerReleases DEF Fails
  <2>. QED
    BY <1>2, <2>2, <2>3 DEF Ledger!Next
<1>6. ASSUME NEW w \in Workers, RecordCommit(w) PROVE Goal
  <2>1. ASSUME InFlight(call[w].of) PROVE Goal
    BY <1>1, <1>6, <2>1, RecordSettles, LedgerSettles
  <2>2. ASSUME ~InFlight(call[w].of) PROVE Goal
    BY <1>2, <1>6, <2>2 DEF RecordCommit, Settle, Claims, ledger
  <2>. QED
    BY <2>1, <2>2
<1>7. ASSUME NEW w \in Workers, CheckSettles(w) PROVE Goal
  <2>1. ASSUME InFlight(call[w].of) PROVE Goal
    <3>1. (sale # "none") \in BOOLEAN
      OBVIOUS
    <3>. QED
      BY <1>1, <1>7, <2>1, <3>1, CheckSettlesIt, LedgerSettles
  <2>2. ASSUME ~InFlight(call[w].of) PROVE Goal
    BY <1>2, <1>7, <2>2 DEF CheckSettles, Settle, Claims, ledger
  <2>. QED
    BY <2>1, <2>2
<1>8. ASSUME NEW w \in Workers, NEW i \in Refunds, NEW amount \in 1..Amount, Reserve(w, i, amount)
      PROVE  Goal
  BY <1>1, <1>8, LedgerReserves DEF Ledger!Next
<1>9. ASSUME \/ TakeSale \/ UNCHANGED vars
             \/ \E w \in Workers : CheckCounts(w)
             \/ \E i \in Refunds : Age(i)
             \/ \E i \in Refunds, status \in {"processed", "failed", "odd"} :
                   PaystackFinishes(i, status)
      PROVE  Goal
  BY <1>2, <1>9 DEF TakeSale, CheckCounts, Age, PaystackFinishes, ledger, vars
<1>. QED
  BY <1>3, <1>4, <1>5, <1>6, <1>7, <1>8, <1>9, Steps

(* Refund calls, the sweep, webhooks and a manager's clear, interleaved and *)
(* interrupted anywhere, implement RefundLedger: an amount that fits is     *)
(* reserved, and is decided once, with its effects.                         *)
THEOREM ImplementsRefundLedger == Spec => RefundsAreDecidedOnce
<1>1. Init => Ledger!Init
  BY DEF Init, NoRefund, Ledger!Init
<1>2. RefundInv /\ [Next]_vars => [Ledger!Next]_(Ledger!vars)
  BY LedgerStep
<1>. QED
  BY <1>1, <1>2, RefundInvHolds, PTL DEF Spec, RefundsAreDecidedOnce, Ledger!Spec
=============================================================================
