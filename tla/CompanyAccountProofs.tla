------------------------ MODULE CompanyAccountProofs ------------------------
(***************************************************************************)
(* Theorems about CompanyAccount, for any number of folios, lines,         *)
(* invoices, payments and requests, any amounts and any limit.  The credit *)
(* limit needs only that exposures are numbers.  That an invoiced charge   *)
(* stays the company's is inductive with the types.  That applications add *)
(* up rests on the number of rows an operation inserts or reverses: a void *)
(* that nothing overtook reverses exactly the rows there are.              *)
(***************************************************************************)
EXTENDS CompanyAccount, FiniteSetTheorems, TLAPS

(* The part of TypeOK about charges, and the part about one request. *)
LinesTyped ==
    /\ place \in [Lines -> Folios \cup {Nowhere}]
    /\ voidLines \subseteq Lines
    /\ billed \subseteq Folios
    /\ invoiceOf \in [Lines -> Invoices \cup {Nowhere}]
    /\ moved \subseteq Lines

VoidTyped(v) ==
    \/ v = NoVoid
    \/ /\ \/ v.op = "invoice" /\ v.of \in Invoices
          \/ v.op = "payment" /\ v.of \in Payments
       /\ v.apps \subseteq Rows
       /\ v.invoice \in [Invoices -> InvoiceStates]

-----------------------------------------------------------------------------
(* Counting. *)

(* What a company owes is a number. *)
LEMMA ExposureIsInt ==
  ASSUME NEW at, NEW void, NEW who, NEW paid
  PROVE  Exposure(at, void, who, paid) \in Int
<1> DEFINE S == {l \in Lines \ void : at[l] \in who}
<1>1. IsFiniteSet(S) /\ IsFiniteSet(Live(paid))
  BY FiniteAssumption, FS_Subset DEF Live
<1>2. Cardinality(S) \in Nat /\ Cardinality(Live(paid)) \in Nat
  BY <1>1, FS_CardinalityType
<1>3. Amount * Cardinality(Live(paid)) \in Int
  BY <1>2, AmountAssumption
<1>4. \A x, y \in Int : x - y \in Int
  OBVIOUS
<1>. QED
  BY <1>2, <1>3, <1>4 DEF Exposure

(* One more charge takes it up by at most one unit. *)
LEMMA OneChargeMore ==
  ASSUME NEW at, NEW at2, NEW void, NEW who, NEW paid, NEW k \in Lines,
         \A l \in Lines \ {k} : at2[l] = at[l]
  PROVE  Exposure(at2, void, who, paid) <= Exposure(at, void, who, paid) + 1
<1> DEFINE S == {l \in Lines \ void : at[l] \in who}
           T == {l \in Lines \ void : at2[l] \in who}
<1>1. IsFiniteSet(S) /\ IsFiniteSet(Live(paid))
  BY FiniteAssumption, FS_Subset DEF Live
<1>2. /\ IsFiniteSet(S \cup {k})
      /\ Cardinality(S \cup {k}) <= Cardinality(S) + 1
      /\ Cardinality(S) \in Nat
  <2> HIDE DEF S, T
  <2>1. Cardinality(S) \in Nat
    BY <1>1, FS_CardinalityType
  <2>2. /\ IsFiniteSet(S \cup {k})
        /\ Cardinality(S \cup {k}) = IF k \in S THEN Cardinality(S) ELSE Cardinality(S) + 1
    BY <1>1, FS_AddElement
  <2>. QED
    BY <2>1, <2>2
<1>3. T \subseteq S \cup {k}
  OBVIOUS
<1>4. IsFiniteSet(T) /\ Cardinality(T) <= Cardinality(S \cup {k})
  BY <1>2, <1>3, FS_Subset
<1>5. Cardinality(T) \in Nat /\ Cardinality(S \cup {k}) \in Nat
  BY <1>2, <1>4, FS_CardinalityType
<1>6. Cardinality(T) <= Cardinality(S) + 1
  BY <1>2, <1>4, <1>5
<1>7. Amount * Cardinality(Live(paid)) \in Int
  BY <1>1, FS_CardinalityType, AmountAssumption
<1> HIDE DEF S, T
<1>8. Cardinality(T) - Amount * Cardinality(Live(paid))
        <= Cardinality(S) - Amount * Cardinality(Live(paid)) + 1
  BY <1>2, <1>5, <1>6, <1>7
<1>. QED
  BY <1>8 DEF Exposure, S, T

NewRows(a, k, p, i) == [id : (a + 1)..(a + k), payment : {p}, invoice : {i}]

(* The rows one application inserts: at least one, at most k. *)
LEMMA RowsInserted ==
  ASSUME NEW a \in Nat, NEW k \in Nat \ {0}, NEW p, NEW i
  PROVE  /\ IsFiniteSet(NewRows(a, k, p, i))
         /\ Cardinality(NewRows(a, k, p, i)) <= k
         /\ NewRows(a, k, p, i) # {}
<1> DEFINE I == (a + 1)..(a + k)
           B == [id : I, payment : {p}, invoice : {i}]
           f == [n \in I |-> [id |-> n, payment |-> p, invoice |-> i]]
<1>1. IsFiniteSet(I) /\ Cardinality(I) = k
  BY FS_Interval
<1>2. f \in [I -> B]
  OBVIOUS
<1>3. \A b \in B : \E n \in I : f[n] = b
  <2> TAKE b \in B
  <2>1. b.id \in I /\ b = [id |-> b.id, payment |-> p, invoice |-> i]
    OBVIOUS
  <2>. QED
    BY <2>1
<1>4. f \in Surjection(I, B)
  BY <1>2, <1>3 DEF Surjection
<1>5. IsFiniteSet(B) /\ Cardinality(B) <= Cardinality(I)
  BY <1>1, <1>4, FS_Surjection
<1>6. a + 1 \in I
  OBVIOUS
<1>7. B # {}
  BY <1>2, <1>6
<1>. QED
  BY <1>1, <1>5, <1>7 DEF NewRows

-----------------------------------------------------------------------------
(* Types, and the charges a company was invoiced for. *)

ChargesInv == LinesTyped /\ InvoicedChargeStaysWithCompany

(* The operations on lines and folios. *)
LinesAction ==
    \/ \E l \in Lines, f \in Folios :
        \/ \E o \in BOOLEAN : PostCharge(l, f, o)
        \/ MoveLineItem(l, f)
    \/ \E l \in Lines : VoidLineItem(l)
    \/ \E f \in Folios : BillToCompany(f) \/ Unbill(f)

(* The operations on payments and their applications. *)
MoneyAction ==
    \/ \E p \in Payments :
        \/ RecordPayment(p)
        \/ \E i \in Invoices, k \in 1..Amount : ApplyPayment(p, i, k)
    \/ \E r \in Requests :
        \/ \E i \in Invoices : BeginVoid(r, "invoice", i)
        \/ \E p \in Payments : BeginVoid(r, "payment", p)
        \/ VoidInvoice(r) \/ VoidPayment(r) \/ Abort(r)

(* A step is one on charges, one on money, or an invoice drawn. *)
LEMMA NextSplit ==
  Next <=> LinesAction \/ MoneyAction \/ \E i \in Invoices : GenerateInvoice(i)
  BY DEF Next, LinesAction, MoneyAction

(* Money moves no charge. *)
LEMMA MoneyLeavesLines == MoneyAction => UNCHANGED <<lines, moved>>
  BY DEF MoneyAction, RecordPayment, ApplyPayment, BeginVoid, VoidInvoice, VoidPayment,
         Abort, history

(* Charges touch no payment, application or request. *)
LEMMA LinesLeaveMoney ==
  LinesAction => UNCHANGED <<invoiceOf, invoice, payment, apps, appId, trx, raced>>
  BY DEF LinesAction, PostCharge, MoveLineItem, VoidLineItem, BillToCompany, Unbill, history

(* Every step keeps invoiced charges with the company. *)
LEMMA ChargesStep ==
  ASSUME ChargesInv, [Next]_vars
  PROVE  ChargesInv'
<1> USE NowhereAssumption
<1> USE DEF ChargesInv, LinesTyped, InvoicedChargeStaysWithCompany
<1>1. ASSUME NEW l \in Lines, NEW f \in Folios, NEW o \in BOOLEAN, PostCharge(l, f, o)
      PROVE  ChargesInv'
  <2>1. /\ place[l] = Nowhere
        /\ place' = [place EXCEPT ![l] = f]
        /\ UNCHANGED <<voidLines, billed, invoiceOf, moved>>
    BY <1>1 DEF PostCharge, history
  <2>2. l \notin moved => invoiceOf[l] = Nowhere
    BY <2>1
  <2>. QED
    BY <2>1, <2>2
<1>2. ASSUME NEW l \in Lines, NEW f \in Folios, MoveLineItem(l, f) PROVE ChargesInv'
  <2>1. /\ place' = [place EXCEPT ![l] = f]
        /\ moved' = IF invoiceOf[l] = Nowhere THEN moved ELSE moved \cup {l}
        /\ UNCHANGED <<voidLines, billed, invoiceOf>>
    BY <1>2 DEF MoveLineItem
  <2>. QED
    BY <2>1
<1>3. ASSUME NEW l \in Lines, VoidLineItem(l) PROVE ChargesInv'
  <2>1. /\ invoiceOf[l] = Nowhere
        /\ voidLines' = voidLines \cup {l}
        /\ UNCHANGED <<place, billed, invoiceOf, moved>>
    BY <1>3 DEF VoidLineItem, Voidable, history
  <2>. QED
    BY <2>1
<1>4. ASSUME NEW f \in Folios, BillToCompany(f) PROVE ChargesInv'
  <2>1. /\ billed' = billed \cup {f}
        /\ UNCHANGED <<place, voidLines, invoiceOf, moved>>
    BY <1>4 DEF BillToCompany, history
  <2>. QED
    BY <2>1
<1>5. ASSUME NEW f \in Folios, Unbill(f) PROVE ChargesInv'
  <2>1. /\ \A l \in Lines : place[l] = f => invoiceOf[l] = Nowhere
        /\ billed' = billed \ {f}
        /\ UNCHANGED <<place, voidLines, invoiceOf, moved>>
    BY <1>5 DEF Unbill, NeverInvoiced, history
  <2>. QED
    BY <2>1
<1>6. ASSUME NEW i \in Invoices, GenerateInvoice(i) PROVE ChargesInv'
  <2>1. /\ invoiceOf' = [l \in Lines |-> IF l \in Eligible THEN i ELSE invoiceOf[l]]
        /\ UNCHANGED <<place, voidLines, billed, moved>>
    BY <1>6 DEF GenerateInvoice, history
  <2>2. \A l \in Eligible : l \notin voidLines /\ place[l] \in billed
    BY DEF Eligible
  <2>. QED
    BY <2>1, <2>2
<1>7. CASE MoneyAction \/ UNCHANGED vars
  <2>1. UNCHANGED <<lines, moved>>
    BY <1>7, MoneyLeavesLines DEF vars, history
  <2>. QED
    BY <2>1 DEF lines
<1>. QED
  BY <1>1, <1>2, <1>3, <1>4, <1>5, <1>6, <1>7, NextSplit DEF LinesAction

(* A charge the company was invoiced for is neither voided nor back with the *)
(* guest, unless it was moved once invoiced.                                 *)
THEOREM InvoicedStays == Spec => []InvoicedChargeStaysWithCompany
<1>1. Init => ChargesInv
  BY NowhereAssumption DEF Init, ChargesInv, LinesTyped, InvoicedChargeStaysWithCompany
<1>. QED
  BY <1>1, ChargesStep, PTL DEF Spec, ChargesInv

-----------------------------------------------------------------------------
(* The credit limit. *)

(* Without an override, a charge on a billed folio keeps within the limit    *)
(* what the company owes, whatever balance is stored.                        *)
THEOREM LimitHolds == Spec => ChargesWithinLimit
<1>1. ASSUME LinesTyped, NEW l \in Lines, NEW f \in billed, PostCharge(l, f, FALSE)
      PROVE  Exposure(place', voidLines', billed', payment') <= Limit
  <2>1. /\ Exposure(place, voidLines, billed, payment) + 1 <= Limit
        /\ place' = [place EXCEPT ![l] = f]
        /\ UNCHANGED <<voidLines, billed, payment>>
    BY <1>1 DEF PostCharge, Projected
  <2>2. \A k \in Lines \ {l} : place'[k] = place[k]
    BY <1>1, <2>1 DEF LinesTyped
  <2>3. Exposure(place', voidLines, billed, payment)
          <= Exposure(place, voidLines, billed, payment) + 1
    BY <2>2, OneChargeMore
  <2>4. /\ Exposure(place', voidLines, billed, payment) \in Int
        /\ Exposure(place, voidLines, billed, payment) \in Int
    BY ExposureIsInt
  <2>. QED
    BY <2>1, <2>3, <2>4, AmountAssumption
<1>2. LinesTyped => \A l \in Lines, f \in billed :
        PostCharge(l, f, FALSE) => Exposure(place', voidLines', billed', payment') <= Limit
  BY <1>1
<1>3. Init => ChargesInv
  BY NowhereAssumption DEF Init, ChargesInv, LinesTyped, InvoicedChargeStaysWithCompany
<1>. QED
  BY <1>2, <1>3, ChargesStep, PTL DEF Spec, ChargesInv, ChargesWithinLimit

-----------------------------------------------------------------------------
(* Types. *)

(* The operations on charges keep every state of TypeOK. *)
LEMMA LinesTypes ==
  ASSUME TypeOK, LinesAction
  PROVE  TypeOK'
<1> USE NowhereAssumption DEF TypeOK
<1>1. ASSUME NEW l \in Lines, NEW f \in Folios, NEW o \in BOOLEAN, PostCharge(l, f, o)
      PROVE  TypeOK'
  BY <1>1, ExposureIsInt DEF PostCharge, history
<1>2. ASSUME NEW l \in Lines, NEW f \in Folios, MoveLineItem(l, f) PROVE TypeOK'
  BY <1>2 DEF MoveLineItem
<1>3. ASSUME NEW l \in Lines, VoidLineItem(l) PROVE TypeOK'
  BY <1>3, ExposureIsInt DEF VoidLineItem, history
<1>4. ASSUME NEW f \in Folios, BillToCompany(f) \/ Unbill(f) PROVE TypeOK'
  BY <1>4 DEF BillToCompany, Unbill, history
<1>. QED
  BY <1>1, <1>2, <1>3, <1>4 DEF LinesAction

(* The operations on payments and applications keep every state of TypeOK. *)
LEMMA MoneyTypes ==
  ASSUME TypeOK, MoneyAction
  PROVE  TypeOK'
<1> USE AmountAssumption
<1>1. ASSUME NEW p \in Payments, RecordPayment(p) PROVE TypeOK'
  BY <1>1, ExposureIsInt DEF TypeOK, RecordPayment, lines, history
<1>2. ASSUME NEW p \in Payments, NEW i \in Invoices, NEW k \in 1..Amount, ApplyPayment(p, i, k)
      PROVE  TypeOK'
  <2>1. /\ appId \in 0..MaxApp /\ appId' = appId + k /\ appId + k <= MaxApp /\ k \in 1..Amount
        /\ apps' = apps \cup NewRows(appId, k, p, i)
        /\ invoice' = [invoice EXCEPT ![i] = StatusFor(AppliedTo(apps', i), i)]
        /\ UNCHANGED <<place, voidLines, billed, invoiceOf, payment, balance, trx, moved, raced>>
    BY <1>2 DEF TypeOK, ApplyPayment, NewRows, lines, history
  <2>2. appId' \in 0..MaxApp /\ (appId + 1)..(appId + k) \subseteq 1..MaxApp
    BY <2>1
  <2>3. NewRows(appId, k, p, i) \subseteq Rows
    BY <1>2, <2>2 DEF NewRows, Rows
  <2>4. invoice' \in [Invoices -> InvoiceStates]
    BY <2>1 DEF TypeOK, StatusFor, InvoiceStates
  <2>. QED
    BY <2>1, <2>2, <2>3, <2>4 DEF TypeOK
<1>3. ASSUME NEW r \in Requests, \/ \E i \in Invoices : BeginVoid(r, "invoice", i)
                                 \/ \E p \in Payments : BeginVoid(r, "payment", p)
      PROVE  TypeOK'
  <2>1. PICK v : /\ VoidTyped(v) /\ trx' = [trx EXCEPT ![r] = v]
                 /\ UNCHANGED <<lines, invoice, payment, apps, appId, balance, history>>
    BY <1>3 DEF BeginVoid, VoidTyped, TypeOK
  <2>. QED
    BY <2>1 DEF TypeOK, VoidTyped, lines, history
<1>4. ASSUME NEW r \in Requests, Abort(r) PROVE TypeOK'
  BY <1>4 DEF TypeOK, Abort, Finish, lines, history
<1>5. ASSUME NEW r \in Requests, VoidInvoice(r) PROVE TypeOK'
  <2>1. /\ invoice' = [invoice EXCEPT ![trx[r].of] = "void"]
        /\ apps' \subseteq apps /\ raced' \in BOOLEAN
        /\ trx' = [trx EXCEPT ![r] = NoVoid]
        /\ UNCHANGED <<lines, payment, appId, balance, moved>>
    BY <1>5 DEF VoidInvoice, Finish
  <2>2. invoice' \in [Invoices -> InvoiceStates]
    BY <2>1 DEF TypeOK, InvoiceStates
  <2>. QED
    BY <2>1, <2>2 DEF TypeOK, lines
<1>6. ASSUME NEW r \in Requests, VoidPayment(r) PROVE TypeOK'
  <2>1. /\ payment' = [payment EXCEPT ![trx[r].of] = "void"]
        /\ apps' \subseteq apps /\ raced' \in BOOLEAN
        /\ balance' = Exposure(place, voidLines, billed, payment')
        /\ trx' = [trx EXCEPT ![r] = NoVoid]
        /\ UNCHANGED <<lines, appId, moved>>
    BY <1>6 DEF VoidPayment, Finish
  <2>2. \A n, i : StatusAfterVoid(n, i) \in InvoiceStates
    BY DEF StatusAfterVoid, StatusFor, InvoiceStates
  <2>3. invoice' \in [Invoices -> InvoiceStates]
    BY <1>6, <2>2 DEF VoidPayment, TypeOK
  <2>. QED
    BY <2>1, <2>3, ExposureIsInt DEF TypeOK, lines
<1>. QED
  BY <1>1, <1>2, <1>3, <1>4, <1>5, <1>6 DEF MoneyAction

(* So does every step. *)
LEMMA TypesStep ==
  ASSUME TypeOK, [Next]_vars
  PROVE  TypeOK'
<1>1. ASSUME NEW i \in Invoices, GenerateInvoice(i) PROVE TypeOK'
  BY <1>1 DEF TypeOK, GenerateInvoice, InvoiceStates, history
<1>2. CASE UNCHANGED vars
  BY <1>2 DEF TypeOK, vars, lines, history
<1>. QED
  BY <1>1, <1>2, LinesTypes, MoneyTypes, NextSplit

(* The account starts with nothing on it. *)
LEMMA InitTypes == Init => TypeOK
<1> SUFFICES ASSUME Init PROVE TypeOK
  OBVIOUS
<1>1. /\ place \in [Lines -> Folios \cup {Nowhere}]
      /\ invoiceOf \in [Lines -> Invoices \cup {Nowhere}]
      /\ voidLines \subseteq Lines /\ billed \subseteq Folios /\ moved \subseteq Lines
  BY DEF Init
<1>2. /\ invoice \in [Invoices -> InvoiceStates]
      /\ payment \in [Payments -> {"none", "live", "void"}]
  BY DEF Init, InvoiceStates
<1>3. apps \subseteq Rows /\ raced \in BOOLEAN
  BY Zenon DEF Init
<1>4. appId = 0 /\ balance = 0
  BY DEF Init
<1>5. appId \in 0..MaxApp /\ balance \in Int
  BY <1>4, AmountAssumption
<1>6. DOMAIN trx = Requests /\ \A r \in Requests : trx[r] = NoVoid
  BY DEF Init
<1>. QED
  BY <1>1, <1>2, <1>3, <1>5, <1>6 DEF TypeOK

(* Every variable keeps its type. *)
THEOREM CompanyTypes == Spec => []TypeOK
<1>. QED
  BY InitTypes, TypesStep, PTL DEF Spec

-----------------------------------------------------------------------------
(* Applications. *)

(* What AllocationsAddUp says of one payment, and of one invoice. *)
FitsPayment(S, p) == AppliedFrom(S, p) <= Amount
FitsTotal(S, i)   == AppliedTo(S, i) <= Total(i)

StatusRight(status, n, i) ==
    /\ status \in {"none", "issued", "void"} => n = 0
    /\ status = "partially_paid" => 0 < n /\ n < Total(i)
    /\ status = "paid" => n = Total(i)

(* The inductive invariant: no line is on an invoice not yet drawn, and the   *)
(* rows are finitely many, so that they can be counted.                      *)
AllocInv ==
    /\ TypeOK
    /\ IsFiniteSet(apps)
    /\ \A l \in Lines : invoiceOf[l] \in Invoices => invoice[invoiceOf[l]] # "none"
    /\ \A p \in Payments : FitsPayment(apps, p)
    /\ \A i \in Invoices : FitsTotal(apps, i)
    /\ ~raced => \A i \in Invoices : StatusRight(invoice[i], AppliedTo(apps, i), i)

(* The invariant says what the property says. *)
LEMMA AllocSuffices == AllocInv => AllocationsAddUp
<1> SUFFICES ASSUME AllocInv PROVE AllocationsAddUp
  OBVIOUS
<1>1. ASSUME ~raced, NEW i \in Invoices
      PROVE  LET n == AppliedTo(apps, i) IN
             CASE invoice[i] \in {"none", "issued", "void"} -> n = 0
               [] invoice[i] = "partially_paid"             -> 0 < n /\ n < Total(i)
               [] invoice[i] = "paid"                       -> n = Total(i)
  <2>1. StatusRight(invoice[i], AppliedTo(apps, i), i)
    BY <1>1 DEF AllocInv
  <2>2. invoice[i] \in InvoiceStates
    BY <1>1 DEF AllocInv, TypeOK
  <2>. QED
    BY <2>1, <2>2 DEF StatusRight, InvoiceStates
<1>. QED
  BY <1>1 DEF AllocInv, AllocationsAddUp, FitsPayment, FitsTotal

(* What an invoice is for can be counted. *)
LEMMA TotalIsNat ==
  ASSUME NEW i PROVE Total(i) \in Nat
<1>1. IsFiniteSet({l \in Lines : invoiceOf[l] = i})
  BY FiniteAssumption, FS_Subset
<1>. QED
  BY <1>1, FS_CardinalityType DEF Total

(* Fewer rows are applied in fewer units. *)
LEMMA FewerRows ==
  ASSUME NEW S, IsFiniteSet(S), NEW T \in SUBSET S, NEW x
  PROVE  /\ AppliedTo(T, x) \in Nat /\ AppliedTo(S, x) \in Nat
         /\ AppliedTo(T, x) <= AppliedTo(S, x)
         /\ AppliedFrom(T, x) \in Nat /\ AppliedFrom(S, x) \in Nat
         /\ AppliedFrom(T, x) <= AppliedFrom(S, x)
<1>1. IsFiniteSet(OnInvoice(S, x)) /\ IsFiniteSet(FromPayment(S, x))
  BY FS_Subset DEF OnInvoice, FromPayment
<1>2. OnInvoice(T, x) \subseteq OnInvoice(S, x) /\ FromPayment(T, x) \subseteq FromPayment(S, x)
  BY DEF OnInvoice, FromPayment
<1>3. /\ IsFiniteSet(OnInvoice(T, x))
      /\ Cardinality(OnInvoice(T, x)) <= Cardinality(OnInvoice(S, x))
  BY <1>1, <1>2, FS_Subset
<1>4. /\ IsFiniteSet(FromPayment(T, x))
      /\ Cardinality(FromPayment(T, x)) <= Cardinality(FromPayment(S, x))
  BY <1>1, <1>2, FS_Subset
<1>5. Cardinality(OnInvoice(S, x)) \in Nat /\ Cardinality(OnInvoice(T, x)) \in Nat
  BY <1>1, <1>3, FS_CardinalityType
<1>6. Cardinality(FromPayment(S, x)) \in Nat /\ Cardinality(FromPayment(T, x)) \in Nat
  BY <1>1, <1>4, FS_CardinalityType
<1>. QED
  BY <1>3, <1>4, <1>5, <1>6 DEF AppliedTo, AppliedFrom

(* A union is no larger than its parts together. *)
LEMMA UnionBound ==
  ASSUME NEW S, IsFiniteSet(S), NEW T, IsFiniteSet(T)
  PROVE  /\ Cardinality(S \cup T) \in Nat /\ Cardinality(S) \in Nat /\ Cardinality(T) \in Nat
         /\ Cardinality(S \cup T) <= Cardinality(S) + Cardinality(T)
<1>1. /\ IsFiniteSet(S \cup T)
      /\ Cardinality(S \cup T) = Cardinality(S) + Cardinality(T) - Cardinality(S \cap T)
  BY FS_Union
<1>2. IsFiniteSet(S \cap T)
  BY FS_Subset
<1>3. /\ Cardinality(S \cup T) \in Nat /\ Cardinality(S) \in Nat /\ Cardinality(T) \in Nat
      /\ Cardinality(S \cap T) \in Nat
  BY <1>1, <1>2, FS_CardinalityType
<1>. QED
  BY <1>1, <1>3

Grown(S, T, k, p, i) ==
    /\ IsFiniteSet(T)
    /\ AppliedFrom(T, p) <= AppliedFrom(S, p) + k
    /\ AppliedTo(T, i) <= AppliedTo(S, i) + k
    /\ AppliedTo(T, i) > 0 /\ AppliedTo(T, i) \in Nat
    /\ \A q : q # p => AppliedFrom(T, q) = AppliedFrom(S, q)
    /\ \A j : j # i => AppliedTo(T, j) = AppliedTo(S, j)

(* An application adds k units at most to its payment and its invoice, and   *)
(* nothing to any other.                                                     *)
LEMMA RowsAdded ==
  ASSUME NEW S, IsFiniteSet(S), NEW a \in Nat, NEW k \in Nat \ {0}, NEW p, NEW i, NEW T,
         T = S \cup NewRows(a, k, p, i)
  PROVE  Grown(S, T, k, p, i)
<1> DEFINE B == NewRows(a, k, p, i)
<1>0. /\ IsFiniteSet(B) /\ Cardinality(B) <= k /\ B # {}
      /\ \A b \in B : b.payment = p /\ b.invoice = i
      /\ T = S \cup B
  BY RowsInserted DEF NewRows
<1> HIDE DEF B
<1>1. IsFiniteSet(T)
  BY <1>0, FS_Union
<1>2. IsFiniteSet(OnInvoice(S, i)) /\ IsFiniteSet(FromPayment(S, p))
  BY FS_Subset DEF OnInvoice, FromPayment
<1>3. OnInvoice(T, i) = OnInvoice(S, i) \cup B
  BY <1>0 DEF OnInvoice
<1>4. FromPayment(T, p) = FromPayment(S, p) \cup B
  BY <1>0 DEF FromPayment
<1>5. \A q : q # p => FromPayment(T, q) = FromPayment(S, q)
  BY <1>0 DEF FromPayment
<1>6. \A j : j # i => OnInvoice(T, j) = OnInvoice(S, j)
  BY <1>0 DEF OnInvoice
<1>7. /\ Cardinality(OnInvoice(S, i) \cup B) \in Nat
      /\ Cardinality(OnInvoice(S, i)) \in Nat /\ Cardinality(B) \in Nat
      /\ Cardinality(OnInvoice(S, i) \cup B) <= Cardinality(OnInvoice(S, i)) + Cardinality(B)
  BY <1>0, <1>2, UnionBound
<1>8. /\ Cardinality(FromPayment(S, p) \cup B) \in Nat
      /\ Cardinality(FromPayment(S, p)) \in Nat
      /\ Cardinality(FromPayment(S, p) \cup B) <= Cardinality(FromPayment(S, p)) + Cardinality(B)
  BY <1>0, <1>2, UnionBound
<1>9. Cardinality(OnInvoice(S, i) \cup B) # 0
  <2>1. IsFiniteSet(OnInvoice(S, i) \cup B) /\ OnInvoice(S, i) \cup B # {}
    BY <1>0, <1>2, FS_Union
  <2>. QED
    BY <2>1, FS_EmptySet
<1>10. /\ AppliedTo(T, i) = Cardinality(OnInvoice(S, i) \cup B)
       /\ AppliedTo(S, i) = Cardinality(OnInvoice(S, i))
       /\ AppliedFrom(T, p) = Cardinality(FromPayment(S, p) \cup B)
       /\ AppliedFrom(S, p) = Cardinality(FromPayment(S, p))
  BY <1>3, <1>4 DEF AppliedTo, AppliedFrom
<1>11. \A q : q # p => AppliedFrom(T, q) = AppliedFrom(S, q)
  BY <1>5 DEF AppliedFrom
<1>12. \A j : j # i => AppliedTo(T, j) = AppliedTo(S, j)
  BY <1>6 DEF AppliedTo
<1>13. \A n, m, c \in Nat : n <= m + c /\ c <= k => n <= m + k
  OBVIOUS
<1>14. \A n \in Nat : n # 0 => n > 0
  OBVIOUS
<1>. QED
  BY <1>0, <1>1, <1>7, <1>8, <1>9, <1>10, <1>11, <1>12, <1>13, <1>14 DEF Grown

(* applyPaymentApplications. *)
LEMMA ApplyAlloc ==
  ASSUME AllocInv, TypeOK', NEW p \in Payments, NEW i \in Invoices, NEW k \in 1..Amount,
         ApplyPayment(p, i, k)
  PROVE  AllocInv'
<1>1. /\ invoice[i] \notin {"none", "void"}
      /\ AppliedFrom(apps, p) + k <= Amount
      /\ AppliedTo(apps, i) + k <= Total(i)
      /\ apps' = apps \cup NewRows(appId, k, p, i)
      /\ appId' = appId + k
      /\ invoice' = [invoice EXCEPT ![i] = StatusFor(AppliedTo(apps', i), i)]
      /\ UNCHANGED <<lines, trx, moved, raced>>
  BY DEF ApplyPayment, Fits, NewRows, history
<1>2. k \in Nat \ {0} /\ appId \in Nat /\ IsFiniteSet(apps)
  BY AmountAssumption DEF AllocInv, TypeOK
<1>3. /\ k \in Nat \ {0} /\ appId \in Nat /\ IsFiniteSet(apps)
      /\ apps' = apps \cup NewRows(appId, k, p, i)
  BY <1>1, <1>2
<1>4. Grown(apps, apps', k, p, i)
  BY <1>3, RowsAdded, Zenon
<1>5. /\ IsFiniteSet(apps')
      /\ AppliedFrom(apps', p) <= AppliedFrom(apps, p) + k
      /\ AppliedTo(apps', i) <= AppliedTo(apps, i) + k
      /\ AppliedTo(apps', i) > 0 /\ AppliedTo(apps', i) \in Nat
      /\ \A q : q # p => AppliedFrom(apps', q) = AppliedFrom(apps, q)
      /\ \A j : j # i => AppliedTo(apps', j) = AppliedTo(apps, j)
  BY <1>4 DEF Grown
<1>6. /\ AppliedFrom(apps, p) \in Nat /\ AppliedTo(apps, i) \in Nat
      /\ AppliedFrom(apps', p) \in Nat /\ Total(i) \in Nat
  BY <1>2, <1>5, FewerRows, TotalIsNat
<1>7. AppliedFrom(apps', p) <= Amount /\ AppliedTo(apps', i) <= Total(i)
  BY <1>1, <1>2, <1>5, <1>6, AmountAssumption
<1>8. \A j : Total(j)' = Total(j)
  BY <1>1 DEF Total, lines
<1>9. \A q \in Payments : FitsPayment(apps, q)'
  BY <1>5, <1>7 DEF FitsPayment, AllocInv
<1>10. \A j \in Invoices : FitsTotal(apps, j)'
  BY <1>5, <1>7, <1>8 DEF FitsTotal, AllocInv
<1>11. /\ invoice'[i] \in {"paid", "partially_paid"}
       /\ \A j \in Invoices \ {i} : invoice'[j] = invoice[j]
       /\ invoice'[i] = "paid" <=> AppliedTo(apps', i) = Total(i)
  BY <1>1 DEF AllocInv, TypeOK, StatusFor
<1>12. StatusRight(invoice[i], AppliedTo(apps, i), i)'
  BY <1>5, <1>6, <1>7, <1>8, <1>11 DEF StatusRight
<1>13. ~raced' => \A j \in Invoices : StatusRight(invoice[j], AppliedTo(apps, j), j)'
  BY <1>1, <1>5, <1>8, <1>11, <1>12 DEF AllocInv, StatusRight
<1>14. \A l \in Lines : invoiceOf'[l] \in Invoices => invoice'[invoiceOf'[l]] # "none"
  BY <1>1, <1>11 DEF AllocInv, lines
<1>. QED
  BY <1>5, <1>9, <1>10, <1>11, <1>13, <1>14 DEF AllocInv

(* Rows taken back fit as well as those that stay. *)
LEMMA RowsRemoved ==
  ASSUME AllocInv, apps' \subseteq apps, UNCHANGED lines
  PROVE  /\ IsFiniteSet(apps')
         /\ \A p \in Payments : FitsPayment(apps, p)'
         /\ \A i \in Invoices : FitsTotal(apps, i)'
         /\ \A i : AppliedTo(apps', i) \in Nat /\ Total(i)' = Total(i) /\ Total(i) \in Nat
<1>1. IsFiniteSet(apps) /\ IsFiniteSet(apps')
  BY FS_Subset DEF AllocInv
<1>2. \A i : Total(i)' = Total(i) /\ Total(i) \in Nat
  BY TotalIsNat DEF Total, lines
<1>3. ASSUME NEW x
      PROVE  /\ AppliedTo(apps', x) \in Nat /\ AppliedTo(apps, x) \in Nat
             /\ AppliedTo(apps', x) <= AppliedTo(apps, x)
             /\ AppliedFrom(apps', x) \in Nat /\ AppliedFrom(apps, x) \in Nat
             /\ AppliedFrom(apps', x) <= AppliedFrom(apps, x)
  BY <1>1, FewerRows
<1>4. \A p \in Payments : AppliedFrom(apps', p) <= Amount
  BY <1>3, AmountAssumption DEF AllocInv, FitsPayment
<1>5. \A i \in Invoices : AppliedTo(apps', i) <= Total(i)
  BY <1>2, <1>3 DEF AllocInv, FitsTotal
<1>. QED
  BY <1>1, <1>2, <1>3, <1>4, <1>5 DEF FitsPayment, FitsTotal

(* voidInvoice: the rows of the snapshot go; if that is all there are, the   *)
(* invoice keeps none.                                                       *)
LEMMA VoidInvoiceAlloc ==
  ASSUME AllocInv, TypeOK', NEW r \in Requests, VoidInvoice(r)
  PROVE  AllocInv'
<1> DEFINE i == trx[r].of
           rows == OnInvoice(trx[r].apps, i)
<1>1. /\ trx[r].op = "invoice"
      /\ invoice' = [invoice EXCEPT ![i] = "void"]
      /\ apps' = apps \ rows
      /\ raced' = (raced \/ rows # OnInvoice(apps, i))
      /\ trx' = [trx EXCEPT ![r] = NoVoid]
      /\ UNCHANGED <<lines, appId, moved>>
  BY DEF VoidInvoice, Finish
<1>2. i \in Invoices
  BY <1>1 DEF AllocInv, TypeOK, NoVoid
<1>3. /\ IsFiniteSet(apps')
      /\ \A p \in Payments : FitsPayment(apps, p)'
      /\ \A j \in Invoices : FitsTotal(apps, j)'
      /\ \A j : Total(j)' = Total(j)
  BY <1>1, RowsRemoved
<1>4. /\ invoice'[i] = "void"
      /\ \A j \in Invoices \ {i} : invoice'[j] = invoice[j]
  BY <1>1, <1>2 DEF AllocInv, TypeOK
<1>5. ASSUME ~raced', NEW j \in Invoices PROVE StatusRight(invoice[j], AppliedTo(apps, j), j)'
  <2>1. rows = OnInvoice(apps, i) /\ ~raced
    BY <1>1, <1>5 DEF AllocInv, TypeOK
  <2>2. CASE j = i
    <3>1. OnInvoice(apps', i) = {}
      BY <1>1, <2>1 DEF OnInvoice
    <3>2. AppliedTo(apps', i) = 0
      BY <3>1, FS_EmptySet DEF AppliedTo
    <3>. QED
      BY <1>4, <2>2, <3>2 DEF StatusRight
  <2>3. CASE j # i
    <3>1. OnInvoice(apps', j) = OnInvoice(apps, j)
      BY <1>1, <2>1, <2>3 DEF OnInvoice
    <3>2. AppliedTo(apps', j) = AppliedTo(apps, j) /\ invoice'[j] = invoice[j]
      BY <1>4, <1>5, <2>3, <3>1 DEF AppliedTo
    <3>. QED
      BY <1>3, <1>5, <2>1, <3>2 DEF AllocInv, StatusRight
  <2>. QED
    BY <2>2, <2>3
<1>6. \A l \in Lines : invoiceOf'[l] \in Invoices => invoice'[invoiceOf'[l]] # "none"
  BY <1>1, <1>4 DEF AllocInv, lines
<1>. QED
  BY <1>3, <1>4, <1>5, <1>6 DEF AllocInv

(* voidPayment, which also gives every invoice it touched a status.          *)
LEMMA VoidPaymentAlloc ==
  ASSUME AllocInv, TypeOK', NEW r \in Requests, VoidPayment(r)
  PROVE  AllocInv'
<1> DEFINE v == trx[r]
           p == v.of
           rows == FromPayment(v.apps, p)
           touched == {a.invoice : a \in rows}
<1>1. /\ v.op = "payment"
      /\ apps' = apps \ rows
      /\ invoice' = [i \in Invoices |->
                       IF i \in touched /\ v.invoice[i] # "void"
                       THEN StatusAfterVoid(AppliedTo(v.apps \ rows, i), i)
                       ELSE invoice[i]]
      /\ raced' = \/ raced
                  \/ rows # FromPayment(apps, p)
                  \/ \E i \in touched : \/ v.invoice[i] # invoice[i]
                                       \/ OnInvoice(v.apps, i) # OnInvoice(apps, i)
      /\ trx' = [trx EXCEPT ![r] = NoVoid]
      /\ UNCHANGED <<lines, appId, moved>>
  BY DEF VoidPayment, Finish
<1>2. /\ IsFiniteSet(apps')
      /\ \A q \in Payments : FitsPayment(apps, q)'
      /\ \A j \in Invoices : FitsTotal(apps, j)'
      /\ \A j : AppliedTo(apps', j) \in Nat /\ Total(j)' = Total(j) /\ Total(j) \in Nat
  BY <1>1, RowsRemoved
<1>3. \A n, i : StatusAfterVoid(n, i) \in {"issued", "paid", "partially_paid"}
  BY DEF StatusAfterVoid, StatusFor
<1>4. \A j \in Invoices : invoice[j] # "none" => invoice'[j] # "none"
  BY <1>1, <1>3
<1>5. ASSUME ~raced', NEW j \in Invoices PROVE StatusRight(invoice[j], AppliedTo(apps, j), j)'
  <2>1. /\ rows = FromPayment(apps, p) /\ ~raced
        /\ \A i \in touched : v.invoice[i] = invoice[i] /\ OnInvoice(v.apps, i) = OnInvoice(apps, i)
    BY <1>1, <1>5 DEF AllocInv, TypeOK
  <2>2. StatusRight(invoice[j], AppliedTo(apps, j), j)
    BY <1>5, <2>1 DEF AllocInv
  <2>3. CASE j \notin touched
    <3>1. OnInvoice(apps', j) = OnInvoice(apps, j)
      BY <1>1, <2>3 DEF OnInvoice
    <3>2. AppliedTo(apps', j) = AppliedTo(apps, j) /\ invoice'[j] = invoice[j]
      BY <1>1, <1>5, <2>3, <3>1 DEF AppliedTo
    <3>. QED
      BY <1>2, <2>2, <3>2 DEF StatusRight
  <2>4. CASE j \in touched
    <3>1. OnInvoice(v.apps \ rows, j) = OnInvoice(apps', j)
      BY <1>1, <2>1, <2>4 DEF OnInvoice
    <3>2. AppliedTo(v.apps \ rows, j) = AppliedTo(apps', j)
      BY <3>1 DEF AppliedTo
    <3>3. CASE invoice[j] # "void"
      <4>1. invoice'[j] = StatusAfterVoid(AppliedTo(apps', j), j)
        BY <1>1, <1>5, <2>1, <2>4, <3>2, <3>3
      <4>2. AppliedTo(apps', j) <= Total(j)
        BY <1>2, <1>5 DEF FitsTotal
      <4>. QED
        BY <1>2, <4>1, <4>2 DEF StatusRight, StatusAfterVoid, StatusFor
    <3>4. CASE invoice[j] = "void"
      <4>1. invoice'[j] = "void"
        BY <1>1, <1>5, <2>1, <2>4, <3>4
      <4>2. AppliedTo(apps, j) = 0
        BY <2>2, <3>4 DEF StatusRight
      <4>3. AppliedTo(apps', j) = 0
        BY <1>1, <1>2, <4>2, FewerRows DEF AllocInv
      <4>. QED
        BY <4>1, <4>3 DEF StatusRight
    <3>. QED
      BY <3>3, <3>4
  <2>. QED
    BY <2>3, <2>4
<1>6. \A l \in Lines : invoiceOf'[l] \in Invoices => invoice'[invoiceOf'[l]] # "none"
  BY <1>1, <1>4 DEF AllocInv, lines
<1>. QED
  BY <1>2, <1>4, <1>5, <1>6 DEF AllocInv

(* generateInvoice: a drawn invoice had no lines, so no rows; the others keep *)
(* their lines.                                                              *)
LEMMA GenerateAlloc ==
  ASSUME AllocInv, TypeOK', NEW i \in Invoices, GenerateInvoice(i)
  PROVE  AllocInv'
<1>1. /\ invoice[i] = "none"
      /\ invoice' = [invoice EXCEPT ![i] = "issued"]
      /\ invoiceOf' = [l \in Lines |-> IF l \in Eligible THEN i ELSE invoiceOf[l]]
      /\ UNCHANGED <<apps, raced>>
  BY DEF GenerateInvoice, history
<1>2. \A l \in Lines : invoiceOf[l] # i
  BY <1>1 DEF AllocInv
<1>3. AppliedTo(apps, i) = 0
  <2>1. {l \in Lines : invoiceOf[l] = i} = {}
    BY <1>2
  <2>2. Total(i) = 0
    BY <2>1, FS_EmptySet DEF Total
  <2>3. AppliedTo(apps, i) \in Nat
    BY FewerRows DEF AllocInv
  <2>. QED
    BY <2>2, <2>3 DEF AllocInv, FitsTotal
<1>4. ASSUME NEW j \in Invoices \ {i} PROVE Total(j)' = Total(j)
  <2>1. \A l \in Lines : invoiceOf'[l] = j <=> invoiceOf[l] = j
    BY <1>1, <1>4, NowhereAssumption DEF Eligible
  <2>2. {l \in Lines : invoiceOf'[l] = j} = {l \in Lines : invoiceOf[l] = j}
    BY <2>1
  <2>. QED
    BY <2>2 DEF Total
<1>5. Total(i)' \in Nat
  <2>1. IsFiniteSet({l \in Lines : invoiceOf'[l] = i})
    BY FiniteAssumption, FS_Subset
  <2>. QED
    BY <2>1, FS_CardinalityType DEF Total
<1>6. \A j \in Invoices : FitsTotal(apps, j)'
  BY <1>1, <1>3, <1>4, <1>5 DEF AllocInv, FitsTotal
<1>7. \A p \in Payments : FitsPayment(apps, p)'
  BY <1>1 DEF AllocInv, FitsPayment
<1>8. invoice'[i] = "issued" /\ \A j \in Invoices \ {i} : invoice'[j] = invoice[j]
  BY <1>1 DEF AllocInv, TypeOK
<1>9. ~raced' => \A j \in Invoices : StatusRight(invoice[j], AppliedTo(apps, j), j)'
  BY <1>1, <1>3, <1>4, <1>8 DEF AllocInv, StatusRight
<1>10. \A l \in Lines : invoiceOf'[l] \in Invoices => invoice'[invoiceOf'[l]] # "none"
  BY <1>1, <1>8 DEF AllocInv
<1>. QED
  BY <1>1, <1>6, <1>7, <1>9, <1>10 DEF AllocInv

(* A step that touches neither rows nor invoices leaves the rest right. *)
LEMMA OtherAlloc ==
  ASSUME AllocInv, TypeOK', UNCHANGED <<invoiceOf, invoice, apps, raced>>
  PROVE  AllocInv'
<1>1. \A i : Total(i)' = Total(i)
  BY DEF Total
<1>. QED
  BY <1>1 DEF AllocInv, FitsPayment, FitsTotal, StatusRight

(* Every step keeps the applications adding up. *)
LEMMA AllocStep ==
  ASSUME AllocInv, [Next]_vars
  PROVE  AllocInv'
<1>1. TypeOK'
  BY TypesStep DEF AllocInv
<1>2. ASSUME LinesAction PROVE AllocInv'
  BY <1>1, <1>2, LinesLeaveMoney, OtherAlloc
<1>3. ASSUME MoneyAction PROVE AllocInv'
  <2>1. ASSUME NEW p \in Payments, RecordPayment(p) PROVE AllocInv'
    BY <1>1, <2>1, OtherAlloc DEF RecordPayment, lines, history
  <2>2. ASSUME NEW p \in Payments, NEW i \in Invoices, NEW k \in 1..Amount,
               ApplyPayment(p, i, k)
        PROVE  AllocInv'
    BY <1>1, <2>2, ApplyAlloc
  <2>3. ASSUME NEW r \in Requests, NEW op, NEW x, BeginVoid(r, op, x) PROVE AllocInv'
    BY <1>1, <2>3, OtherAlloc DEF BeginVoid, lines, history
  <2>4. ASSUME NEW r \in Requests, Abort(r) PROVE AllocInv'
    BY <1>1, <2>4, OtherAlloc DEF Abort, lines, history
  <2>5. ASSUME NEW r \in Requests, VoidInvoice(r) PROVE AllocInv'
    BY <1>1, <2>5, VoidInvoiceAlloc
  <2>6. ASSUME NEW r \in Requests, VoidPayment(r) PROVE AllocInv'
    BY <1>1, <2>6, VoidPaymentAlloc
  <2>. QED
    BY <1>3, <2>1, <2>2, <2>3, <2>4, <2>5, <2>6 DEF MoneyAction
<1>4. ASSUME NEW i \in Invoices, GenerateInvoice(i) PROVE AllocInv'
  BY <1>1, <1>4, GenerateAlloc
<1>5. CASE UNCHANGED vars
  BY <1>1, <1>5, OtherAlloc DEF vars, lines, history
<1>. QED
  BY <1>2, <1>3, <1>4, <1>5, NextSplit

(* Applications never exceed their payment or their invoice, and statuses    *)
(* say what is applied unless a void overtook its snapshot.                  *)
THEOREM AllocationsHold == Spec => []AllocationsAddUp
<1>1. Init => AllocInv
  <2> SUFFICES ASSUME Init PROVE AllocInv
    OBVIOUS
  <2>1. TypeOK
    BY InitTypes
  <2>2. apps = {} /\ \A l \in Lines : invoiceOf[l] \notin Invoices
    BY NowhereAssumption DEF Init
  <2>3. IsFiniteSet(apps)
    BY <2>2, FS_EmptySet
  <2>4. \A x : AppliedTo(apps, x) = 0 /\ AppliedFrom(apps, x) = 0
    <3>1. \A x : OnInvoice(apps, x) = {} /\ FromPayment(apps, x) = {}
      BY <2>2 DEF OnInvoice, FromPayment
    <3>. QED
      BY <3>1, FS_EmptySet DEF AppliedTo, AppliedFrom
  <2>5. \A i \in Invoices : FitsTotal(apps, i) /\ invoice[i] = "none"
    BY <2>4, TotalIsNat DEF FitsTotal, Init
  <2>6. \A p \in Payments : FitsPayment(apps, p)
    BY <2>4, AmountAssumption DEF FitsPayment
  <2>. QED
    BY <2>1, <2>2, <2>3, <2>4, <2>5, <2>6 DEF AllocInv, StatusRight
<1>. QED
  BY <1>1, AllocStep, AllocSuffices, PTL DEF Spec
=============================================================================
