-------------------------- MODULE StayBillingProofs --------------------------
(***************************************************************************)
(* Theorems about StayBilling, for any number of requests, nights, folios  *)
(* and desk operations.  The two facts about billing hold together: that a *)
(* night still to be billed has no line yet needs the shape of the stay    *)
(* (its rates are its nights, a line is for one of them, a late line for   *)
(* one already audited), that the guards look where the lines are needs    *)
(* folio 1 open while the guest is in house, and that a night added to the *)
(* stay is billed needs what an old snapshot still says of the present.    *)
(***************************************************************************)
EXTENDS StayBilling, FiniteSetTheorems, TLAPS

(* Every night of the stay, and no other, has a rate: the snapshot's too. *)
NightsHaveRates == rates = 1..(departure - 1)

(* The folio numbered first is the first one opened. *)
FirstFolioFirst == folio[1] = "none" => \A f \in Folios : folio[f] = "none"

(* Nothing is closed before check-out; a guest in house has folio 1 open. *)
OpenTillOut ==
    /\ status # "checked_out" => \A f \in Folios : folio[f] # "closed"
    /\ status = "checked_in" /\ ~raced => folio[1] = "open"

(* A line bills a night of the stay; a late one, a night already audited, *)
(* and only once the guest has checked in.                                *)
LinesAreDue ==
    \A f \in Folios, n \in Nights :
        /\ charges[f][n] > 0 => n \in rates
        /\ late[f][n] > 0 => n \in rates /\ n < businessDate /\ status # "confirmed"

(* A night nobody moved a line of has at most one line, and on folio 1. *)
OneLineOnFolioOne ==
    ~raced => \A n \in Nights \ moved :
        /\ charges[1][n] + late[1][n] <= 1
        /\ \A f \in Folios \ {1} : charges[f][n] = 0 /\ late[f][n] = 0

Lined(n) == \E f \in Folios : charges[f][n] > 0 \/ late[f][n] > 0

(* The nights of a guest in house that must have been billed by now. *)
DueNights == {n \in rates \ voided : (since <= n \/ booked <= n) /\ n < businessDate}

DueNightsAreLined == status = "checked_in" /\ ~raced => \A n \in DueNights : Lined(n)

(* What a snapshot, however old, still says of the present. *)
ViewOK(v) ==
    /\ v.rates = 1..(v.departure - 1)
    /\ v.departure <= departure /\ v.date <= businessDate
    /\ \A f \in Folios, n \in Nights : v.late[f][n] > 0 => n \in v.rates
    /\ v.status # "confirmed" => status # "confirmed"
    /\ v.status = "checked_in" /\ ~raced =>
        /\ v.folio[1] = "open"
        /\ status = "checked_in" => v.date = businessDate \/ businessDate <= departure

ViewsOK == \A r \in Requests : ViewOK(trx[r].view)

StayInv ==
    /\ TypeOK
    /\ NightsHaveRates /\ FirstFolioFirst /\ OpenTillOut
    /\ LinesAreDue /\ OneLineOnFolioOne /\ DueNightsAreLined
    /\ ViewsOK

-----------------------------------------------------------------------------
(* Numbers of nights and folios. *)

(* The bounds are numbers, and the first folio is one of the folios. *)
LEMMA Numbers ==
  /\ MaxNight \in Nat /\ MaxNight >= 1 /\ MaxFolio \in Nat /\ MaxFolio >= 1 /\ MaxDesk \in Nat
  /\ 1 \in Folios /\ 0 \notin Folios /\ 1 \in Nights
  /\ \A n \in Nights : n \in Nat /\ n >= 1 /\ n <= MaxNight
  BY BoundAssumption DEF Folios, Nights

(* The folio numbered first is what a plain read returns if it matches. *)
LEMMA FirstIsOne ==
  ASSUME NEW S, S \subseteq Folios, 1 \in S
  PROVE  FirstOf(S) = 1
<1>1. \A n \in S : n \in Nat /\ 1 <= n
  BY Numbers DEF Folios
<1>2. /\ Min(S) \in S
      /\ \A y \in S : Min(S) <= y
  <2>1. \E m \in S : \A y \in S : m <= y
    BY <1>1
  <2> QED
    BY <2>1 DEF Min
<1>3. Min(S) = 1
  BY <1>1, <1>2
<1> QED
  BY <1>3 DEF FirstOf

(* The lowest open folio is folio 1 whenever folio 1 is open. *)
LEMMA OpenIsOne ==
  ASSUME NEW fs, fs[1] = "open"
  PROVE  FirstOf(Held(fs, {"open"})) = 1
<1>1. Held(fs, {"open"}) \subseteq Folios /\ 1 \in Held(fs, {"open"})
  BY Numbers DEF Held
<1> QED
  BY <1>1, FirstIsOne

-----------------------------------------------------------------------------
(* Lines. *)

(* Billing the nights in S to folio f adds one line to each of them there, *)
(* and none anywhere else.                                                 *)
LEMMA AddedLines ==
  ASSUME NEW lines \in LineCounts, NEW f, NEW S
  PROVE  /\ Added(lines, f, S) \in LineCounts
         /\ \A g \in Folios, n \in Nights : lines[g][n] \in Nat
         /\ \A g \in Folios, n \in Nights :
              Added(lines, f, S)[g][n]
                = IF g = f /\ n \in S THEN lines[g][n] + 1 ELSE lines[g][n]
<1>1. \A g \in Folios, n \in Nights : lines[g][n] \in Nat
  BY DEF LineCounts
<1>2. CASE f = 0
  BY <1>1, <1>2, Numbers DEF Added
<1>3. CASE f # 0
  <2> DEFINE row == [n \in Nights |-> IF n \in S THEN lines[f][n] + 1 ELSE lines[f][n]]
  <2>1. Added(lines, f, S) = [lines EXCEPT ![f] = row]
    BY <1>3 DEF Added
  <2>2. f \in Folios => row \in [Nights -> Nat]
    BY <1>1
  <2>3. [lines EXCEPT ![f] = row] \in LineCounts
    <3> HIDE DEF row
    <3> QED BY <2>2 DEF LineCounts
  <2>4. \A g \in Folios : [lines EXCEPT ![f] = row][g] = IF g = f THEN row ELSE lines[g]
    <3> HIDE DEF row
    <3> QED BY DEF LineCounts
  <2>5. \A n \in Nights : row[n] = IF n \in S THEN lines[f][n] + 1 ELSE lines[f][n]
    OBVIOUS
  <2> HIDE DEF row
  <2> QED
    BY <1>1, <2>1, <2>3, <2>4, <2>5
<1> QED
  BY <1>2, <1>3

(* One line of night m leaves folio f. *)
LEMMA LessLines ==
  ASSUME NEW lines \in LineCounts, NEW f \in Folios, NEW m \in Nights, lines[f][m] > 0
  PROVE  /\ Less(lines, f, m) \in LineCounts
         /\ \A g \in Folios, n \in Nights :
              Less(lines, f, m)[g][n]
                = IF g = f /\ n = m THEN lines[g][n] - 1 ELSE lines[g][n]
<1> DEFINE row == [lines[f] EXCEPT ![m] = lines[f][m] - 1]
<1>1. lines[f] \in [Nights -> Nat] /\ lines[f][m] - 1 \in Nat
  BY DEF LineCounts
<1>2. row \in [Nights -> Nat]
  BY <1>1
<1>3. \A n \in Nights : row[n] = IF n = m THEN lines[f][n] - 1 ELSE lines[f][n]
  BY <1>1
<1>4. Less(lines, f, m) = [lines EXCEPT ![f] = row]
  BY DEF Less
<1> HIDE DEF row
<1>5. /\ [lines EXCEPT ![f] = row] \in LineCounts
      /\ \A g \in Folios : [lines EXCEPT ![f] = row][g] = IF g = f THEN row ELSE lines[g]
  BY <1>2 DEF LineCounts
<1> QED
  BY <1>3, <1>4, <1>5

(* One line of night m reaches folio f. *)
LEMMA MoreLines ==
  ASSUME NEW lines \in LineCounts, NEW f \in Folios, NEW m \in Nights
  PROVE  /\ More(lines, f, m) \in LineCounts
         /\ \A g \in Folios, n \in Nights :
              More(lines, f, m)[g][n]
                = IF g = f /\ n = m THEN lines[g][n] + 1 ELSE lines[g][n]
<1> DEFINE row == [lines[f] EXCEPT ![m] = lines[f][m] + 1]
<1>1. lines[f] \in [Nights -> Nat] /\ lines[f][m] + 1 \in Nat
  BY DEF LineCounts
<1>2. row \in [Nights -> Nat]
  BY <1>1
<1>3. \A n \in Nights : row[n] = IF n = m THEN lines[f][n] + 1 ELSE lines[f][n]
  BY <1>1
<1>4. More(lines, f, m) = [lines EXCEPT ![f] = row]
  BY DEF More
<1> HIDE DEF row
<1>5. /\ [lines EXCEPT ![f] = row] \in LineCounts
      /\ \A g \in Folios : [lines EXCEPT ![f] = row][g] = IF g = f THEN row ELSE lines[g]
  BY <1>2 DEF LineCounts
<1> QED
  BY <1>3, <1>4, <1>5

(* A line moved from f to g is still a line of its night, and no other *)
(* night has gained or lost one.                                       *)
LEMMA MovedLines ==
  ASSUME NEW lines \in LineCounts, NEW f \in Folios, NEW g \in Folios, NEW m \in Nights,
         f # g, lines[f][m] > 0
  PROVE  /\ More(Less(lines, f, m), g, m) \in LineCounts
         /\ More(Less(lines, f, m), g, m)[g][m] > 0
         /\ \A h \in Folios, n \in Nights \ {m} :
              More(Less(lines, f, m), g, m)[h][n] = lines[h][n]
<1>1. PICK less \in LineCounts :
        /\ less = Less(lines, f, m)
        /\ \A h \in Folios, n \in Nights \ {m} : less[h][n] = lines[h][n]
  BY LessLines
<1>2. less[g][m] \in Nat
  BY DEF LineCounts
<1>3. PICK more \in LineCounts :
        /\ more = More(less, g, m)
        /\ more[g][m] = less[g][m] + 1
        /\ \A h \in Folios, n \in Nights \ {m} : more[h][n] = less[h][n]
  BY MoreLines
<1> QED
  BY <1>1, <1>2, <1>3

-----------------------------------------------------------------------------
(* Counting lines. *)

(* The lines of one night are finitely many. *)
LEMMA LinesFinite ==
  ASSUME charges \in LineCounts, late \in LineCounts, NEW n \in Nights
  PROVE  IsFiniteSet(Lines(n))
<1> DEFINE L(f) == {f} \X (1..(charges[f][n] + late[f][n]))
           SS == {L(f) : f \in Folios}
           F == [f \in Folios |-> L(f)]
<1>1. ASSUME NEW f \in Folios PROVE IsFiniteSet(L(f))
  <2>1. PICK k \in Int : k = charges[f][n] + late[f][n]
    BY DEF LineCounts
  <2>2. IsFiniteSet({f})
    BY FS_Singleton
  <2>3. IsFiniteSet(1..k)
    <3>1. 1 \in Int
      OBVIOUS
    <3> QED
      BY <3>1, FS_Interval
  <2>4. IsFiniteSet({f} \X (1..k))
    BY <2>2, <2>3, FS_Product
  <2> QED
    BY <2>1, <2>4
<1>2. IsFiniteSet(Folios)
  <2>1. 1 \in Int /\ MaxFolio \in Int
    BY Numbers
  <2> QED
    BY <2>1, FS_Interval DEF Folios
<1>3. F \in Surjection(Folios, SS)
  <2> HIDE DEF L
  <2> QED BY DEF Surjection
<1>4. IsFiniteSet(SS)
  <2> HIDE DEF F, SS
  <2> QED BY <1>2, <1>3, FS_Surjection
<1>5. \A T \in SS : IsFiniteSet(T)
  <2> HIDE DEF L
  <2> QED BY <1>1
<1>6. IsFiniteSet(UNION SS)
  <2> HIDE DEF SS
  <2> QED BY <1>4, <1>5, FS_UNION
<1>7. Lines(n) = UNION SS
  BY DEF Lines
<1> QED
  BY <1>6, <1>7

(* A night with a line on some folio is billed. *)
LEMMA LinedIsBilled ==
  ASSUME charges \in LineCounts, late \in LineCounts, NEW n \in Nights, Lined(n)
  PROVE  Billed(n) >= 1
<1>1. PICK f \in Folios : charges[f][n] > 0 \/ late[f][n] > 0
  BY DEF Lined
<1>2. charges[f][n] \in Nat /\ late[f][n] \in Nat
  BY DEF LineCounts
<1>3. 1 \in 1..(charges[f][n] + late[f][n])
  BY <1>1, <1>2
<1>4. <<f, 1>> \in Lines(n)
  BY <1>3 DEF Lines
<1>5. IsFiniteSet(Lines(n))
  BY LinesFinite
<1>6. {<<f, 1>>} \in SUBSET Lines(n) /\ Cardinality({<<f, 1>>}) = 1
  BY <1>4, FS_Singleton
<1>7. Cardinality({<<f, 1>>}) <= Cardinality(Lines(n))
  BY <1>5, <1>6, FS_Subset
<1>8. Cardinality(Lines(n)) \in Nat
  BY <1>5, FS_CardinalityType
<1> QED
  BY <1>6, <1>7, <1>8 DEF Billed

(* A night with one line at most, on folio 1, is billed once at most. *)
LEMMA OneLineIsBilledOnce ==
  ASSUME charges \in LineCounts, late \in LineCounts, NEW n \in Nights,
         charges[1][n] + late[1][n] <= 1,
         \A f \in Folios \ {1} : charges[f][n] = 0 /\ late[f][n] = 0
  PROVE  Billed(n) <= 1
<1>1. ASSUME NEW x \in Lines(n) PROVE x = <<1, 1>>
  <2>1. PICK f \in Folios : x \in {f} \X (1..(charges[f][n] + late[f][n]))
    BY DEF Lines
  <2>2. f = 1
    BY <2>1
  <2>3. charges[1][n] \in Nat /\ late[1][n] \in Nat
    BY Numbers DEF LineCounts
  <2>4. PICK k \in 1..(charges[1][n] + late[1][n]) : x = <<1, k>>
    BY <2>1, <2>2
  <2>5. k = 1
    BY <2>3, <2>4
  <2> QED
    BY <2>4, <2>5
<1>2. Lines(n) \in SUBSET {<<1, 1>>}
  BY <1>1
<1>3. IsFiniteSet({<<1, 1>>}) /\ Cardinality({<<1, 1>>}) = 1
  BY FS_Singleton
<1>4. Cardinality(Lines(n)) <= Cardinality({<<1, 1>>})
  BY <1>2, <1>3, FS_Subset
<1> QED
  BY <1>3, <1>4 DEF Billed

-----------------------------------------------------------------------------
(* Types. *)

(* The part of TypeOK about the stay, its bill and its histories. *)
StayTyped ==
    /\ status \in Statuses
    /\ businessDate \in 1..(MaxNight + 1) /\ departure \in 2..(MaxNight + 1)
    /\ rates \subseteq Nights
    /\ folio \in FolioStates /\ charges \in LineCounts /\ late \in LineCounts

HistoryTyped ==
    /\ since \in 0..(MaxNight + 1) /\ booked \in 0..(MaxNight + 1)
    /\ voided \subseteq Nights /\ moved \subseteq Nights
    /\ raced \in BOOLEAN
    /\ desk \in 0..MaxDesk

TrxTyped == trx \in [Requests -> [op : Ops \cup {"none"}, view : Views]]

(* TypeOK is these three parts. *)
LEMMA TypeParts == TypeOK <=> StayTyped /\ HistoryTyped /\ TrxTyped
<1>1. View \in Views <=> StayTyped
  BY DEF View, Views, StayTyped
<1> QED
  BY <1>1 DEF TypeOK, HistoryTyped, TrxTyped

(* What a typed snapshot holds. *)
LEMMA ViewTyped ==
  ASSUME NEW v \in Views
  PROVE  /\ v.status \in Statuses
         /\ v.date \in Nat /\ v.date >= 1 /\ v.departure \in Nat /\ v.departure >= 2
         /\ v.folio \in FolioStates /\ v.charges \in LineCounts /\ v.late \in LineCounts
         /\ \A f \in Folios, n \in Nights : v.charges[f][n] \in Nat /\ v.late[f][n] \in Nat
<1>1. /\ v.date \in 1..(MaxNight + 1) /\ v.departure \in 2..(MaxNight + 1)
      /\ v.status \in Statuses
      /\ v.folio \in FolioStates /\ v.charges \in LineCounts /\ v.late \in LineCounts
  BY DEF Views
<1>2. /\ v.date \in Nat /\ v.date >= 1 /\ v.departure \in Nat /\ v.departure >= 2
  BY <1>1, Numbers
<1>3. \A f \in Folios, n \in Nights : v.charges[f][n] \in Nat /\ v.late[f][n] \in Nat
  BY <1>1 DEF LineCounts
<1> QED
  BY <1>1, <1>2, <1>3

(* The numbers of the stay. *)
LEMMA StayNumbers ==
  ASSUME StayTyped
  PROVE  /\ businessDate \in Nat /\ businessDate >= 1 /\ businessDate <= MaxNight + 1
         /\ departure \in Nat /\ departure >= 2 /\ departure <= MaxNight + 1
         /\ \A f \in Folios, n \in Nights : charges[f][n] \in Nat /\ late[f][n] \in Nat
<1>1. \A f \in Folios, n \in Nights : charges[f][n] \in Nat /\ late[f][n] \in Nat
  BY DEF StayTyped, LineCounts
<1> QED
  BY <1>1, Numbers DEF StayTyped

(* The snapshot of a request that is not running. *)
LEMMA IdleTyped == EmptyView \in Views /\ Idle \in [op : Ops \cup {"none"}, view : Views]
<1>1. NoLines \in LineCounts
  BY DEF NoLines, LineCounts
<1>2. [f \in Folios |-> "none"] \in FolioStates
  BY DEF FolioStates
<1>3. {1} \subseteq Nights /\ 1 \in 1..(MaxNight + 1) /\ 2 \in 2..(MaxNight + 1)
  BY Numbers
<1>4. EmptyView \in Views
  BY <1>1, <1>2, <1>3 DEF EmptyView, Views, Statuses
<1> QED
  BY <1>4 DEF Idle

(* A request that ends leaves the others as they are. *)
LEMMA FinishTyped ==
  ASSUME TrxTyped, NEW r \in Requests, Finish(r)
  PROVE  /\ TrxTyped'
         /\ \A q \in Requests : trx'[q].view \in {trx[q].view, EmptyView}
<1>1. trx' = [trx EXCEPT ![r] = Idle]
  BY DEF Finish
<1>2. TrxTyped'
  BY <1>1, IdleTyped DEF TrxTyped
<1>3. \A q \in Requests : trx'[q] = IF q = r THEN Idle ELSE trx[q]
  BY <1>1 DEF TrxTyped
<1>4. Idle.view = EmptyView
  BY DEF Idle
<1> QED
  BY <1>2, <1>3, <1>4

(* The folio states after a folio has been opened. *)
LEMMA PrimaryTyped ==
  ASSUME NEW v, folio \in FolioStates
  PROVE  /\ WithPrimary(v) \in FolioStates
         /\ \A f \in Folios : WithPrimary(v)[f] \in {folio[f], "open"}
<1>1. CASE Held(v.folio, {"open", "closed"}) # {}
  BY <1>1 DEF WithPrimary
<1>2. CASE Held(v.folio, {"open", "closed"}) = {}
  <2>1. PICK k : k = PrimaryFolio(v)
    OBVIOUS
  <2>2. WithPrimary(v) = [folio EXCEPT ![k] = "open"]
    BY <1>2, <2>1 DEF WithPrimary
  <2> QED
    BY <2>2 DEF FolioStates
<1> QED
  BY <1>1, <1>2

-----------------------------------------------------------------------------
(* Snapshots. *)

(* The empty snapshot says nothing of the present. *)
LEMMA EmptyViewOK ==
  ASSUME StayTyped
  PROVE  ViewOK(EmptyView)
<1>1. /\ EmptyView.rates = {1} /\ EmptyView.departure = 2 /\ EmptyView.date = 1
      /\ EmptyView.status = "confirmed" /\ EmptyView.late = NoLines
  BY DEF EmptyView
<1>2. 1..(2 - 1) = {1} /\ 2 <= departure /\ 1 <= businessDate
  BY StayNumbers
<1>3. \A f \in Folios, n \in Nights : NoLines[f][n] = 0
  BY DEF NoLines
<1> QED
  BY <1>1, <1>2, <1>3 DEF ViewOK

(* A snapshot goes on saying what it says while dates only grow, nobody *)
(* becomes "confirmed" again, and no audit passes it by unnoticed.      *)
LEMMA ViewStaysOK ==
  ASSUME StayTyped, StayTyped', NEW v \in Views, ViewOK(v),
         departure <= departure', businessDate <= businessDate',
         status # "confirmed" => status' # "confirmed",
         ~raced' => ~raced,
         v.status = "checked_in" /\ status' = "checked_in" /\ ~raced' =>
           v.date = businessDate' \/ businessDate' <= departure'
  PROVE  ViewOK(v)'
<1>1. /\ departure \in Nat /\ businessDate \in Nat /\ departure' \in Nat /\ businessDate' \in Nat
      /\ v.date \in Nat /\ v.departure \in Nat
  BY StayNumbers, ViewTyped DEF StayTyped
<1>2. v.departure <= departure' /\ v.date <= businessDate'
  BY <1>1 DEF ViewOK
<1>3. v.status # "confirmed" => status' # "confirmed"
  BY DEF ViewOK
<1>4. v.status = "checked_in" /\ ~raced' => v.folio[1] = "open"
  BY DEF ViewOK
<1>5. /\ v.rates = 1..(v.departure - 1)
      /\ \A f \in Folios, n \in Nights : v.late[f][n] > 0 => n \in v.rates
  BY DEF ViewOK
<1> QED
  BY <1>2, <1>3, <1>4, <1>5 DEF ViewOK

(* So do all the snapshots, when a request ends or none is concerned. *)
LEMMA ViewsStayOK ==
  ASSUME StayTyped, StayTyped', TrxTyped, ViewsOK,
         (\E r \in Requests : Finish(r)) \/ trx' = trx,
         departure <= departure', businessDate <= businessDate',
         status # "confirmed" => status' # "confirmed",
         ~raced' => ~raced,
         \A v \in Views : ViewOK(v) /\ v.status = "checked_in"
                            /\ status' = "checked_in" /\ ~raced' =>
           v.date = businessDate' \/ businessDate' <= departure'
  PROVE  ViewsOK' /\ TrxTyped'
<1>1. \A v \in Views : ViewOK(v) => ViewOK(v)'
  <2> SUFFICES ASSUME NEW v \in Views, ViewOK(v) PROVE ViewOK(v)'
    OBVIOUS
  <2> QED
    BY ViewStaysOK
<1>2. ViewOK(EmptyView)'
  <2>1. StayTyped' => ViewOK(EmptyView)'
    BY EmptyViewOK, PTL
  <2> QED
    BY <2>1
<1>3. /\ TrxTyped'
      /\ \A q \in Requests : trx'[q].view \in {trx[q].view, EmptyView}
  <2>1. CASE \E r \in Requests : Finish(r)
    BY <2>1, FinishTyped
  <2>2. CASE trx' = trx
    BY <2>2 DEF TrxTyped
  <2> QED
    BY <2>1, <2>2
<1>4. ASSUME NEW q \in Requests PROVE ViewOK(trx[q].view)'
  <2>1. PICK w \in Views : w = trx'[q].view
    BY <1>3 DEF TrxTyped
  <2>2. PICK e : e = EmptyView
    OBVIOUS
  <2>3. ViewOK(w)'
    <3>1. CASE w = trx[q].view
      <4>1. ViewOK(w)
        BY <3>1 DEF ViewsOK
      <4> QED
        BY <1>1, <4>1
    <3>2. CASE w = e
      BY <1>2, <2>2, <3>2 DEF EmptyView
    <3> QED
      BY <1>3, <2>1, <2>2, <3>1, <3>2
  <2> QED
    BY <2>1, <2>3 DEF ViewOK
<1> QED
  BY <1>3, <1>4 DEF ViewsOK

-----------------------------------------------------------------------------
(* The invariant, step by step. *)

(* The parts of the invariant, with the types taken apart. *)
StayParts ==
    /\ StayTyped /\ HistoryTyped /\ TrxTyped
    /\ NightsHaveRates /\ FirstFolioFirst /\ OpenTillOut
    /\ LinesAreDue /\ OneLineOnFolioOne /\ DueNightsAreLined
    /\ ViewsOK

(* The invariant is these parts. *)
LEMMA PartsOfInv == StayInv <=> StayParts
  BY TypeParts DEF StayInv, StayParts

(* The parts that do not look at the snapshots. *)
BillParts ==
    /\ StayTyped /\ HistoryTyped
    /\ NightsHaveRates /\ FirstFolioFirst /\ OpenTillOut
    /\ LinesAreDue /\ OneLineOnFolioOne /\ DueNightsAreLined

(* A request begins, or ends with nothing done. *)
LEMMA NothingWritten ==
  ASSUME BillParts, UNCHANGED <<reservation, businessDate, ledger, history>>
  PROVE  BillParts'
<1>1. /\ status' = status /\ departure' = departure /\ rates' = rates
      /\ businessDate' = businessDate /\ folio' = folio /\ charges' = charges /\ late' = late
      /\ since' = since /\ booked' = booked /\ voided' = voided /\ moved' = moved
      /\ raced' = raced /\ desk' = desk
  BY DEF reservation, ledger, history
<1>2. StayTyped' /\ HistoryTyped'
  BY <1>1 DEF BillParts, StayTyped, HistoryTyped
<1>3. NightsHaveRates' /\ FirstFolioFirst' /\ OpenTillOut'
  BY <1>1 DEF BillParts, NightsHaveRates, FirstFolioFirst, OpenTillOut
<1>4. LinesAreDue' /\ OneLineOnFolioOne'
  BY <1>1 DEF BillParts, LinesAreDue, OneLineOnFolioOne
<1>5. DueNightsAreLined'
  BY <1>1 DEF BillParts, DueNightsAreLined, DueNights, Lined
<1> QED
  BY <1>2, <1>3, <1>4, <1>5 DEF BillParts

(* The present, taken as a snapshot, says what is true. *)
LEMMA PresentView ==
  ASSUME BillParts
  PROVE  View \in Views /\ ViewOK(View)
<1>1. View \in Views
  BY DEF BillParts, StayTyped, View, Views
<1>2. /\ View.rates = rates /\ View.departure = departure /\ View.date = businessDate
      /\ View.late = late /\ View.status = status /\ View.folio = folio
  BY DEF View
<1>3. departure <= departure /\ businessDate <= businessDate
  BY StayNumbers DEF BillParts
<1> QED
  BY <1>1, <1>2, <1>3
  DEF ViewOK, BillParts, NightsHaveRates, LinesAreDue, OpenTillOut

(* A request begins with a snapshot of the present. *)
LEMMA BeginInv ==
  ASSUME StayParts, NEW r \in Requests, NEW op \in Ops, Begin(r, op)
  PROVE  StayParts'
<1>1. BillParts /\ TrxTyped /\ ViewsOK
  BY DEF StayParts, BillParts
<1>2. UNCHANGED <<reservation, businessDate, ledger, history>>
  BY DEF Begin
<1>3. BillParts'
  BY <1>1, <1>2, NothingWritten
<1>4. PICK now \in Views : now = View /\ ViewOK(now)
  BY <1>1, PresentView
<1>5. trx' = [trx EXCEPT ![r] = [op |-> op, view |-> now]]
  BY <1>4 DEF Begin
<1>6. TrxTyped'
  BY <1>1, <1>4, <1>5 DEF TrxTyped
<1>7. \A q \in Requests : trx'[q].view = IF q = r THEN now ELSE trx[q].view
  BY <1>1, <1>5 DEF TrxTyped
<1>8. /\ status' = status /\ departure' = departure /\ businessDate' = businessDate
      /\ raced' = raced
  BY <1>2 DEF reservation, history
<1>9. ASSUME NEW q \in Requests PROVE ViewOK(trx[q].view)'
  <2>1. PICK w : w = trx'[q].view
    OBVIOUS
  <2>2. ViewOK(w)
    BY <1>1, <1>4, <1>7, <2>1 DEF ViewsOK
  <2> QED
    BY <1>8, <2>1, <2>2 DEF ViewOK
<1> QED
  BY <1>3, <1>6, <1>9 DEF StayParts, BillParts, ViewsOK

(* A request that fails leaves nothing behind. *)
LEMMA AbortInv ==
  ASSUME StayParts, NEW r \in Requests, Abort(r)
  PROVE  StayParts'
<1>1. BillParts /\ TrxTyped /\ ViewsOK
  BY DEF StayParts, BillParts
<1>2. Finish(r) /\ UNCHANGED <<reservation, businessDate, ledger, history>>
  BY DEF Abort
<1>3. BillParts'
  BY <1>1, <1>2, NothingWritten
<1>4. /\ status' = status /\ departure' = departure /\ businessDate' = businessDate
      /\ raced' = raced
  BY <1>2 DEF reservation, history
<1>5. departure <= departure' /\ businessDate <= businessDate'
  BY <1>1, <1>4, StayNumbers DEF BillParts
<1>6. ViewsOK' /\ TrxTyped'
  <2>1. \A v \in Views : ViewOK(v) /\ v.status = "checked_in"
                            /\ status' = "checked_in" /\ ~raced' =>
           v.date = businessDate' \/ businessDate' <= departure'
    BY <1>4 DEF ViewOK
  <2> QED
    BY <1>1, <1>2, <1>3, <1>4, <1>5, <2>1, ViewsStayOK DEF BillParts
<1> QED
  BY <1>3, <1>6 DEF StayParts, BillParts

(* Every folio the guest was shown and has paid is closed. *)
LEMMA CheckOutInv ==
  ASSUME StayParts, NEW r \in Requests, CheckOut(r)
  PROVE  StayParts'
<1>1. /\ StayTyped /\ HistoryTyped /\ TrxTyped /\ ViewsOK
      /\ NightsHaveRates /\ FirstFolioFirst /\ LinesAreDue /\ OneLineOnFolioOne
  BY DEF StayParts
<1>2. /\ Finish(r)
      /\ status = "checked_in" /\ status' = "checked_out"
      /\ departure' = departure /\ rates' = rates /\ businessDate' = businessDate
      /\ charges' = charges /\ late' = late
      /\ since' = since /\ booked' = booked /\ voided' = voided /\ moved' = moved
      /\ raced' = raced /\ desk' = desk
  BY DEF CheckOut, history
<1>3. folio' \in FolioStates /\ \A f \in Folios : folio'[f] \in {folio[f], "closed"}
  <2>1. PICK seen : folio' = [f \in Folios |-> IF f \in seen THEN "closed" ELSE folio[f]]
    BY DEF CheckOut
  <2> QED
    BY <1>1, <2>1 DEF StayTyped, FolioStates
<1>4. StayTyped' /\ HistoryTyped'
  BY <1>1, <1>2, <1>3 DEF StayTyped, HistoryTyped, Statuses
<1>5. FirstFolioFirst'
  <2>1. \A f \in Folios : folio[f] = "none" => folio'[f] = "none"
    <3>1. PICK seen : /\ seen \subseteq Held(folio, {"open"})
                      /\ folio' = [f \in Folios |-> IF f \in seen THEN "closed" ELSE folio[f]]
      BY DEF CheckOut
    <3> QED
      BY <3>1 DEF Held
  <2> QED
    BY <1>1, <1>3, <2>1, Numbers DEF FirstFolioFirst
<1>6. OpenTillOut' /\ DueNightsAreLined' /\ NightsHaveRates'
  BY <1>1, <1>2 DEF OpenTillOut, DueNightsAreLined, NightsHaveRates
<1>7. LinesAreDue' /\ OneLineOnFolioOne'
  BY <1>1, <1>2 DEF LinesAreDue, OneLineOnFolioOne
<1>8. ViewsOK' /\ TrxTyped'
  <2>1. departure <= departure' /\ businessDate <= businessDate'
    BY <1>1, <1>2, StayNumbers
  <2>2. \E q \in Requests : Finish(q)
    BY <1>2
  <2> QED
    BY <1>1, <1>2, <1>4, <2>1, <2>2, ViewsStayOK
<1> QED
  BY <1>4, <1>5, <1>6, <1>7, <1>8 DEF StayParts

(* A further folio takes the next number. *)
LEMMA OpenAdditionalFolioInv ==
  ASSUME StayParts, OpenAdditionalFolio
  PROVE  StayParts'
<1>1. /\ StayTyped /\ HistoryTyped /\ TrxTyped /\ ViewsOK
      /\ NightsHaveRates /\ FirstFolioFirst /\ OpenTillOut
      /\ LinesAreDue /\ OneLineOnFolioOne /\ DueNightsAreLined
  BY DEF StayParts
<1>2. /\ status' = status /\ departure' = departure /\ rates' = rates
      /\ businessDate' = businessDate /\ charges' = charges /\ late' = late /\ trx' = trx
      /\ since' = since /\ booked' = booked /\ voided' = voided /\ moved' = moved
      /\ raced' = raced /\ desk' = desk
  BY DEF OpenAdditionalFolio, reservation, history
<1>3. folio' \in FolioStates /\ \A f \in Folios : folio'[f] \in {folio[f], "open"}
  <2>1. PICK k : folio' = [folio EXCEPT ![k] = "open"]
    BY DEF OpenAdditionalFolio
  <2> QED
    BY <1>1, <2>1 DEF StayTyped, FolioStates
<1>4. StayTyped' /\ HistoryTyped'
  BY <1>1, <1>2, <1>3 DEF StayTyped, HistoryTyped
<1>5. folio[1] # "none"
  BY <1>1 DEF OpenAdditionalFolio, Held, FirstFolioFirst
<1>6. folio'[1] # "none" /\ (folio[1] = "open" => folio'[1] = "open")
  BY <1>3, <1>5, Numbers
<1>7. FirstFolioFirst' /\ OpenTillOut'
  BY <1>1, <1>2, <1>3, <1>6 DEF FirstFolioFirst, OpenTillOut
<1>8. NightsHaveRates' /\ LinesAreDue' /\ OneLineOnFolioOne'
  BY <1>1, <1>2 DEF NightsHaveRates, LinesAreDue, OneLineOnFolioOne
<1>9. DueNightsAreLined'
  BY <1>1, <1>2 DEF DueNightsAreLined, DueNights, Lined
<1>10. ViewsOK' /\ TrxTyped'
  <2>1. departure <= departure' /\ businessDate <= businessDate'
    BY <1>1, <1>2, StayNumbers
  <2>2. \A v \in Views : ViewOK(v) /\ v.status = "checked_in"
                            /\ status' = "checked_in" /\ ~raced' =>
           v.date = businessDate' \/ businessDate' <= departure'
    BY <1>2 DEF ViewOK
  <2> QED
    BY <1>1, <1>2, <1>4, <2>1, <2>2, ViewsStayOK
<1> QED
  BY <1>4, <1>7, <1>8, <1>9, <1>10 DEF StayParts

(* The desk voids or moves a line: the stay is as it was, and what is said *)
(* of the snapshots stays true.                                            *)
LEMMA DeskStep ==
  ASSUME StayParts, charges' \in LineCounts, late' \in LineCounts, UseDesk,
         UNCHANGED <<reservation, businessDate, folio, trx, since, booked, raced>>,
         voided' \subseteq Nights, moved' \subseteq Nights,
         LinesAreDue', OneLineOnFolioOne', DueNightsAreLined'
  PROVE  StayParts'
<1>1. /\ StayTyped /\ HistoryTyped /\ TrxTyped /\ ViewsOK
      /\ NightsHaveRates /\ FirstFolioFirst /\ OpenTillOut
  BY DEF StayParts
<1>2. /\ status' = status /\ departure' = departure /\ rates' = rates
      /\ businessDate' = businessDate /\ folio' = folio /\ trx' = trx
      /\ since' = since /\ booked' = booked /\ raced' = raced
  BY DEF reservation
<1>3. desk' \in 0..MaxDesk
  BY <1>1, Numbers DEF HistoryTyped, UseDesk
<1>4. StayTyped' /\ HistoryTyped'
  BY <1>1, <1>2, <1>3 DEF StayTyped, HistoryTyped
<1>5. NightsHaveRates' /\ FirstFolioFirst' /\ OpenTillOut'
  BY <1>1, <1>2 DEF NightsHaveRates, FirstFolioFirst, OpenTillOut
<1>6. ViewsOK' /\ TrxTyped'
  <2>1. departure <= departure' /\ businessDate <= businessDate'
    BY <1>1, <1>2, StayNumbers
  <2>2. \A v \in Views : ViewOK(v) /\ v.status = "checked_in"
                            /\ status' = "checked_in" /\ ~raced' =>
           v.date = businessDate' \/ businessDate' <= departure'
    BY <1>2 DEF ViewOK
  <2> QED
    BY <1>1, <1>2, <1>4, <2>1, <2>2, ViewsStayOK
<1> QED
  BY <1>4, <1>5, <1>6 DEF StayParts

(* A voided line leaves its night with fewer, the others as they were. *)
LEMMA VoidLineItemInv ==
  ASSUME StayParts, NEW f \in Folios, NEW m \in Nights, VoidLineItem(f, m)
  PROVE  StayParts'
<1>1. StayTyped /\ HistoryTyped /\ LinesAreDue /\ OneLineOnFolioOne /\ DueNightsAreLined
  BY DEF StayParts
<1>2. /\ UseDesk
      /\ UNCHANGED <<reservation, businessDate, folio, trx, since, booked, raced>>
      /\ status' = status /\ rates' = rates /\ businessDate' = businessDate
      /\ since' = since /\ booked' = booked /\ moved' = moved /\ raced' = raced
      /\ voided' = voided \cup {m}
  BY DEF VoidLineItem, reservation
<1>3. charges \in LineCounts /\ late \in LineCounts
  BY <1>1 DEF StayTyped
<1>4. /\ charges' \in LineCounts /\ late' \in LineCounts
      /\ \A g \in Folios, n \in Nights :
           charges'[g][n] <= charges[g][n] /\ late'[g][n] <= late[g][n]
      /\ \A g \in Folios, n \in Nights \ {m} :
           charges'[g][n] = charges[g][n] /\ late'[g][n] = late[g][n]
  <2>1. \A g \in Folios, n \in Nights : charges[g][n] \in Nat /\ late[g][n] \in Nat
    BY <1>1, StayNumbers
  <2>2. CASE charges[f][m] > 0 /\ charges' = Less(charges, f, m) /\ late' = late
    BY <1>3, <2>1, <2>2, LessLines
  <2>3. CASE late[f][m] > 0 /\ late' = Less(late, f, m) /\ charges' = charges
    BY <1>3, <2>1, <2>3, LessLines
  <2> QED
    BY <2>2, <2>3 DEF VoidLineItem
<1>5. \A g \in Folios, n \in Nights :
        /\ charges[g][n] \in Nat /\ late[g][n] \in Nat
        /\ charges'[g][n] \in Nat /\ late'[g][n] \in Nat
  BY <1>3, <1>4 DEF LineCounts
<1>6. LinesAreDue'
  <2> SUFFICES ASSUME NEW g \in Folios, NEW n \in Nights
               PROVE  /\ charges'[g][n] > 0 => n \in rates
                      /\ late'[g][n] > 0 => n \in rates /\ n < businessDate
                                              /\ status # "confirmed"
    BY <1>2 DEF LinesAreDue
  <2>1. /\ charges'[g][n] > 0 => charges[g][n] > 0
        /\ late'[g][n] > 0 => late[g][n] > 0
    BY <1>4, <1>5
  <2> QED
    BY <1>1, <2>1 DEF LinesAreDue
<1>7. OneLineOnFolioOne'
  <2> SUFFICES ASSUME ~raced, NEW n \in Nights \ moved
               PROVE  /\ charges'[1][n] + late'[1][n] <= 1
                      /\ \A g \in Folios \ {1} : charges'[g][n] = 0 /\ late'[g][n] = 0
    BY <1>2 DEF OneLineOnFolioOne
  <2>1. /\ charges[1][n] + late[1][n] <= 1
        /\ \A g \in Folios \ {1} : charges[g][n] = 0 /\ late[g][n] = 0
    BY <1>1 DEF OneLineOnFolioOne
  <2>2. charges'[1][n] + late'[1][n] <= 1
    BY <1>4, <1>5, <2>1, Numbers
  <2>3. ASSUME NEW g \in Folios \ {1} PROVE charges'[g][n] = 0 /\ late'[g][n] = 0
    BY <1>4, <1>5, <2>1
  <2> QED
    BY <2>2, <2>3
<1>8. DueNightsAreLined'
  <2> SUFFICES ASSUME status = "checked_in", ~raced, NEW n \in DueNights'
               PROVE  Lined(n)'
    BY <1>2 DEF DueNightsAreLined
  <2>1. n \in DueNights /\ n # m
    BY <1>2 DEF DueNights
  <2>2. n \in Nights \ {m}
    BY <1>1, <2>1 DEF DueNights, StayTyped
  <2>3. PICK g \in Folios : charges[g][n] > 0 \/ late[g][n] > 0
    BY <1>1, <2>1 DEF DueNightsAreLined, Lined
  <2> QED
    BY <1>4, <2>2, <2>3 DEF Lined
<1> QED
  <2>1. voided' \subseteq Nights /\ moved' \subseteq Nights
    BY <1>1, <1>2 DEF HistoryTyped
  <2> QED
    BY <1>2, <1>4, <1>6, <1>7, <1>8, <2>1, DeskStep

(* A moved line is on another folio, and its night is not spoken of again. *)
LEMMA MoveLineItemInv ==
  ASSUME StayParts, NEW f \in Folios, NEW h \in Folios, NEW m \in Nights, MoveLineItem(f, h, m)
  PROVE  StayParts'
<1>1. StayTyped /\ HistoryTyped /\ LinesAreDue /\ OneLineOnFolioOne /\ DueNightsAreLined
  BY DEF StayParts
<1>2. /\ UseDesk /\ f # h
      /\ UNCHANGED <<reservation, businessDate, folio, trx, since, booked, raced>>
      /\ status' = status /\ rates' = rates /\ businessDate' = businessDate
      /\ since' = since /\ booked' = booked /\ voided' = voided /\ raced' = raced
      /\ moved' = moved \cup {m}
  BY DEF MoveLineItem, reservation
<1>3. charges \in LineCounts /\ late \in LineCounts
  BY <1>1 DEF StayTyped
<1>4. /\ charges' \in LineCounts /\ late' \in LineCounts
      /\ \A g \in Folios, n \in Nights \ {m} :
           charges'[g][n] = charges[g][n] /\ late'[g][n] = late[g][n]
      /\ \/ charges[f][m] > 0 /\ charges'[h][m] > 0 /\ late' = late
         \/ late[f][m] > 0 /\ late'[h][m] > 0 /\ charges' = charges
  <2>1. CASE charges[f][m] > 0 /\ charges' = More(Less(charges, f, m), h, m) /\ late' = late
    BY <1>2, <1>3, <2>1, MovedLines
  <2>2. CASE late[f][m] > 0 /\ late' = More(Less(late, f, m), h, m) /\ charges' = charges
    BY <1>2, <1>3, <2>2, MovedLines
  <2> QED
    BY <2>1, <2>2 DEF MoveLineItem
<1>5. LinesAreDue'
  <2> SUFFICES ASSUME NEW g \in Folios, NEW n \in Nights
               PROVE  /\ charges'[g][n] > 0 => n \in rates
                      /\ late'[g][n] > 0 => n \in rates /\ n < businessDate
                                              /\ status # "confirmed"
    BY <1>2 DEF LinesAreDue
  <2>1. CASE n # m
    BY <1>1, <1>4, <2>1 DEF LinesAreDue
  <2>2. CASE n = m /\ charges[f][m] > 0 /\ late' = late
    BY <1>1, <2>2 DEF LinesAreDue
  <2>3. CASE n = m /\ late[f][m] > 0 /\ charges' = charges
    BY <1>1, <2>3 DEF LinesAreDue
  <2> QED
    BY <1>4, <2>1, <2>2, <2>3
<1>6. OneLineOnFolioOne'
  <2> SUFFICES ASSUME ~raced, NEW n \in Nights \ moved, n # m
               PROVE  /\ charges'[1][n] + late'[1][n] <= 1
                      /\ \A g \in Folios \ {1} : charges'[g][n] = 0 /\ late'[g][n] = 0
    BY <1>2 DEF OneLineOnFolioOne
  <2> QED
    BY <1>1, <1>4, Numbers DEF OneLineOnFolioOne
<1>7. DueNightsAreLined'
  <2> SUFFICES ASSUME status = "checked_in", ~raced, NEW n \in DueNights'
               PROVE  Lined(n)'
    BY <1>2 DEF DueNightsAreLined
  <2>1. n \in DueNights /\ n \in Nights
    BY <1>1, <1>2 DEF DueNights, StayTyped
  <2>2. PICK g \in Folios : charges[g][n] > 0 \/ late[g][n] > 0
    BY <1>1, <2>1 DEF DueNightsAreLined, Lined
  <2>3. CASE n = m
    BY <1>4, <2>3 DEF Lined
  <2>4. CASE n # m
    BY <1>4, <2>1, <2>2, <2>4 DEF Lined
  <2> QED
    BY <2>3, <2>4
<1> QED
  <2>1. voided' \subseteq Nights /\ moved' \subseteq Nights
    BY <1>1, <1>2 DEF HistoryTyped
  <2> QED
    BY <1>2, <1>4, <1>5, <1>6, <1>7, <2>1, DeskStep

(* Opening a folio leaves none opened before the first. *)
LEMMA PrimaryFirst ==
  ASSUME NEW v, StayTyped, FirstFolioFirst
  PROVE  WithPrimary(v)[1] = "none" => \A f \in Folios : WithPrimary(v)[f] = "none"
<1> SUFFICES ASSUME WithPrimary(v)[1] = "none"
             PROVE  \A f \in Folios : WithPrimary(v)[f] = "none"
  OBVIOUS
<1>1. folio \in FolioStates /\ \A f \in Folios : WithPrimary(v)[f] \in {folio[f], "open"}
  BY PrimaryTyped DEF StayTyped
<1>2. folio[1] = "none"
  BY <1>1, Numbers
<1>3. \A f \in Folios : folio[f] = "none"
  BY <1>2 DEF FirstFolioFirst
<1>4. CASE Held(v.folio, {"open", "closed"}) # {}
  BY <1>3, <1>4 DEF WithPrimary
<1>5. CASE Held(v.folio, {"open", "closed"}) = {}
  <2>1. Held(folio, {"none"}) \subseteq Folios /\ 1 \in Held(folio, {"none"})
    BY <1>3, Numbers DEF Held
  <2>2. PrimaryFolio(v) = 1
    BY <1>5, <2>1, FirstIsOne DEF PrimaryFolio
  <2>3. WithPrimary(v) = [folio EXCEPT ![1] = "open"]
    BY <1>5, <2>2 DEF WithPrimary
  <2>4. WithPrimary(v)[1] = "open"
    BY <1>1, <2>3, Numbers DEF FolioStates
  <2> QED
    BY <2>4
<1> QED
  BY <1>4, <1>5

(* A snapshot nothing has overtaken shows folio 1, or lets it be opened. *)
LEMMA PrimaryIsOne ==
  ASSUME NEW v, v.folio = folio, StayTyped, FirstFolioFirst
  PROVE  /\ PrimaryFolio(v) = 1
         /\ WithPrimary(v)[1] # "none"
         /\ folio[1] # "closed" => WithPrimary(v)[1] = "open"
<1>1. folio \in FolioStates
  BY DEF StayTyped
<1>2. CASE Held(v.folio, {"open", "closed"}) # {}
  <2>1. folio[1] # "none" /\ folio[1] \in {"none", "open", "closed"}
    BY <1>1, <1>2, Numbers DEF Held, FirstFolioFirst, FolioStates
  <2>2. Held(folio, {"open", "closed"}) \subseteq Folios /\ 1 \in Held(folio, {"open", "closed"})
    BY <2>1, Numbers DEF Held
  <2>3. PrimaryFolio(v) = 1
    BY <1>2, <2>2, FirstIsOne DEF PrimaryFolio
  <2> QED
    BY <1>2, <2>1, <2>3 DEF WithPrimary
<1>3. CASE Held(v.folio, {"open", "closed"}) = {}
  <2>1. folio[1] = "none"
    BY <1>1, <1>3, Numbers DEF Held, FolioStates
  <2>2. Held(folio, {"none"}) \subseteq Folios /\ 1 \in Held(folio, {"none"})
    BY <2>1, Numbers DEF Held
  <2>3. PrimaryFolio(v) = 1
    BY <1>3, <2>2, FirstIsOne DEF PrimaryFolio
  <2>4. WithPrimary(v) = [folio EXCEPT ![1] = "open"]
    BY <1>3, <2>3 DEF WithPrimary
  <2>5. WithPrimary(v)[1] = "open"
    BY <1>1, <2>4, Numbers DEF FolioStates
  <2> QED
    BY <2>3, <2>5
<1> QED
  BY <1>2, <1>3

(* An early opening bills every night that has no line yet, on folio 1. *)
LEMMA OpenBookingFolioInv ==
  ASSUME StayParts, NEW r \in Requests, OpenBookingFolio(r)
  PROVE  StayParts'
<1>1. /\ StayTyped /\ HistoryTyped /\ TrxTyped /\ ViewsOK
      /\ NightsHaveRates /\ FirstFolioFirst /\ OpenTillOut
      /\ LinesAreDue /\ OneLineOnFolioOne
  BY DEF StayParts
<1>2. PICK v \in Views : v = trx[r].view /\ ViewOK(v)
  BY <1>1 DEF TrxTyped, ViewsOK
<1>3. PICK f : f = PrimaryFolio(v)
  OBVIOUS
<1>4. PICK due : due = Unposted(v.charges, f, v.rates)
  OBVIOUS
<1>5. /\ Finish(r) /\ v.status = "confirmed"
      /\ folio' = WithPrimary(v) /\ charges' = Added(charges, f, due)
      /\ raced' = (raced \/ Overtaken(v))
      /\ status' = status /\ departure' = departure /\ rates' = rates
      /\ businessDate' = businessDate /\ late' = late
      /\ since' = since /\ booked' = booked /\ voided' = voided /\ moved' = moved
      /\ desk' = desk
  BY <1>2, <1>3, <1>4 DEF OpenBookingFolio, reservation
<1>6. /\ charges \in LineCounts /\ late \in LineCounts /\ charges' \in LineCounts
      /\ \A g \in Folios, n \in Nights :
           /\ charges[g][n] \in Nat /\ late[g][n] \in Nat
           /\ charges'[g][n]
                = IF g = f /\ n \in due THEN charges[g][n] + 1 ELSE charges[g][n]
  BY <1>1, <1>5, AddedLines, StayNumbers DEF StayTyped
<1>7. folio' \in FolioStates /\ \A g \in Folios : folio'[g] \in {folio[g], "open"}
  BY <1>1, <1>5, PrimaryTyped DEF StayTyped
<1>8. raced' \in BOOLEAN /\ (~raced' => ~raced /\ v.status = status /\ v.folio = folio
                                          /\ v.charges = charges)
  BY <1>5 DEF Overtaken
<1>9. StayTyped' /\ HistoryTyped'
  BY <1>1, <1>5, <1>6, <1>7, <1>8 DEF StayTyped, HistoryTyped
<1>10. NightsHaveRates' /\ FirstFolioFirst' /\ OpenTillOut' /\ DueNightsAreLined'
  <2>1. NightsHaveRates'
    BY <1>1, <1>5 DEF NightsHaveRates
  <2>2. FirstFolioFirst'
    BY <1>1, <1>5, PrimaryFirst DEF FirstFolioFirst
  <2>3. OpenTillOut' /\ DueNightsAreLined'
    BY <1>1, <1>5, <1>7, <1>8 DEF OpenTillOut, DueNightsAreLined
  <2> QED
    BY <2>1, <2>2, <2>3
<1>11. due \subseteq rates
  <2>1. due \subseteq v.rates /\ v.rates = 1..(v.departure - 1) /\ v.departure <= departure
    BY <1>2, <1>4 DEF Unposted, ViewOK
  <2> QED
    BY <1>1, <1>2, <2>1, ViewTyped, StayNumbers DEF NightsHaveRates
<1>12. LinesAreDue'
  <2> SUFFICES ASSUME NEW g \in Folios, NEW n \in Nights
               PROVE  /\ charges'[g][n] > 0 => n \in rates
                      /\ late[g][n] > 0 => n \in rates /\ n < businessDate
                                             /\ status # "confirmed"
    BY <1>5 DEF LinesAreDue
  <2> QED
    BY <1>1, <1>6, <1>11 DEF LinesAreDue
<1>13. OneLineOnFolioOne'
  <2> SUFFICES ASSUME ~raced', NEW n \in Nights \ moved
               PROVE  /\ charges'[1][n] + late[1][n] <= 1
                      /\ \A g \in Folios \ {1} : charges'[g][n] = 0 /\ late[g][n] = 0
    BY <1>5 DEF OneLineOnFolioOne
  <2>1. f = 1 /\ late[1][n] = 0 /\ (n \in due => charges[1][n] = 0)
    <3>1. f = 1
      BY <1>1, <1>3, <1>8, PrimaryIsOne
    <3>2. ~(late[1][n] > 0)
      BY <1>1, <1>5, <1>8, Numbers DEF LinesAreDue
    <3> QED
      BY <1>4, <1>6, <1>8, <3>1, <3>2, Numbers DEF Unposted
  <2>2. /\ charges[1][n] + late[1][n] <= 1
        /\ \A g \in Folios \ {1} : charges[g][n] = 0 /\ late[g][n] = 0
    BY <1>1, <1>8 DEF OneLineOnFolioOne
  <2> QED
    BY <1>6, <2>1, <2>2, Numbers
<1>14. ViewsOK' /\ TrxTyped'
  <2>1. departure <= departure' /\ businessDate <= businessDate'
    BY <1>1, <1>5, StayNumbers
  <2>2. \A w \in Views : ViewOK(w) /\ w.status = "checked_in"
                            /\ status' = "checked_in" /\ ~raced' =>
           w.date = businessDate' \/ businessDate' <= departure'
    BY <1>5, <1>8 DEF ViewOK
  <2>3. \E q \in Requests : Finish(q)
    BY <1>5
  <2> QED
    BY <1>1, <1>5, <1>8, <1>9, <2>1, <2>2, <2>3, ViewsStayOK
<1> QED
  BY <1>9, <1>10, <1>12, <1>13, <1>14 DEF StayParts

(* A guest checks in: no night is due yet, and folio 1 is open. *)
LEMMA CheckInInv ==
  ASSUME StayParts, NEW r \in Requests, CheckIn(r)
  PROVE  StayParts'
<1>1. /\ StayTyped /\ HistoryTyped /\ TrxTyped /\ ViewsOK
      /\ NightsHaveRates /\ FirstFolioFirst /\ OpenTillOut
      /\ LinesAreDue /\ OneLineOnFolioOne
  BY DEF StayParts
<1>2. PICK v \in Views : v = trx[r].view /\ ViewOK(v)
  BY <1>1 DEF TrxTyped, ViewsOK
<1>3. /\ Finish(r) /\ status = "confirmed" /\ status' = "checked_in"
      /\ folio' = WithPrimary(v)
      /\ raced' = (raced \/ Overtaken(v))
      /\ departure' = departure /\ rates' = rates
      /\ businessDate' = businessDate /\ charges' = charges /\ late' = late
      /\ since' = businessDate /\ booked' = departure
      /\ voided' = voided /\ moved' = moved /\ desk' = desk
  BY <1>2 DEF CheckIn
<1>4. folio' \in FolioStates /\ \A g \in Folios : folio'[g] \in {folio[g], "open"}
  BY <1>1, <1>3, PrimaryTyped DEF StayTyped
<1>5. raced' \in BOOLEAN /\ (~raced' => ~raced /\ v.folio = folio)
  BY <1>3 DEF Overtaken
<1>6. StayTyped' /\ HistoryTyped'
  <2>1. since' \in 0..(MaxNight + 1) /\ booked' \in 0..(MaxNight + 1)
    BY <1>1, <1>3, StayNumbers, Numbers
  <2> QED
    BY <1>1, <1>3, <1>4, <1>5, <2>1 DEF StayTyped, HistoryTyped, Statuses
<1>7. NightsHaveRates' /\ FirstFolioFirst'
  <2>1. NightsHaveRates'
    BY <1>1, <1>3 DEF NightsHaveRates
  <2>2. FirstFolioFirst'
    BY <1>1, <1>3, PrimaryFirst DEF FirstFolioFirst
  <2> QED
    BY <2>1, <2>2
<1>8. OpenTillOut'
  <2>1. \A g \in Folios : folio[g] # "closed"
    BY <1>1, <1>3 DEF OpenTillOut
  <2>2. ~raced' => folio'[1] = "open"
    BY <1>1, <1>3, <1>5, <2>1, Numbers, PrimaryIsOne
  <2> QED
    BY <1>4, <2>1, <2>2 DEF OpenTillOut
<1>9. LinesAreDue' /\ OneLineOnFolioOne'
  BY <1>1, <1>3, <1>5 DEF LinesAreDue, OneLineOnFolioOne
<1>10. DueNightsAreLined'
  <2>1. ASSUME NEW n \in DueNights' PROVE FALSE
    <3>1. n \in rates /\ (businessDate <= n \/ departure <= n) /\ n < businessDate
      BY <1>3, <2>1 DEF DueNights
    <3>2. n \in 1..(departure - 1)
      BY <1>1, <3>1 DEF NightsHaveRates
    <3> QED
      BY <1>1, <3>1, <3>2, StayNumbers
  <2> QED
    BY <2>1 DEF DueNightsAreLined
<1>11. ViewsOK' /\ TrxTyped'
  <2>1. departure <= departure' /\ businessDate <= businessDate'
    BY <1>1, <1>3, StayNumbers
  <2>2. \A w \in Views : ~(ViewOK(w) /\ w.status = "checked_in")
    BY <1>3 DEF ViewOK
  <2>3. \E q \in Requests : Finish(q)
    BY <1>3
  <2> QED
    BY <1>1, <1>3, <1>5, <1>6, <2>1, <2>2, <2>3, ViewsStayOK
<1> QED
  BY <1>6, <1>7, <1>8, <1>9, <1>10, <1>11 DEF StayParts

(* The nights added to a stay are those after its last one, and those of  *)
(* them that are over are billed now: the snapshot's date is the present  *)
(* one, or the departure is not yet past.                                 *)
LEMMA ExtendStayInv ==
  ASSUME StayParts, NEW r \in Requests, NEW to \in 2..(MaxNight + 1), ExtendStay(r, to)
  PROVE  StayParts'
<1>1. /\ StayTyped /\ HistoryTyped /\ TrxTyped /\ ViewsOK
      /\ NightsHaveRates /\ FirstFolioFirst /\ OpenTillOut
      /\ LinesAreDue /\ OneLineOnFolioOne /\ DueNightsAreLined
  BY DEF StayParts
<1>2. PICK v \in Views : v = trx[r].view /\ ViewOK(v)
  BY <1>1 DEF TrxTyped, ViewsOK
<1>3. PICK f : f = FirstOf(Held(v.folio, {"open"}))
  OBVIOUS
<1>4. PICK added : added = departure..(to - 1)
  OBVIOUS
<1>5. PICK due : due = IF f = 0 THEN {} ELSE Unposted(v.late, f, LateNights(added, v.date))
  OBVIOUS
<1>6. /\ Finish(r) /\ status = "checked_in" /\ to > departure
      /\ rates' = rates \cup added /\ departure' = to
      /\ late' = Added(late, f, due)
      /\ raced' = (raced \/ v.status # status)
      /\ status' = status /\ businessDate' = businessDate
      /\ folio' = folio /\ charges' = charges
      /\ since' = since /\ booked' = booked /\ voided' = voided /\ moved' = moved
      /\ desk' = desk
  BY <1>2, <1>3, <1>4, <1>5 DEF ExtendStay
<1>7. /\ to \in Nat /\ departure \in Nat /\ businessDate \in Nat
      /\ to <= MaxNight + 1 /\ departure >= 2 /\ MaxNight \in Nat
      /\ v.date \in Nat /\ v.date <= businessDate
      /\ v.departure \in Nat /\ v.departure <= departure
      /\ v.rates = 1..(v.departure - 1)
  BY <1>1, <1>2, Numbers, StayNumbers, ViewTyped DEF ViewOK
<1>8. /\ charges \in LineCounts /\ late \in LineCounts /\ late' \in LineCounts
      /\ \A g \in Folios, n \in Nights :
           /\ charges[g][n] \in Nat /\ late[g][n] \in Nat
           /\ late'[g][n] = IF g = f /\ n \in due THEN late[g][n] + 1 ELSE late[g][n]
  BY <1>1, <1>6, AddedLines, StayNumbers DEF StayTyped
<1>9. raced' \in BOOLEAN /\ (~raced' => ~raced /\ v.status = "checked_in")
  BY <1>6
<1>10. /\ rates = 1..(departure - 1)
       /\ rates' = 1..(to - 1) /\ added \cap rates = {} /\ rates' \subseteq Nights
  <2>1. rates = 1..(departure - 1)
    BY <1>1 DEF NightsHaveRates
  <2> QED
    BY <1>4, <1>6, <1>7, <2>1 DEF Nights
<1>11. StayTyped' /\ HistoryTyped'
  <2>1. departure' \in 2..(MaxNight + 1)
    BY <1>6
  <2> QED
    BY <1>1, <1>6, <1>8, <1>9, <1>10, <2>1 DEF StayTyped, HistoryTyped
<1>12. NightsHaveRates' /\ FirstFolioFirst' /\ OpenTillOut'
  BY <1>1, <1>6, <1>9, <1>10 DEF NightsHaveRates, FirstFolioFirst, OpenTillOut
<1>13. \A n \in due : n \in added /\ n < businessDate /\ n \in rates' /\ n \notin rates
  <2> TAKE n \in due
  <2>1. n \in added /\ n < v.date
    BY <1>5 DEF Unposted, LateNights
  <2>2. n \in Nat
    BY <1>4, <1>7, <2>1
  <2> QED
    BY <1>6, <1>7, <1>10, <2>1, <2>2
<1>14. LinesAreDue'
  <2> SUFFICES ASSUME NEW g \in Folios, NEW n \in Nights
               PROVE  /\ charges[g][n] > 0 => n \in rates'
                      /\ late'[g][n] > 0 => n \in rates' /\ n < businessDate
                                              /\ status # "confirmed"
    BY <1>6 DEF LinesAreDue
  <2>1. charges[g][n] > 0 => n \in rates'
    BY <1>1, <1>6 DEF LinesAreDue
  <2>2. late[g][n] > 0 => n \in rates' /\ n < businessDate
    BY <1>1, <1>6 DEF LinesAreDue
  <2> QED
    BY <1>6, <1>8, <1>13, <2>1, <2>2
<1>15. ~raced' => f = 1
  BY <1>2, <1>3, <1>9, OpenIsOne DEF ViewOK
<1>16. OneLineOnFolioOne'
  <2> SUFFICES ASSUME ~raced', NEW n \in Nights \ moved
               PROVE  /\ charges[1][n] + late'[1][n] <= 1
                      /\ \A g \in Folios \ {1} : charges[g][n] = 0 /\ late'[g][n] = 0
    BY <1>6 DEF OneLineOnFolioOne
  <2>1. /\ charges[1][n] + late[1][n] <= 1
        /\ \A g \in Folios \ {1} : charges[g][n] = 0 /\ late[g][n] = 0
    BY <1>1, <1>9 DEF OneLineOnFolioOne
  <2>2. n \in due => charges[1][n] = 0 /\ late[1][n] = 0
    <3>1. n \in due => ~(charges[1][n] > 0) /\ ~(late[1][n] > 0)
      BY <1>1, <1>13, Numbers DEF LinesAreDue
    <3> QED
      BY <1>8, <3>1, Numbers
  <2> QED
    BY <1>8, <1>15, <2>1, <2>2, Numbers
<1>17. DueNightsAreLined'
  <2> SUFFICES ASSUME ~raced', NEW n \in DueNights'
               PROVE  \E g \in Folios : charges[g][n] > 0 \/ late'[g][n] > 0
    BY <1>6 DEF DueNightsAreLined, Lined
  <2>1. /\ n \in rates' /\ n \in Nights /\ n < businessDate
        /\ n \notin voided /\ (since <= n \/ booked <= n)
    BY <1>6, <1>10 DEF DueNights
  <2>2. CASE n \in rates
    <3>1. n \in DueNights
      BY <2>1, <2>2 DEF DueNights
    <3>2. PICK g \in Folios : charges[g][n] > 0 \/ late[g][n] > 0
      BY <1>1, <1>6, <1>9, <3>1 DEF DueNightsAreLined, Lined
    <3> QED
      BY <1>8, <2>1, <3>2
  <2>3. CASE n \in added
    <3>1. n \in Nat /\ departure <= n
      BY <1>4, <1>7, <2>3
    <3>2. v.date = businessDate
      <4>1. v.date = businessDate \/ businessDate <= departure
        BY <1>2, <1>6, <1>9 DEF ViewOK
      <4> QED
        BY <1>7, <2>1, <3>1, <4>1
    <3>3. v.late[1][n] = 0
      <4>1. n \notin v.rates
        BY <1>7, <3>1
      <4>2. ~(v.late[1][n] > 0)
        BY <1>2, <2>1, <4>1, Numbers DEF ViewOK
      <4> QED
        BY <2>1, <4>2, Numbers, ViewTyped
    <3>4. n \in due
      BY <1>5, <1>15, <2>1, <2>3, <3>2, <3>3 DEF Unposted, LateNights
    <3> QED
      BY <1>8, <1>15, <2>1, <3>4, Numbers
  <2> QED
    BY <1>6, <2>1, <2>2, <2>3
<1>18. ViewsOK' /\ TrxTyped'
  <2>1. departure <= departure' /\ businessDate <= businessDate'
    BY <1>6, <1>7
  <2>2. ASSUME NEW w \in Views, ViewOK(w), w.status = "checked_in", ~raced'
        PROVE  w.date = businessDate' \/ businessDate' <= departure'
    <3>1. w.date = businessDate \/ businessDate <= departure
      BY <1>6, <1>9, <2>2 DEF ViewOK
    <3> QED
      BY <1>6, <1>7, <3>1
  <2>3. \E q \in Requests : Finish(q)
    BY <1>6
  <2> QED
    BY <1>1, <1>6, <1>9, <1>11, <2>1, <2>2, <2>3, ViewsStayOK
<1> QED
  BY <1>11, <1>12, <1>14, <1>16, <1>17, <1>18 DEF StayParts

(* What the audit finds: tonight is one of the nights of the stay, or the *)
(* stay ended and every night since, tonight's too, is added to it.       *)
LEMMA Overstay ==
  ASSUME NEW v \in Views, ViewOK(v), StayTyped, NightsHaveRates,
         v.date = businessDate, v.date \in Nights,
         (OverstayNights(v) \ v.rates) \cap rates = {}
  PROVE  LET over == OverstayNights(v) IN
         /\ over \ v.rates = over /\ over \cap rates = {} /\ over \subseteq Nights
         /\ rates \cup over
              = 1..((IF over = {} THEN departure ELSE TheDayAfter(v.date)) - 1)
         /\ over = {} => v.date \in v.rates /\ v.date < departure
         /\ over # {} => v.date \in over /\ departure <= v.date
         /\ \A n \in rates \cup over : n < v.date \/ n = v.date \/ v.date < n
         /\ v.rates \subseteq rates
<1>1. /\ v.date \in Nat /\ v.date >= 1 /\ v.date <= MaxNight /\ MaxNight \in Nat
      /\ v.departure \in Nat /\ v.departure >= 2 /\ departure \in Nat
      /\ v.departure <= departure
      /\ v.rates = 1..(v.departure - 1) /\ rates = 1..(departure - 1)
  BY Numbers, StayNumbers, ViewTyped DEF ViewOK, NightsHaveRates
<1>2. v.rates \subseteq rates
  BY <1>1
<1>3. CASE v.date < v.departure
  <2>1. v.date \in v.rates
    BY <1>1, <1>3
  <2>2. OverstayNights(v) = {}
    BY <2>1 DEF OverstayNights
  <2>3. v.date < departure
    BY <1>1, <1>3
  <2>4. \A n \in rates : n < v.date \/ n = v.date \/ v.date < n
    BY <1>1
  <2> QED
    BY <1>1, <1>2, <2>1, <2>2, <2>3, <2>4
<1>4. CASE v.departure <= v.date
  <2>1. v.date \notin v.rates
    BY <1>1, <1>4
  <2>2. OverstayNights(v) = v.departure..v.date
    BY <1>4, <2>1 DEF OverstayNights
  <2>3. PICK over : over = v.departure..v.date
    OBVIOUS
  <2>4. over \ v.rates = over /\ over \subseteq Nights /\ v.date \in over /\ v.departure \in over
    BY <1>1, <1>4, <2>3 DEF Nights
  <2>5. over \cap rates = {}
    BY <2>2, <2>3, <2>4
  <2>6. v.departure = departure
    BY <1>1, <2>4, <2>5
  <2>7. rates \cup over = 1..((v.date + 1) - 1)
    BY <1>1, <1>4, <2>3, <2>6
  <2>8. over # {} /\ TheDayAfter(v.date) = v.date + 1 /\ departure <= v.date
    BY <1>4, <2>4, <2>6 DEF TheDayAfter
  <2>9. \A n \in rates \cup over : n < v.date \/ n = v.date \/ v.date < n
    BY <1>1, <2>3
  <2> QED
    BY <1>2, <2>2, <2>3, <2>4, <2>5, <2>7, <2>8, <2>9
<1> QED
  BY <1>1, <1>3, <1>4

(* What the audit leaves alone, and what it asks. *)
LEMMA AuditFacts ==
  ASSUME StayParts, NEW r \in Requests, Audit(r), NEW v, v = trx[r].view
  PROVE  /\ v \in Views /\ ViewOK(v)
         /\ Finish(r) /\ v.date \in Nights /\ businessDate = v.date
         /\ businessDate' = businessDate + 1
         /\ status' = status /\ folio' = folio
         /\ since' = since /\ booked' = booked /\ voided' = voided /\ moved' = moved
         /\ desk' = desk
         /\ raced' \in BOOLEAN
         /\ ~raced' => ~raced /\ v.status = status /\ v.charges = charges
         /\ businessDate \in Nat /\ businessDate' \in 1..(MaxNight + 1)
<1>1. v \in Views /\ ViewOK(v)
  BY DEF StayParts, TrxTyped, ViewsOK
<1>2. /\ Finish(r) /\ v.date \in Nights /\ businessDate = v.date
      /\ businessDate' = businessDate + 1
      /\ status' = status /\ folio' = folio
      /\ since' = since /\ booked' = booked /\ voided' = voided /\ moved' = moved
      /\ desk' = desk
      /\ raced' = (raced \/ Overtaken(v))
  BY DEF Audit
<1>3. raced' \in BOOLEAN /\ (~raced' => ~raced /\ v.status = status /\ v.charges = charges)
  BY <1>2 DEF Overtaken
<1>4. businessDate \in Nat /\ businessDate' \in 1..(MaxNight + 1)
  BY <1>2, Numbers
<1> QED
  BY <1>1, <1>2, <1>3, <1>4

(* An audit that passes the stay by: nobody is in house. *)
LEMMA AuditPassesBy ==
  ASSUME StayParts, NEW r \in Requests, Audit(r), NEW v, v = trx[r].view,
         ~(v.status = "checked_in" /\ FirstOf(Held(v.folio, {"open"})) # 0)
  PROVE  StayParts'
<1>1. /\ StayTyped /\ HistoryTyped /\ TrxTyped /\ ViewsOK
      /\ NightsHaveRates /\ FirstFolioFirst /\ OpenTillOut
      /\ LinesAreDue /\ OneLineOnFolioOne
  BY DEF StayParts
<1>2. /\ v \in Views /\ ViewOK(v)
      /\ Finish(r) /\ v.date \in Nights /\ businessDate = v.date
      /\ businessDate' = businessDate + 1
      /\ status' = status /\ folio' = folio
      /\ since' = since /\ booked' = booked /\ voided' = voided /\ moved' = moved
      /\ desk' = desk
      /\ raced' \in BOOLEAN
      /\ ~raced' => ~raced /\ v.status = status /\ v.charges = charges
      /\ businessDate \in Nat /\ businessDate' \in 1..(MaxNight + 1)
  BY AuditFacts
<1>3. rates' = rates /\ departure' = departure /\ late' = late /\ charges' = charges
  BY DEF Audit
<1>4. ~raced' => status # "checked_in"
  <2>1. ASSUME ~raced', status = "checked_in" PROVE FALSE
    <3>1. v.status = "checked_in" /\ v.folio[1] = "open"
      BY <1>2, <2>1 DEF ViewOK
    <3>2. FirstOf(Held(v.folio, {"open"})) = 1
      BY <3>1, OpenIsOne
    <3> QED
      BY <3>1, <3>2
  <2> QED
    BY <2>1
<1>5. StayTyped' /\ HistoryTyped'
  BY <1>1, <1>2, <1>3 DEF StayTyped, HistoryTyped
<1>6. NightsHaveRates' /\ FirstFolioFirst' /\ OpenTillOut'
  BY <1>1, <1>2, <1>3 DEF NightsHaveRates, FirstFolioFirst, OpenTillOut
<1>7. LinesAreDue'
  <2> SUFFICES ASSUME NEW g \in Folios, NEW n \in Nights
               PROVE  /\ charges[g][n] > 0 => n \in rates
                      /\ late[g][n] > 0 => n \in rates /\ n < businessDate'
                                             /\ status # "confirmed"
    BY <1>2, <1>3 DEF LinesAreDue
  <2>1. n \in Nat
    BY Numbers
  <2> QED
    BY <1>1, <1>2, <2>1 DEF LinesAreDue
<1>8. OneLineOnFolioOne'
  BY <1>1, <1>2, <1>3 DEF OneLineOnFolioOne
<1>9. DueNightsAreLined'
  BY <1>2, <1>4 DEF DueNightsAreLined
<1>10. ViewsOK' /\ TrxTyped'
  <2>1. departure <= departure' /\ businessDate <= businessDate'
    BY <1>1, <1>2, <1>3, StayNumbers
  <2>2. \E q \in Requests : Finish(q)
    BY <1>2
  <2>3. ~(status' = "checked_in" /\ ~raced')
    BY <1>2, <1>4
  <2> QED
    BY <1>1, <1>2, <1>5, <2>1, <2>2, <2>3, ViewsStayOK
<1> QED
  BY <1>5, <1>6, <1>7, <1>8, <1>9, <1>10 DEF StayParts

(* An audit that bills: tonight, and the nights of an overstay before it. *)
LEMMA AuditBills ==
  ASSUME StayParts, NEW r \in Requests, Audit(r), NEW v, v = trx[r].view,
         v.status = "checked_in", FirstOf(Held(v.folio, {"open"})) # 0
  PROVE  StayParts'
<1>1. /\ StayTyped /\ HistoryTyped /\ TrxTyped /\ ViewsOK
      /\ NightsHaveRates /\ FirstFolioFirst /\ OpenTillOut
      /\ LinesAreDue /\ OneLineOnFolioOne /\ DueNightsAreLined
  BY DEF StayParts
<1>2. /\ v \in Views /\ ViewOK(v)
      /\ Finish(r) /\ v.date \in Nights /\ businessDate = v.date
      /\ businessDate' = businessDate + 1
      /\ status' = status /\ folio' = folio
      /\ since' = since /\ booked' = booked /\ voided' = voided /\ moved' = moved
      /\ desk' = desk
      /\ raced' \in BOOLEAN
      /\ ~raced' => ~raced /\ v.status = status /\ v.charges = charges
      /\ businessDate \in Nat /\ businessDate' \in 1..(MaxNight + 1)
  BY AuditFacts
<1>3. PICK f : f = FirstOf(Held(v.folio, {"open"}))
  OBVIOUS
<1>4. PICK over : over = OverstayNights(v)
  OBVIOUS
<1>5. PICK lates : lates = Unposted(v.late, f, over \ {v.date})
  OBVIOUS
<1>6. PICK due : due = Tonight(v, f, v.rates \cup over)
  OBVIOUS
<1>7. /\ (over \ v.rates) \cap rates = {}
      /\ rates' = rates \cup (over \ v.rates)
      /\ departure' = IF over = {} THEN departure ELSE TheDayAfter(v.date)
      /\ late' = Added(late, f, lates) /\ charges' = Added(charges, f, due)
  BY <1>3, <1>4, <1>5, <1>6 DEF Audit
<1>8. /\ over \ v.rates = over /\ over \cap rates = {} /\ over \subseteq Nights
      /\ rates \cup over = 1..((IF over = {} THEN departure ELSE TheDayAfter(v.date)) - 1)
      /\ over = {} => v.date \in v.rates /\ v.date < departure
      /\ over # {} => v.date \in over /\ departure <= v.date
      /\ v.rates \subseteq rates
  BY <1>1, <1>2, <1>4, <1>7, Overstay
<1>9. /\ rates' = rates \cup over /\ rates' = 1..(departure' - 1)
      /\ v.date \in rates'
  BY <1>7, <1>8
<1>10. /\ departure' \in 2..(MaxNight + 1) /\ departure <= departure'
       /\ businessDate' <= departure'
  <2>1. departure \in Nat /\ departure >= 2 /\ departure <= MaxNight + 1
    BY <1>1, StayNumbers
  <2>2. MaxNight \in Nat /\ v.date \in Nat /\ v.date >= 1 /\ v.date <= MaxNight
    BY <1>2, Numbers
  <2>3. CASE over = {}
    BY <1>2, <1>7, <1>8, <2>1, <2>2, <2>3
  <2>4. CASE over # {}
    BY <1>2, <1>7, <1>8, <2>1, <2>2, <2>4 DEF TheDayAfter
  <2> QED
    BY <2>3, <2>4
<1>11. /\ charges \in LineCounts /\ late \in LineCounts
       /\ charges' \in LineCounts /\ late' \in LineCounts
       /\ \A g \in Folios, n \in Nights :
            /\ charges[g][n] \in Nat /\ late[g][n] \in Nat
            /\ charges'[g][n]
                 = IF g = f /\ n \in due THEN charges[g][n] + 1 ELSE charges[g][n]
            /\ late'[g][n] = IF g = f /\ n \in lates THEN late[g][n] + 1 ELSE late[g][n]
  BY <1>1, <1>7, AddedLines, StayNumbers DEF StayTyped
<1>12. StayTyped' /\ HistoryTyped'
  <2>1. rates' \subseteq Nights
    BY <1>1, <1>8, <1>9 DEF StayTyped
  <2> QED
    BY <1>1, <1>2, <1>10, <1>11, <2>1 DEF StayTyped, HistoryTyped
<1>13. NightsHaveRates' /\ FirstFolioFirst' /\ OpenTillOut'
  BY <1>1, <1>2, <1>9 DEF NightsHaveRates, FirstFolioFirst, OpenTillOut
<1>14. /\ \A n \in due : n = v.date
       /\ \A n \in lates : n \in over /\ n # v.date /\ n \notin rates /\ n < businessDate
  <2>1. \A n \in due : n = v.date
    BY <1>6 DEF Tonight, Unposted
  <2>2. \A n \in lates : n \in over /\ n # v.date
    BY <1>5 DEF Unposted
  <2>3. \A n \in over : n \in Nat /\ n <= v.date
    <3>1. v.date \in Nat /\ v.departure \in Nat
      BY <1>2, ViewTyped
    <3> QED
      BY <1>4, <3>1 DEF OverstayNights
  <2> QED
    BY <1>2, <1>8, <2>1, <2>2, <2>3
<1>15. status # "confirmed"
  BY <1>2 DEF ViewOK
<1>16. LinesAreDue'
  <2> SUFFICES ASSUME NEW g \in Folios, NEW n \in Nights
               PROVE  /\ charges'[g][n] > 0 => n \in rates'
                      /\ late'[g][n] > 0 => n \in rates' /\ n < businessDate'
                                              /\ status # "confirmed"
    BY <1>2 DEF LinesAreDue
  <2>1. n \in Nat
    BY Numbers
  <2>2. charges'[g][n] > 0 => n \in rates'
    BY <1>1, <1>9, <1>11, <1>14 DEF LinesAreDue
  <2>3. late'[g][n] > 0 => n \in rates' /\ n < businessDate
    BY <1>1, <1>9, <1>11, <1>14 DEF LinesAreDue
  <2> QED
    BY <1>2, <1>15, <2>1, <2>2, <2>3
<1>17. ~raced' => f = 1
  BY <1>2, <1>3, OpenIsOne DEF ViewOK
<1>18. OneLineOnFolioOne'
  <2> SUFFICES ASSUME ~raced', NEW n \in Nights \ moved
               PROVE  /\ charges'[1][n] + late'[1][n] <= 1
                      /\ \A g \in Folios \ {1} : charges'[g][n] = 0 /\ late'[g][n] = 0
    BY <1>2 DEF OneLineOnFolioOne
  <2>1. /\ charges[1][n] + late[1][n] <= 1
        /\ \A g \in Folios \ {1} : charges[g][n] = 0 /\ late[g][n] = 0
    BY <1>1, <1>2 DEF OneLineOnFolioOne
  <2>2. n \in lates => charges[1][n] = 0 /\ late[1][n] = 0 /\ n \notin due
    <3>1. n \in lates => ~(charges[1][n] > 0) /\ ~(late[1][n] > 0)
      BY <1>1, <1>14, Numbers DEF LinesAreDue
    <3> QED
      BY <1>11, <1>14, <3>1, Numbers
  <2>3. n \in due => charges[1][n] = 0 /\ late[1][n] = 0 /\ n \notin lates
    <3>1. n \in due => charges[1][n] = 0
      BY <1>2, <1>6, <1>17 DEF Tonight, Unposted
    <3>2. n \in due => ~(late[1][n] > 0)
      BY <1>1, <1>2, <1>14, Numbers DEF LinesAreDue
    <3> QED
      BY <1>11, <1>14, <3>1, <3>2, Numbers
  <2> QED
    BY <1>11, <1>17, <2>1, <2>2, <2>3, Numbers
<1>19. DueNightsAreLined'
  <2> SUFFICES ASSUME ~raced', status = "checked_in", NEW n \in DueNights'
               PROVE  \E g \in Folios : charges'[g][n] > 0 \/ late'[g][n] > 0
    BY <1>2 DEF DueNightsAreLined, Lined
  <2>1. /\ n \in rates' /\ n \in Nights /\ n < businessDate + 1
        /\ n \notin voided /\ (since <= n \/ booked <= n)
    BY <1>2, <1>12 DEF DueNights, StayTyped
  <2>2. CASE n = v.date
    <3>1. n \in v.rates \cup over
      BY <1>8, <2>2
    <3>2. charges[1][n] = 0 => n \in due
      BY <1>2, <1>6, <1>17, <2>2, <3>1 DEF Tonight, Unposted
    <3> QED
      BY <1>11, <1>17, <2>1, <3>2, Numbers
  <2>3. CASE n \in rates /\ n # v.date
    <3>1. n < businessDate
      BY <1>2, <2>1, <2>3, Numbers
    <3>2. n \in DueNights
      BY <2>1, <2>3, <3>1 DEF DueNights
    <3>3. PICK g \in Folios : charges[g][n] > 0 \/ late[g][n] > 0
      BY <1>1, <1>2, <3>2 DEF DueNightsAreLined, Lined
    <3> QED
      BY <1>11, <2>1, <3>3
  <2>4. CASE n \in over /\ n # v.date
    <3>1. n \notin v.rates
      BY <1>8, <2>4
    <3>2. v.late[1][n] = 0
      <4>1. ~(v.late[1][n] > 0)
        BY <1>2, <2>1, <3>1, Numbers DEF ViewOK
      <4> QED
        BY <1>2, <2>1, <4>1, Numbers, ViewTyped
    <3>3. n \in lates
      BY <1>5, <1>17, <2>4, <3>2 DEF Unposted
    <3> QED
      BY <1>11, <1>17, <2>1, <3>3, Numbers
  <2> QED
    BY <1>9, <2>1, <2>2, <2>3, <2>4
<1>20. ViewsOK' /\ TrxTyped'
  <2>1. businessDate <= businessDate'
    BY <1>2
  <2>2. \E q \in Requests : Finish(q)
    BY <1>2
  <2> QED
    BY <1>1, <1>2, <1>10, <1>12, <2>1, <2>2, ViewsStayOK
<1> QED
  BY <1>12, <1>13, <1>16, <1>18, <1>19, <1>20 DEF StayParts

-----------------------------------------------------------------------------
(* The theorems. *)

(* A booking nobody has touched. *)
LEMMA StayInitInv == Init => StayParts
<1> SUFFICES ASSUME Init PROVE StayParts
  OBVIOUS
<1>1. /\ status = "confirmed" /\ businessDate = 1
      /\ departure \in 2..(MaxNight + 1) /\ rates = 1..(departure - 1)
      /\ folio = [f \in Folios |-> "none"] /\ charges = NoLines /\ late = NoLines
      /\ trx = [r \in Requests |-> Idle]
      /\ since = 0 /\ booked = 0 /\ voided = {} /\ moved = {} /\ raced = FALSE /\ desk = 0
  BY DEF Init
<1>2. NoLines \in LineCounts /\ \A f \in Folios, n \in Nights : NoLines[f][n] = 0
  BY DEF NoLines, LineCounts
<1>3. StayTyped
  <2>1. rates \subseteq Nights
    BY <1>1, Numbers DEF Nights
  <2>2. businessDate \in 1..(MaxNight + 1) /\ folio \in FolioStates
    BY <1>1, Numbers DEF FolioStates
  <2> QED
    BY <1>1, <1>2, <2>1, <2>2 DEF StayTyped, Statuses
<1>4. HistoryTyped
  <2>1. since \in 0..(MaxNight + 1) /\ booked \in 0..(MaxNight + 1) /\ desk \in 0..MaxDesk
    BY <1>1, Numbers
  <2>2. voided \subseteq Nights /\ moved \subseteq Nights /\ raced \in BOOLEAN
    BY <1>1
  <2> QED
    BY <2>1, <2>2 DEF HistoryTyped
<1>5. TrxTyped
  BY <1>1, IdleTyped DEF TrxTyped
<1>6. NightsHaveRates /\ FirstFolioFirst /\ OpenTillOut
  BY <1>1 DEF NightsHaveRates, FirstFolioFirst, OpenTillOut
<1>7. LinesAreDue /\ OneLineOnFolioOne
  BY <1>1, <1>2, Numbers DEF LinesAreDue, OneLineOnFolioOne
<1>8. DueNightsAreLined
  BY <1>1 DEF DueNightsAreLined
<1>9. ViewsOK
  <2>1. ViewOK(EmptyView)
    BY <1>3, EmptyViewOK
  <2>2. \A r \in Requests : trx[r].view = EmptyView
    BY <1>1 DEF Idle
  <2> QED
    BY <2>1, <2>2 DEF ViewsOK
<1> QED
  BY <1>3, <1>4, <1>5, <1>6, <1>7, <1>8, <1>9 DEF StayParts

(* Every step keeps the invariant. *)
LEMMA StayNextInv == StayParts /\ [Next]_vars => StayParts'
<1> SUFFICES ASSUME StayParts, [Next]_vars PROVE StayParts'
  OBVIOUS
<1>1. ASSUME NEW r \in Requests, NEW op \in Ops, Begin(r, op) PROVE StayParts'
  BY <1>1, BeginInv
<1>2. ASSUME NEW r \in Requests, OpenBookingFolio(r) PROVE StayParts'
  BY <1>2, OpenBookingFolioInv
<1>3. ASSUME NEW r \in Requests, CheckIn(r) PROVE StayParts'
  BY <1>3, CheckInInv
<1>4. ASSUME NEW r \in Requests, CheckOut(r) PROVE StayParts'
  BY <1>4, CheckOutInv
<1>5. ASSUME NEW r \in Requests, Audit(r) PROVE StayParts'
  <2>1. PICK v : v = trx[r].view
    OBVIOUS
  <2>2. CASE v.status = "checked_in" /\ FirstOf(Held(v.folio, {"open"})) # 0
    BY <1>5, <2>1, <2>2, AuditBills
  <2>3. CASE ~(v.status = "checked_in" /\ FirstOf(Held(v.folio, {"open"})) # 0)
    BY <1>5, <2>1, <2>3, AuditPassesBy
  <2> QED
    BY <2>2, <2>3
<1>6. ASSUME NEW r \in Requests, Abort(r) PROVE StayParts'
  BY <1>6, AbortInv
<1>7. ASSUME NEW r \in Requests, NEW to \in 2..(MaxNight + 1), ExtendStay(r, to)
      PROVE  StayParts'
  BY <1>7, ExtendStayInv
<1>8. ASSUME OpenAdditionalFolio PROVE StayParts'
  BY <1>8, OpenAdditionalFolioInv
<1>9. ASSUME NEW f \in Folios, NEW g \in Folios, NEW n \in Nights,
             MoveLineItem(f, g, n) \/ VoidLineItem(f, n)
      PROVE  StayParts'
  BY <1>9, MoveLineItemInv, VoidLineItemInv
<1>10. ASSUME UNCHANGED vars PROVE StayParts'
  <2>1. UNCHANGED <<reservation, businessDate, ledger, history>> /\ trx' = trx
    BY <1>10 DEF vars
  <2>2. BillParts /\ TrxTyped /\ ViewsOK
    BY DEF StayParts, BillParts
  <2>3. BillParts'
    BY <2>1, <2>2, NothingWritten
  <2>4. /\ status' = status /\ departure' = departure /\ businessDate' = businessDate
        /\ raced' = raced
    BY <2>1 DEF reservation, history
  <2>5. ViewsOK' /\ TrxTyped'
    BY <2>1, <2>2, <2>4 DEF ViewsOK, ViewOK, TrxTyped
  <2> QED
    BY <2>3, <2>5 DEF StayParts, BillParts
<1> QED
  BY <1>1, <1>2, <1>3, <1>4, <1>5, <1>6, <1>7, <1>8, <1>9, <1>10 DEF Next

(* The invariant holds in every reachable state. *)
THEOREM StayInvariant == Spec => []StayInv
<1>1. StayParts <=> StayInv
  BY PartsOfInv
<1> QED
  BY <1>1, StayInitInv, StayNextInv, PTL DEF Spec

(* The stay, its bill and the snapshots of the requests have their types; *)
(* in particular no operation bills a folio or a night that is not there. *)
THEOREM StayTypes == Spec => []TypeOK
<1>1. StayInv => TypeOK
  BY DEF StayInv
<1> QED
  BY <1>1, StayInvariant, PTL

(* A night is never billed twice, whoever bills it and in whatever order:   *)
(* until a line of it is moved it has at most one, and that one is where    *)
(* every guard looks (postRoomChargesForStay, postLateRoomCharges, audit).  *)
THEOREM NoNightBilledTwice == Spec => []NightBilledOnce
<1>1. StayInv => NightBilledOnce
  <2> SUFFICES ASSUME StayInv, NEW n \in Nights \ moved, ~raced PROVE Billed(n) <= 1
    BY DEF NightBilledOnce
  <2>1. StayTyped /\ OneLineOnFolioOne
    BY PartsOfInv DEF StayParts
  <2> QED
    BY <2>1, OneLineIsBilledOnce DEF StayTyped, OneLineOnFolioOne
<1> QED
  BY <1>1, StayInvariant, PTL

(* Every audited night of a guest in house, since check-in or added to the *)
(* booking, is billed unless the desk voided a line of it: by the audit of *)
(* that night, by the audit that finds an overstay, or by extendStay.      *)
THEOREM EveryNightInHouseBilled == Spec => []NoInHouseNightIsLost
<1>1. StayInv => NoInHouseNightIsLost
  <2> SUFFICES ASSUME StayInv, status = "checked_in", ~raced, NEW n \in rates \ voided,
                      since <= n \/ booked <= n, n < businessDate
               PROVE  Billed(n) >= 1
    BY DEF NoInHouseNightIsLost
  <2>1. StayTyped /\ DueNightsAreLined
    BY PartsOfInv DEF StayParts
  <2>2. n \in DueNights
    BY DEF DueNights
  <2>3. Lined(n) /\ n \in Nights
    BY <2>1, <2>2 DEF DueNightsAreLined, StayTyped
  <2> QED
    BY <2>1, <2>3, LinedIsBilled DEF StayTyped
<1> QED
  BY <1>1, StayInvariant, PTL
=============================================================================
