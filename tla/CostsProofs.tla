---------------------------- MODULE CostsProofs ----------------------------
(***************************************************************************)
(* Proofs about Costs: the rate table and its succession, that a stale     *)
(* price is always on somebody's list, and that Costs implements PriceBook.*)
(***************************************************************************)
EXTENDS Costs, FiniteSetTheorems, TLAPS

-----------------------------------------------------------------------------
(* The rate table.                                                         *)

(* Without overlaps a day has one rate, and resolveRate finds it.          *)
LEMMA ResolveUnique ==
  ASSUME NEW table \in [Rate -> Row], Exclusive(table), NEW day \in Nat,
         NEW r \in Covering(table, day)
  PROVE  Resolve(table, day) = r
<1>1. ASSUME NEW q \in Covering(table, day) PROVE q = r
  <2> SUFFICES ASSUME q # r PROVE FALSE OBVIOUS
  <2>1. q \in LiveIn(table) /\ r \in LiveIn(table) /\ q \in Rate /\ r \in Rate
    BY <1>1 DEF Covering, LiveIn
  <2>2. table[r].to < table[q].from \/ table[q].to < table[r].from
    BY <2>1 DEF Exclusive
  <2>3. /\ table[q].from \in Nat /\ table[q].to \in Nat
        /\ table[r].from \in Nat /\ table[r].to \in Nat
    BY <2>1 DEF Row
  <2>4. /\ table[q].from <= day /\ day <= table[q].to
        /\ table[r].from <= day /\ day <= table[r].to
    BY <1>1 DEF Covering
  <2> QED BY <2>2, <2>3, <2>4
<1>2. Covering(table, day) = {r} BY <1>1
<1>3. table[r].from <= table[r].from BY DEF Covering, LiveIn, Row
<1>4. (CHOOSE x \in Covering(table, day) :
         \A q \in Covering(table, day) : table[q].from <= table[x].from) = r
  BY <1>2, <1>3
<1> QED BY <1>4 DEF Resolve

(* A day has no rate exactly when no rate covers it.                       *)
LEMMA ResolveNone ==
  ASSUME NEW table \in [Rate -> Row], Exclusive(table), NEW day \in Nat
  PROVE  /\ Resolve(table, day) = NoRate <=> Covering(table, day) = {}
         /\ Resolve(table, day) # NoRate => Resolve(table, day) \in Covering(table, day)
<1>1. CASE Covering(table, day) = {} BY <1>1 DEF Resolve
<1>2. CASE Covering(table, day) # {}
  <2>1. PICK r \in Covering(table, day) : TRUE BY <1>2
  <2>2. Resolve(table, day) = r BY <2>1, ResolveUnique
  <2>3. r \in Rate BY <2>1 DEF Covering, LiveIn
  <2> QED BY <1>2, <2>1, <2>2, <2>3, RateAssumption
<1> QED BY <1>1, <1>2

(* An accepted plan, carried out on the table it was made for, leaves no   *)
(* overlap and re-prices exactly the days it should (planRateSuccession).  *)
THEOREM Succession ==
  ASSUME NEW table \in [Rate -> Row], Exclusive(table),
         NEW new \in Rate, table[new].state = "unused",
         NEW from \in Day, NEW to \in Day \cup {Forever}, from <= to,
         NEW cents \in Nat, PlanOk(table, from, to)
  PROVE  SuccessionExact(table, new, from, to, cents)
<1> DEFINE caps  == Caps(table, from, to)
           after == Succeed(table, caps, new, from, to, cents)
<1>a. from \in Nat \ {0} /\ to \in Nat /\ from - 1 \in Nat
  BY RateAssumption DEF Day, Forever
<1>b. \A r \in Rate : /\ table[r] \in Row /\ table[r].from \in Nat /\ table[r].to \in Nat
  BY DEF Row
<1>c. \A r \in caps : /\ r \in LiveIn(table) /\ r \in Rate /\ r # new
                      /\ table[r].from < from /\ table[r].to >= from
  BY DEF Caps, PlanOk, LiveIn
<1>d. \A r \in LiveIn(table) \ caps : table[r].to < from \/ to < table[r].from
  <2> SUFFICES ASSUME NEW r \in LiveIn(table) \ caps
               PROVE  table[r].to < from \/ to < table[r].from
    OBVIOUS
  <2>1. r \in Rate BY DEF LiveIn
  <2>2. ~(table[r].from <= to /\ table[r].to >= from) BY DEF Caps
  <2> QED BY <2>1, <2>2, <1>a, <1>b
<1>1. /\ after[new].state = "live" /\ after[new].from = from /\ after[new].to = to
      /\ \A r \in caps : /\ after[r].state = "live" /\ after[r].from = table[r].from
                         /\ after[r].to = from - 1
      /\ \A r \in Rate \ (caps \cup {new}) : after[r] = table[r]
  BY <1>c DEF Succeed, NewRow, CappedRow, DayBefore, LiveIn
<1>2. LiveIn(after) = LiveIn(table) \cup {new}
  BY <1>1, <1>c DEF LiveIn
<1>3. after \in [Rate -> Row]
  BY <1>a, <1>b, <1>c DEF Succeed, NewRow, CappedRow, DayBefore, Row, LiveIn
<1> HIDE DEF caps, after
<1>4. Exclusive(after)
  <2>1. ASSUME NEW r \in LiveIn(after) PROVE after[r].from <= after[r].to
    <3>1. CASE r = new BY <3>1, <1>1, <1>a
    <3>2. CASE r \in caps BY <3>2, <1>1, <1>c, <1>a, <1>b
    <3>3. CASE r \notin caps /\ r # new
      BY <3>3, <1>1, <1>2 DEF Exclusive, LiveIn
    <3> QED BY <3>1, <3>2, <3>3
  <2>2. ASSUME NEW r \in LiveIn(after), NEW q \in LiveIn(after), q # r, r # new
        PROVE  after[r].to < after[q].from \/ after[q].to < after[r].from
    <3>0. r \in LiveIn(table) /\ r \in Rate /\ q \in Rate BY <2>2, <1>2 DEF LiveIn
    <3>1. CASE q = new
      <4>1. CASE r \in caps BY <4>1, <3>1, <1>1, <1>a, <1>b, <1>c
      <4>2. CASE r \notin caps BY <4>2, <3>0, <3>1, <2>2, <1>1, <1>d
      <4> QED BY <4>1, <4>2
    <3>2. CASE q # new
      <4>0. q \in LiveIn(table) BY <3>2, <1>2
      <4>1. table[r].to < table[q].from \/ table[q].to < table[r].from
        BY <3>0, <4>0, <2>2 DEF Exclusive
      <4>2. CASE r \in caps /\ q \in caps
        BY <4>1, <4>2, <1>c, <1>b, <1>a, <3>0
      <4>3. CASE r \in caps /\ q \notin caps
        <5>1. after[r].from = table[r].from /\ after[r].to = from - 1 /\ after[q] = table[q]
          BY <4>3, <1>1, <3>0, <3>2
        <5>2. table[r].to >= from BY <4>3, <1>c
        <5> QED BY <4>1, <5>1, <5>2, <1>a, <1>b, <3>0
      <4>4. CASE r \notin caps /\ q \in caps
        <5>1. after[q].from = table[q].from /\ after[q].to = from - 1 /\ after[r] = table[r]
          BY <4>4, <1>1, <3>0, <2>2
        <5>2. table[q].to >= from BY <4>4, <1>c
        <5> QED BY <4>1, <5>1, <5>2, <1>a, <1>b, <3>0
      <4>5. CASE r \notin caps /\ q \notin caps
        BY <4>1, <4>5, <1>1, <3>0, <3>2, <2>2
      <4> QED BY <4>2, <4>3, <4>4, <4>5
    <3> QED BY <3>1, <3>2
  <2> QED BY <2>1, <2>2 DEF Exclusive
<1>5. ASSUME NEW day \in Day
      PROVE  Resolve(after, day) =
               IF day < from THEN Resolve(table, day)
               ELSE IF day <= to THEN new
               ELSE IF Resolve(table, day) \in caps THEN NoRate
               ELSE Resolve(table, day)
  <2>0. day \in Nat BY RateAssumption DEF Day
  <2>1. CASE day < from
    <3>1. ASSUME NEW r \in Rate PROVE r \in Covering(after, day) <=> r \in Covering(table, day)
      <4>1. CASE r = new
        <5>1. r \notin Covering(after, day) BY <4>1, <2>1, <2>0, <1>1, <1>a DEF Covering
        <5>2. r \notin Covering(table, day) BY <4>1 DEF Covering, LiveIn
        <5> QED BY <5>1, <5>2
      <4>2. CASE r \in caps
        BY <4>2, <2>0, <2>1, <1>1, <1>2, <1>a, <1>b, <1>c DEF Covering
      <4>3. CASE r \notin caps \cup {new}
        BY <4>3, <1>1, <1>2 DEF Covering
      <4> QED BY <4>1, <4>2, <4>3
    <3>2. Covering(after, day) = Covering(table, day)
      BY <3>1 DEF Covering, LiveIn
    <3>3. CASE Covering(table, day) = {} BY <3>2, <3>3, <2>1 DEF Resolve
    <3>4. CASE Covering(table, day) # {}
      <4>1. PICK r \in Covering(table, day) : TRUE BY <3>4
      <4>2. Resolve(table, day) = r BY <4>1, <2>0, ResolveUnique
      <4>3. Resolve(after, day) = r BY <4>1, <3>2, <2>0, <1>3, <1>4, ResolveUnique
      <4> QED BY <4>2, <4>3, <2>1
    <3> QED BY <3>3, <3>4
  <2>2. CASE day >= from /\ day <= to
    <3>1. new \in Covering(after, day) BY <2>2, <1>1, <1>2 DEF Covering
    <3>2. Resolve(after, day) = new BY <3>1, <2>0, <1>3, <1>4, ResolveUnique
    <3> QED BY <3>2, <2>2, <2>0, <1>a
  <2>3. CASE day >= from /\ day > to
    <3>1. ASSUME NEW r \in Covering(after, day)
          PROVE  r \in Covering(table, day) /\ r \notin caps
      <4>0. r \in LiveIn(after) /\ r \in Rate /\ after[r].from <= day /\ day <= after[r].to
        BY <3>1 DEF Covering, LiveIn
      <4>1. r # new BY <4>0, <2>3, <2>0, <1>1, <1>a
      <4>2. r \notin caps BY <4>0, <2>3, <2>0, <1>1, <1>a
      <4>3. after[r] = table[r] /\ r \in LiveIn(table) BY <4>0, <4>1, <4>2, <1>1, <1>2
      <4> QED BY <4>0, <4>2, <4>3 DEF Covering
    <3>2. CASE Resolve(table, day) \in caps
      <4>1. Resolve(table, day) # NoRate BY <3>2, <1>c, RateAssumption
      <4>2. Covering(after, day) = {}
        <5> SUFFICES ASSUME NEW r \in Covering(after, day) PROVE FALSE OBVIOUS
        <5>1. Resolve(table, day) = r BY <3>1, <2>0, ResolveUnique
        <5> QED BY <5>1, <3>1, <3>2
      <4>3. Resolve(after, day) = NoRate BY <4>2 DEF Resolve
      <4> QED BY <4>3, <3>2, <2>3, <2>0, <1>a
    <3>3. CASE Resolve(table, day) \notin caps
      <4>1. CASE Resolve(table, day) = NoRate
        <5>1. Covering(after, day) = {} BY <4>1, <3>1, <2>0, ResolveNone
        <5> QED BY <5>1, <4>1, <3>3, <2>3, <2>0, <1>a DEF Resolve
      <4>2. CASE Resolve(table, day) # NoRate
        <5> DEFINE r == Resolve(table, day)
        <5>1. r \in Covering(table, day) BY <4>2, <2>0, ResolveNone
        <5>2. r \in LiveIn(table) /\ r \in Rate /\ r # new BY <5>1 DEF Covering, LiveIn
        <5>3. after[r] = table[r] BY <5>2, <3>3, <1>1
        <5>4. r \in Covering(after, day) BY <5>1, <5>2, <5>3, <1>2 DEF Covering
        <5>5. Resolve(after, day) = r BY <5>4, <2>0, <1>3, <1>4, ResolveUnique
        <5> QED BY <5>5, <3>3, <2>3, <2>0, <1>a
      <4> QED BY <4>1, <4>2
    <3> QED BY <3>2, <3>3
  <2> QED BY <2>0, <2>1, <2>2, <2>3, <1>a
<1> QED BY <1>4, <1>5 DEF SuccessionExact, caps, after

-----------------------------------------------------------------------------
(* Types.                                                                  *)

TypeInv == TypeOK /\ Exclusive(rate)

LEMMA DayType == ASSUME TypeInv, NEW f \in Fact PROVE DayAt(f) \in Day
BY DEF DayAt, Fact

LEMMA CalculateType ==
  ASSUME TypeInv, NEW cache \in Cache, NEW f \in Fact
  PROVE  Calculate(cache, f) \in Price /\ Filled(cache, f) \in Cache
<1> DEFINE day == DayAt(f)
<1>0. day \in Day /\ day \in Nat BY DayType, RateAssumption DEF Day
<1> HIDE DEF day
<1>1. rate \in [Rate -> Row] /\ Exclusive(rate) BY DEF TypeInv, TypeOK
<1>2. Resolve(rate, day) = NoRate \/ Resolve(rate, day) \in Covering(rate, day)
  BY <1>0, <1>1, ResolveNone
<1>3. Rated(rate, day) \in Price
  <2>1. CASE Resolve(rate, day) = NoRate BY <2>1 DEF Rated, Missing, Price
  <2>2. CASE Resolve(rate, day) # NoRate
    <3>1. Resolve(rate, day) \in Rate BY <2>2, <1>2 DEF Covering, LiveIn
    <3>2. rate[Resolve(rate, day)].cents \in Nat BY <3>1, <1>1 DEF Row
    <3> QED BY <2>2, <3>1, <3>2 DEF Rated, Price
  <2> QED BY <2>1, <2>2
<1>4. Excluded \in Price /\ Free \in Price BY DEF Excluded, Free, Price
<1>5. Calculate(cache, f) \in Price BY <1>0, <1>3, <1>4 DEF Calculate, Cache, day
<1> QED BY <1>5 DEF Filled, Cache

LEMMA PlainRecords ==
  /\ Unset \in Price /\ Empty \in Cache
  /\ IdleAdmin \in AdminRecord /\ At("notify") \in AdminRecord
  /\ At("notify_excluded") \in AdminRecord
  /\ FreeJob \in JobRecord
  /\ \A phase \in {"waiting", "working"}, todo \in SUBSET Listing, left \in 0..Attempts,
        stalls \in 0..MaxStalls : JobIn(phase, todo, left, stalls) \in JobRecord
  /\ \A batch \in SUBSET Listing : SyncOf(batch) \in SyncRecord
  /\ IdleSync \in SyncRecord
<1>1. Unset \in Price BY DEF Unset, Price
<1>2. Empty \in Cache BY <1>1 DEF Empty, Cache
<1>3. /\ IdleAdmin \in AdminRecord /\ At("notify") \in AdminRecord
      /\ At("notify_excluded") \in AdminRecord
  BY DEF IdleAdmin, At, AdminRecord
<1>4. \A phase \in {"free", "waiting", "working"}, todo \in SUBSET Listing,
        left \in 0..Attempts, stalls \in 0..MaxStalls :
          JobIn(phase, todo, left, stalls) \in JobRecord
  BY <1>1, <1>2 DEF JobIn, JobRecord
<1>5. FreeJob \in JobRecord BY <1>4, CostAssumption DEF FreeJob
<1>6. \A batch \in SUBSET Listing : SyncOf(batch) \in SyncRecord
  BY <1>1, <1>2 DEF SyncOf, SyncRecord
<1> QED BY <1>1, <1>2, <1>3, <1>4, <1>5, <1>6 DEF IdleSync

(* What a recalculation and a sync list.                                   *)
LEMMA ListingTypes ==
  ASSUME TypeInv
  PROVE  /\ TableRows \in SUBSET Listing
         /\ \A e \in Entry, said \in Edition : Fetched(e, said) \in Listing
<1>1. fact \in [Entry -> Fact] BY DEF TypeInv, TypeOK
<1>2. TableRows \in SUBSET Listing BY <1>1 DEF TableRows, Listing
<1>3. ASSUME NEW e \in Entry, NEW said \in Edition PROVE Fetched(e, said) \in Listing
  <2>1. said.start \in Day /\ said.billable \in BOOLEAN BY CostAssumption
  <2>2. fact[e].due \in Day \cup {NoDue} BY <1>1 DEF Fact
  <2> DEFINE due == IF pref.matching = "due" THEN fact[e].due ELSE NoDue
  <2>3. due \in Day \cup {NoDue} BY <2>2
  <2> HIDE DEF due
  <2>4. [start |-> said.start, billable |-> said.billable, due |-> due] \in Fact
    BY <2>1, <2>3 DEF Fact
  <2> QED BY <2>4 DEF Fetched, Listing, due
<1> QED BY <1>2, <1>3

LEMMA TypeInit == Init => TypeInv
<1> SUFFICES ASSUME Init PROVE TypeInv OBVIOUS
<1>1. rate \in [Rate -> Row]
  <2>1. Unused \in Row BY DEF Unused, Row
  <2>2. /\ Day \subseteq Nat /\ Forever \in Nat /\ Cents \subseteq Nat
    BY RateAssumption DEF Day, Forever
  <2>3. \A from \in Day, to \in Day \cup {Forever}, cents \in Cents :
          NewRow(from, to, cents) \in Row
    BY <2>2 DEF NewRow, Row
  <2>4. Rows \subseteq Row BY <2>1, <2>3 DEF Rows
  <2>5. rate \in [Rate -> Rows] BY DEF Init
  <2> QED BY <2>4, <2>5
<1>2. /\ admin \in [Admin -> AdminRecord] /\ job \in [Job -> JobRecord]
      /\ sync \in [Sync -> SyncRecord] /\ stored \in [Entry -> Price]
  BY PlainRecords DEF Init
<1>3. excluded \in BOOLEAN /\ pref \in Choice BY DEF Init
<1>7. fact \in [Entry -> Fact]
  <2>1. PICK first \in Edition :
          fact = [e \in Entry |-> [start |-> first.start, due |-> NoDue,
                                   billable |-> first.billable]]
    BY DEF Init
  <2>2. first.start \in Day /\ first.billable \in BOOLEAN BY CostAssumption
  <2> QED BY <2>1, <2>2 DEF Fact
<1>4. edits = 0 /\ gap = {} BY DEF Init
<1>5. edits \in 0..MaxEdits /\ gap \subseteq GapKind BY <1>4, CostAssumption
<1>6. Exclusive(rate) BY DEF Init
<1> QED BY <1>1, <1>2, <1>3, <1>5, <1>6, <1>7 DEF TypeInv, TypeOK

(* Every variable keeps its type, and the table its constraint, through    *)
(* every step.                                                             *)
LEMMA TypeStep == TypeInv /\ [Next]_vars => TypeInv'
<1> SUFFICES ASSUME TypeInv, [Next]_vars PROVE TypeInv' OBVIOUS
<1> USE DEF TypeInv, TypeOK
<1>0. /\ Day \subseteq Nat \ {0} /\ Forever \in Nat /\ Cents \subseteq Nat
  BY RateAssumption DEF Day, Forever
<1>e. OneEdit => edits' \in 0..MaxEdits
  BY CostAssumption DEF OneEdit
<1>q. Enqueue => job' \in [Job -> JobRecord] /\ gap' \subseteq GapKind
  <2>1. \A left \in 0..Attempts : JobIn("waiting", {}, left, 0) \in JobRecord
    BY PlainRecords, CostAssumption
  <2>2. JobIn("waiting", {}, Attempts, 0) \in JobRecord BY <2>1, CostAssumption
  <2> QED BY <2>2 DEF Enqueue
<1>1. ASSUME NEW a \in Admin, CreateRead(a) PROVE TypeInv'
  <2>1. PICK from \in Day : \E to \in Day \cup {Forever}, cents \in Cents :
          admin' = [admin EXCEPT ![a] =
                      [pc |-> "commit", caps |-> Caps(rate, from, to), from |-> from,
                       to |-> to, cents |-> cents, prev |-> FALSE, next |-> FALSE]]
    BY <1>1 DEF CreateRead
  <2>2. PICK to \in Day \cup {Forever}, cents \in Cents :
          admin' = [admin EXCEPT ![a] =
                      [pc |-> "commit", caps |-> Caps(rate, from, to), from |-> from,
                       to |-> to, cents |-> cents, prev |-> FALSE, next |-> FALSE]]
    BY <2>1
  <2>3. [pc |-> "commit", caps |-> Caps(rate, from, to), from |-> from,
         to |-> to, cents |-> cents, prev |-> FALSE, next |-> FALSE] \in AdminRecord
    BY <1>0 DEF AdminRecord, Caps, LiveIn
  <2>4. admin' \in [Admin -> AdminRecord] BY <2>2, <2>3
  <2> QED BY <2>4, <1>1, <1>e DEF CreateRead
<1>2. ASSUME NEW a \in Admin, CreateCommit(a) PROVE TypeInv'
  <2>1. PICK new \in Rate : CanCommit(a, new) /\ rate' = Committed(a, new)
    BY <1>2 DEF CreateCommit
  <2>2. Exclusive(rate') BY <2>1 DEF CanCommit
  <2>3. admin[a] \in AdminRecord OBVIOUS
  <2>4. /\ admin[a].from \in Nat /\ admin[a].to \in Nat /\ admin[a].cents \in Nat
    BY <2>3 DEF AdminRecord
  <2>5. ASSUME NEW r \in Rate PROVE rate'[r] \in Row
    <3>1. CASE r = new BY <3>1, <2>1, <2>4 DEF Committed, Succeed, NewRow, Row
    <3>2. CASE r \in admin[a].caps /\ r # new
      <4>1. rate'[r] = CappedRow(rate[r], admin[a].from)
        BY <3>2, <2>1 DEF Committed, Succeed
      <4>2. r \in LiveIn(rate) BY <3>2, <2>1 DEF CanCommit
      <4>3. r \in LiveIn(rate') BY <4>1, <4>2 DEF LiveIn, CappedRow
      <4>4. rate'[r].from <= rate'[r].to BY <4>3, <2>2 DEF Exclusive
      <4>5. rate[r] \in Row OBVIOUS
      <4>6. rate[r].from <= admin[a].from - 1
        BY <4>1, <4>4 DEF CappedRow, DayBefore
      <4>7. admin[a].from - 1 \in Nat BY <4>5, <4>6, <2>4 DEF Row
      <4> QED BY <4>1, <4>5, <4>7 DEF CappedRow, DayBefore, Row
    <3>3. CASE r \notin admin[a].caps /\ r # new
      BY <3>3, <2>1 DEF Committed, Succeed
    <3> QED BY <3>1, <3>2, <3>3
  <2>6. rate' \in [Rate -> Row] BY <2>5, <2>1 DEF Committed, Succeed
  <2>7. admin' \in [Admin -> AdminRecord] BY <1>2, PlainRecords DEF CreateCommit
  <2> QED BY <2>2, <2>6, <2>7, <1>2 DEF CreateCommit
<1>3. ASSUME NEW a \in Admin, CreateAborts(a) PROVE TypeInv'
  <2>1. admin' \in [Admin -> AdminRecord] BY <1>3, PlainRecords DEF CreateAborts
  <2> QED BY <2>1, <1>3 DEF CreateAborts
<1>4. ASSUME NEW a \in Admin, UpdateRate(a) PROVE TypeInv'
  <2>1. PICK r \in LiveIn(rate), from \in Day : \E to \in Day \cup {Forever}, cents \in Cents :
          /\ rate' = [rate EXCEPT ![r] = NewRow(from, to, cents)]
          /\ Exclusive(rate')
    BY <1>4 DEF UpdateRate
  <2>2. PICK to \in Day \cup {Forever}, cents \in Cents :
          /\ rate' = [rate EXCEPT ![r] = NewRow(from, to, cents)]
          /\ Exclusive(rate')
    BY <2>1
  <2>3. NewRow(from, to, cents) \in Row BY <1>0 DEF NewRow, Row
  <2>4. rate' \in [Rate -> Row] BY <2>2, <2>3
  <2>5. admin' \in [Admin -> AdminRecord] BY <1>4, PlainRecords DEF UpdateRate
  <2> QED BY <2>2, <2>4, <2>5, <1>4, <1>e DEF UpdateRate
<1>5. ASSUME NEW a \in Admin, RemoveRate(a) PROVE TypeInv'
  <2>1. PICK r \in LiveIn(rate) : /\ rate' = [rate EXCEPT ![r] = Removed]
                                  /\ stored' = [e \in Entry |-> Unlinked(stored[e], r)]
    BY <1>5 DEF RemoveRate
  <2>2. rate' \in [Rate -> Row] BY <2>1 DEF Removed, Row
  <2>3. r \in Rate BY DEF LiveIn
  <2>4. LiveIn(rate') = LiveIn(rate) \ {r} /\ \A q \in LiveIn(rate') : rate'[q] = rate[q]
    BY <2>1, <2>3 DEF LiveIn, Removed
  <2>5. Exclusive(rate') BY <2>4 DEF Exclusive
  <2>6. stored' \in [Entry -> Price] BY <2>1 DEF Unlinked, Price
  <2>7. admin' \in [Admin -> AdminRecord] BY <1>5, PlainRecords DEF RemoveRate
  <2> QED BY <2>2, <2>5, <2>6, <2>7, <1>5, <1>e DEF RemoveRate
<1>6. ASSUME NEW a \in Admin, ExcludeRead(a) PROVE TypeInv'
  <2>1. PICK next \in BOOLEAN :
          admin' = [admin EXCEPT ![a] =
                      [pc |-> "exclude", caps |-> {}, from |-> 0, to |-> 0, cents |-> 0,
                       prev |-> excluded, next |-> next]]
    BY <1>6 DEF ExcludeRead
  <2>2. admin' \in [Admin -> AdminRecord] BY <2>1 DEF AdminRecord
  <2> QED BY <2>2, <1>6, <1>e DEF ExcludeRead
<1>7. ASSUME NEW a \in Admin, ExcludeWrite(a) PROVE TypeInv'
  <2>1. admin' \in [Admin -> AdminRecord] BY <1>7, PlainRecords DEF ExcludeWrite
  <2>2. excluded' \in BOOLEAN BY <1>7 DEF ExcludeWrite, AdminRecord
  <2>3. gap' \subseteq GapKind BY <1>7 DEF ExcludeWrite, GapKind
  <2> QED BY <2>1, <2>2, <2>3, <1>7 DEF ExcludeWrite
<1>8. ASSUME NEW a \in Admin, Notify(a) PROVE TypeInv'
  <2>1. admin' \in [Admin -> AdminRecord] BY <1>8, PlainRecords DEF Notify
  <2> QED BY <2>1, <1>8, <1>q DEF Notify
<1>9. ASSUME NEW a \in Admin, NotifySkipped(a) \/ NotifyFails(a) PROVE TypeInv'
  <2>1. admin' \in [Admin -> AdminRecord]
    BY <1>9, PlainRecords DEF NotifySkipped, NotifyFails
  <2>2. gap' \subseteq GapKind BY <1>9 DEF NotifySkipped, NotifyFails, GapKind
  <2> QED BY <2>1, <2>2, <1>9 DEF NotifySkipped, NotifyFails
<1>10. ASSUME NEW a \in Admin, PatchPreferences(a) PROVE TypeInv'
  <2>1. gap' \subseteq GapKind BY <1>10 DEF PatchPreferences, GapKind
  <2> QED BY <2>1, <1>10, <1>e DEF PatchPreferences
<1>11. CASE RecalculateCosts BY <1>11, <1>e, <1>q DEF RecalculateCosts
<1>12. ASSUME NEW j \in Job, Take(j) PROVE TypeInv'
  <2>1. job[j].left \in 0..Attempts /\ job[j].stalls \in 0..MaxStalls BY DEF JobRecord
  <2>2. TableRows \in SUBSET Listing BY ListingTypes
  <2>3. JobIn("working", TableRows, job[j].left, job[j].stalls) \in JobRecord
    BY <2>1, <2>2, PlainRecords
  <2>4. job' \in [Job -> JobRecord] BY <2>3, <1>12 DEF Take
  <2> QED BY <2>4, <1>12 DEF Take
<1>13. ASSUME NEW j \in Job, RecalcPrice(j) PROVE TypeInv'
  <2>1. PICK row \in job[j].todo :
          job' = [job EXCEPT ![j] =
                    [phase |-> "working", todo |-> job[j].todo \ {row},
                     cache |-> Filled(job[j].cache, row.fact), held |-> row.entry,
                     price |-> Calculate(job[j].cache, row.fact),
                     left |-> job[j].left, stalls |-> job[j].stalls]]
    BY <1>13 DEF RecalcPrice
  <2>2. /\ job[j].todo \in SUBSET Listing /\ job[j].cache \in Cache
        /\ job[j].left \in 0..Attempts /\ job[j].stalls \in 0..MaxStalls
    BY DEF JobRecord
  <2>3. row.entry \in Entry /\ row.fact \in Fact BY <2>2 DEF Listing
  <2>4. /\ Calculate(job[j].cache, row.fact) \in Price
        /\ Filled(job[j].cache, row.fact) \in Cache
    BY <2>2, <2>3, CalculateType
  <2>5. [phase |-> "working", todo |-> job[j].todo \ {row},
         cache |-> Filled(job[j].cache, row.fact), held |-> row.entry,
         price |-> Calculate(job[j].cache, row.fact),
         left |-> job[j].left, stalls |-> job[j].stalls] \in JobRecord
    BY <2>2, <2>3, <2>4 DEF JobRecord
  <2>6. job' \in [Job -> JobRecord] BY <2>1, <2>5
  <2> QED BY <2>6, <1>13 DEF RecalcPrice
<1>14. ASSUME NEW j \in Job, RecalcWrite(j) PROVE TypeInv'
  <2>1. job[j] \in JobRecord OBVIOUS
  <2>2. job' \in [Job -> JobRecord] BY <2>1, <1>14, PlainRecords DEF RecalcWrite, JobRecord
  <2>3. stored' \in [Entry -> Price] BY <2>1, <1>14 DEF RecalcWrite, JobRecord
  <2> QED BY <2>2, <2>3, <1>14 DEF RecalcWrite
<1>15. ASSUME NEW j \in Job, RecalcDone(j) PROVE TypeInv'
  <2>1. job' \in [Job -> JobRecord] BY <1>15, PlainRecords DEF RecalcDone
  <2> QED BY <2>1, <1>15 DEF RecalcDone
<1>16. ASSUME NEW j \in Job, RecalcFails(j) \/ JobStalls(j) PROVE TypeInv'
  <2>1. job[j].left \in 0..Attempts /\ job[j].stalls \in 0..MaxStalls BY DEF JobRecord
  <2>2. job[j].left > 1 => Retry(j) \in JobRecord
    <3>1. job[j].left > 1 => job[j].left - 1 \in 0..Attempts BY <2>1, CostAssumption
    <3> QED BY <3>1, <2>1, PlainRecords DEF Retry
  <2>3. job[j].stalls < MaxStalls =>
          JobIn("waiting", {}, job[j].left, job[j].stalls + 1) \in JobRecord
    <3>1. job[j].stalls < MaxStalls => job[j].stalls + 1 \in 0..MaxStalls
      BY <2>1, CostAssumption
    <3> QED BY <3>1, <2>1, PlainRecords
  <2>4. job' \in [Job -> JobRecord]
    BY <2>2, <2>3, <1>16, PlainRecords DEF RecalcFails, JobStalls
  <2>5. gap' \subseteq GapKind BY <1>16 DEF RecalcFails, JobStalls, GapKind
  <2> QED BY <2>4, <2>5, <1>16 DEF RecalcFails, JobStalls
<1>17. ASSUME NEW s \in Sync, SyncBegin(s) \/ SyncFails(s) PROVE TypeInv'
  <2>1. CASE SyncBegin(s)
    <3>1. PICK batch \in SUBSET Entry \ {{}} : \E said \in [batch -> Edition] :
            sync' = [sync EXCEPT ![s] = SyncOf({Fetched(e, said[e]) : e \in batch})]
      BY <2>1 DEF SyncBegin
    <3>2. PICK said \in [batch -> Edition] :
            sync' = [sync EXCEPT ![s] = SyncOf({Fetched(e, said[e]) : e \in batch})]
      BY <3>1
    <3>3. {Fetched(e, said[e]) : e \in batch} \in SUBSET Listing BY ListingTypes
    <3>4. sync' \in [Sync -> SyncRecord] BY <3>2, <3>3, PlainRecords
    <3> QED BY <3>4, <2>1 DEF SyncBegin
  <2>2. CASE SyncFails(s)
    <3>1. sync' \in [Sync -> SyncRecord] BY <2>2, PlainRecords DEF SyncFails
    <3> QED BY <3>1, <2>2 DEF SyncFails
  <2> QED BY <1>17, <2>1, <2>2
<1>18. ASSUME NEW s \in Sync, SyncPrice(s) PROVE TypeInv'
  <2>1. PICK row \in sync[s].todo :
          sync' = [sync EXCEPT ![s] =
                     [todo |-> sync[s].todo \ {row}, cache |-> Filled(sync[s].cache, row.fact),
                      held |-> row.entry, fact |-> row.fact,
                      price |-> Calculate(sync[s].cache, row.fact)]]
    BY <1>18 DEF SyncPrice
  <2>2. sync[s].todo \in SUBSET Listing /\ sync[s].cache \in Cache BY DEF SyncRecord
  <2>3. row.entry \in Entry /\ row.fact \in Fact BY <2>2 DEF Listing
  <2>4. /\ Calculate(sync[s].cache, row.fact) \in Price
        /\ Filled(sync[s].cache, row.fact) \in Cache
    BY <2>2, <2>3, CalculateType
  <2>5. [todo |-> sync[s].todo \ {row}, cache |-> Filled(sync[s].cache, row.fact),
         held |-> row.entry, fact |-> row.fact,
         price |-> Calculate(sync[s].cache, row.fact)] \in SyncRecord
    BY <2>2, <2>3, <2>4 DEF SyncRecord
  <2>6. sync' \in [Sync -> SyncRecord] BY <2>1, <2>5
  <2> QED BY <2>6, <1>18 DEF SyncPrice
<1>19. ASSUME NEW s \in Sync, SyncWrite(s) PROVE TypeInv'
  <2>0. PICK e \in Entry :
          /\ sync[s].held = e
          /\ stored' = [stored EXCEPT ![e] = sync[s].price]
          /\ fact' = [fact EXCEPT ![e].start = sync[s].fact.start,
                                  ![e].billable = sync[s].fact.billable]
          /\ gap' = gap \cup Late(e)'
    BY <1>19 DEF SyncWrite
  <2>1. sync[s] \in SyncRecord OBVIOUS
  <2>2. [todo |-> sync[s].todo, cache |-> sync[s].cache, held |-> NoEntry, fact |-> NoEntry,
         price |-> Unset] \in SyncRecord
    BY <2>1, PlainRecords DEF SyncRecord
  <2>3. sync' \in [Sync -> SyncRecord] BY <2>2, <1>19, PlainRecords DEF SyncWrite
  <2>4. stored' \in [Entry -> Price] BY <2>0, <2>1 DEF SyncRecord
  <2>5. gap' \subseteq GapKind BY <2>0 DEF Late, GapKind
  <2>6. fact' \in [Entry -> Fact]
    <3>1. sync[s].fact \in Fact BY <2>0, <2>1, CostAssumption DEF SyncRecord
    <3>2. fact'[e] = [fact[e] EXCEPT !.start = sync[s].fact.start,
                                     !.billable = sync[s].fact.billable]
      BY <2>0
    <3>3. fact'[e] \in Fact BY <3>1, <3>2 DEF Fact
    <3> QED BY <2>0, <3>3
  <2> QED BY <2>3, <2>4, <2>5, <2>6, <1>19 DEF SyncWrite
<1>22. ASSUME NEW e \in Entry, DueMoves(e) PROVE TypeInv'
  <2>1. PICK due \in DueDay : fact' = [fact EXCEPT ![e].due = due] BY <1>22 DEF DueMoves
  <2>2. fact'[e] = [fact[e] EXCEPT !.due = due] BY <2>1
  <2>3. fact'[e] \in Fact BY <2>2, CostAssumption DEF Fact
  <2>4. fact' \in [Entry -> Fact] BY <2>1, <2>3
  <2>5. gap' \subseteq GapKind BY <1>22 DEF DueMoves, GapKind
  <2> QED BY <2>4, <2>5, <1>22, <1>e DEF DueMoves
<1>20. ASSUME NEW e \in Entry, RowVanishes(e) PROVE TypeInv'
  <2>1. stored' \in [Entry -> Price] BY <1>20, PlainRecords DEF RowVanishes
  <2> QED BY <2>1, <1>20 DEF RowVanishes
<1>21. CASE UNCHANGED vars BY <1>21 DEF vars
<1> QED
  BY <1>1, <1>2, <1>3, <1>4, <1>5, <1>6, <1>7, <1>8, <1>9, <1>10, <1>11, <1>12, <1>13,
     <1>14, <1>15, <1>16, <1>17, <1>18, <1>19, <1>20, <1>21, <1>22 DEF Next

LEMMA TypeInvariant == Spec => []TypeInv
<1> QED BY TypeInit, TypeStep, PTL DEF Spec

(* Type correctness: no counter, set or record leaves its range, with any  *)
(* number of requests, syncs and recalculations.                           *)
THEOREM TypeCorrect == Spec => []TypeOK
<1>1. TypeInv => TypeOK BY DEF TypeInv
<1> QED BY <1>1, TypeInvariant, PTL

(* In every reachable table, every new rate the planner accepts succeeds   *)
(* the earlier ones exactly.                                               *)
THEOREM PlansAreExact == Spec => []PlanExact
<1>1. TypeInv => PlanExact
  <2> SUFFICES ASSUME TypeInv, NEW new \in Rate, NEW from \in Day,
                      NEW to \in Day \cup {Forever}, NEW cents \in Cents,
                      rate[new].state = "unused", from <= to, PlanOk(rate, from, to)
               PROVE  SuccessionExact(rate, new, from, to, cents)
    BY DEF PlanExact
  <2>1. cents \in Nat BY RateAssumption
  <2>2. rate \in [Rate -> Row] /\ Exclusive(rate) BY DEF TypeInv, TypeOK
  <2> QED BY <2>1, <2>2, Succession
<1> QED BY <1>1, TypeInvariant, PTL

-----------------------------------------------------------------------------
(* Stale prices, with one recalculation at work at a time.                 *)

StaleInv == TypeInv /\ StaleIsPending /\ FreshReads /\ OneAtWork

LEMMA SerialWork ==
  ASSUME Workers = 1, IsFiniteSet(Job), NEW j \in Job, Take(j)
  PROVE  \A i \in Job : job[i].phase # "working"
<1> DEFINE working == {i \in Job : job[i].phase = "working"}
<1>1. IsFiniteSet(working) BY FS_Subset
<1>2. Cardinality(working) < 1 /\ Cardinality(working) \in Nat
  BY <1>1, FS_CardinalityType DEF Take
<1>3. Cardinality(working) = 0 BY <1>2
<1>4. working = {} BY <1>1, <1>3, FS_EmptySet
<1> QED BY <1>4

(* A step that leaves a request to notify or a job to wait hides every     *)
(* stale price; so does one that falls into a window.                      *)
LEMMA Covered ==
  ASSUME Elsewhere \/ gap # {}
  PROVE  StaleIsPending /\ FreshReads
BY DEF StaleIsPending, FreshReads, Pending

(* What a calculation gives depends on the rates, the exclusion and two of *)
(* the preferences.                                                        *)
LEMMA Steady ==
  ASSUME UNCHANGED <<rate, excluded, pref.matching, pref.zero>>
  PROVE  /\ \A cache, f : Calculate(cache, f)' = Calculate(cache, f)
         /\ UNCHANGED fact => \A e \in Entry : Current(e)' = Current(e)
<1>1. \A cache, f : Calculate(cache, f)' = Calculate(cache, f)
  BY DEF Calculate, FreeOfCharge, DayAt, Rated
<1>2. ASSUME UNCHANGED fact, NEW e \in Entry PROVE Current(e)' = Current(e)
  BY <1>2 DEF Current, Calculate, FreeOfCharge, DayAt, Rated, Empty
<1> QED BY <1>1, <1>2

(* Recalculations that did not move mean to write what they meant to.      *)
LEMMA Unmoved ==
  ASSUME NEW j \in Job, job'[j] = job[j], NEW e \in Entry, Current(e)' = Current(e),
         UNCHANGED <<rate, excluded, pref.matching, pref.zero>>
  PROVE  /\ WillPrice(j, e) => WillPrice(j, e)'
         /\ WillMisprice(j, e)' => WillMisprice(j, e)
<1>1. \A row \in RowsOf(job[j], e) :
        Calculate(job[j].cache, row.fact)' = Calculate(job[j].cache, row.fact)
  BY DEF Calculate, FreeOfCharge, DayAt, Rated
<1>2. RowsOf(job[j], e)' = RowsOf(job[j], e) BY DEF RowsOf
<1> QED BY <1>1, <1>2 DEF WillPrice, WillMisprice

LEMMA StaleInit == Init => StaleInv
<1> SUFFICES ASSUME Init PROVE StaleInv OBVIOUS
<1>1. \A e \in Entry : stored[e] = Unset BY DEF Init
<1>2. \A j \in Job : job[j].phase = "free" BY DEF Init, FreeJob, JobIn
<1> QED BY <1>1, <1>2, TypeInit DEF StaleInv, StaleIsPending, FreshReads, OneAtWork, WillMisprice

(* A cache answers for a day what the calculation gave that filled it.     *)
LEMMA FilledKeeps ==
  ASSUME TypeInv, NEW cache \in Cache, NEW f \in Fact, NEW g \in Fact
  PROVE  Calculate(Filled(cache, f), g) = Calculate(cache, g)
<1> DEFINE day == DayAt(f)
<1>1. day \in Day /\ DayAt(g) \in Day BY DayType
<1>2. CASE excluded \/ FreeOfCharge(f) BY <1>2 DEF Filled
<1>3. CASE ~excluded /\ FreeOfCharge(g) BY <1>3 DEF Calculate
<1>4. CASE ~excluded /\ ~FreeOfCharge(f) /\ ~FreeOfCharge(g)
  <2>1. Filled(cache, f) = [cache EXCEPT ![day] = Calculate(cache, f)] BY <1>4 DEF Filled
  <2>2. CASE DayAt(g) # day
    <3>1. Filled(cache, f)[DayAt(g)] = cache[DayAt(g)] BY <2>1, <2>2, <1>1 DEF Cache
    <3> QED BY <3>1, <1>4 DEF Calculate
  <2>3. CASE DayAt(g) = day
    <3>1. Filled(cache, f)[day] = Calculate(cache, f) BY <2>1, <1>1 DEF Cache
    <3>2. Calculate(cache, f) = Calculate(cache, g) BY <2>3, <1>4 DEF Calculate
    <3> QED BY <3>1, <3>2, <2>3, <1>4 DEF Calculate
  <2> QED BY <2>2, <2>3
<1> QED BY <1>2, <1>3, <1>4

LEMMA StaleStep ==
  ASSUME Workers = 1, IsFiniteSet(Job), StaleInv, [Next]_vars
  PROVE  StaleInv'
<1>0. TypeInv /\ TypeInv' BY TypeStep DEF StaleInv
<1>t. /\ admin \in [Admin -> AdminRecord] /\ job \in [Job -> JobRecord]
      /\ stored \in [Entry -> Price] /\ sync \in [Sync -> SyncRecord]
      /\ fact \in [Entry -> Fact] /\ pref \in Choice
  BY <1>0 DEF TypeInv, TypeOK
<1>i. StaleIsPending /\ FreshReads /\ OneAtWork BY DEF StaleInv
<1> SUFFICES (StaleIsPending /\ FreshReads)' /\ OneAtWork'
  BY <1>0 DEF StaleInv
<1>c. Elsewhere' \/ gap' # {} => (StaleIsPending /\ FreshReads)'
  BY DEF StaleIsPending, FreshReads, Pending
<1>w. UNCHANGED job => OneAtWork' BY <1>i DEF OneAtWork
(* Nothing moves but requests that have nobody to notify, and syncs.       *)
<1>u. ASSUME UNCHANGED <<rate, excluded, pref.matching, pref.zero, job, gap>>,
             Elsewhere' <=> Elsewhere,
             \A e \in Entry : /\ Current(e)' = Current(e)
                              /\ stored'[e] = stored[e] \/ stored'[e] = Unset
      PROVE  (StaleIsPending /\ FreshReads)' /\ OneAtWork'
  <2>2. \A j \in Job, e \in Entry : /\ WillPrice(j, e) => WillPrice(j, e)'
                                    /\ WillMisprice(j, e)' => WillMisprice(j, e)
    BY <1>u, Unmoved
  <2>3. ASSUME NEW j \in Job, NEW e \in Entry, gap' = {}, ~Elsewhere', WillMisprice(j, e)'
        PROVE  FALSE
    <3>1. gap = {} /\ ~Elsewhere /\ WillMisprice(j, e) BY <2>2, <2>3, <1>u
    <3> QED BY <3>1, <1>i DEF FreshReads
  <2>4. ASSUME NEW e \in Entry, stored'[e] # Unset, stored'[e] # Current(e)', gap' = {}
        PROVE  Pending(e)'
    <3>1. stored[e] # Unset /\ stored[e] # Current(e) /\ gap = {} BY <2>4, <1>u
    <3>2. Pending(e) BY <3>1, <1>i DEF StaleIsPending
    <3>3. CASE Elsewhere BY <3>3, <1>u DEF Pending
    <3>4. CASE \E j \in Job : WillPrice(j, e) BY <3>4, <2>2 DEF Pending
    <3> QED BY <3>2, <3>3, <3>4 DEF Pending
  <2>5. FreshReads' BY <2>3 DEF FreshReads
  <2>6. StaleIsPending' BY <2>4 DEF StaleIsPending
  <2> QED BY <2>5, <2>6, <1>u, <1>w
<1>e. UNCHANGED <<admin, job>> => (Elsewhere' <=> Elsewhere) BY DEF Elsewhere, Notifying
<1>1. ASSUME NEW a \in Admin, CreateRead(a) \/ CreateAborts(a) \/ ExcludeRead(a)
      PROVE  (StaleIsPending /\ FreshReads)' /\ OneAtWork'
  <2>1. UNCHANGED <<rate, excluded, pref, fact, stored, job, gap>>
    BY <1>1 DEF CreateRead, CreateAborts, ExcludeRead
  <2>2. \A b \in Admin : Notifying(b) <=> Notifying(b)'
    BY <1>1, <1>t DEF CreateRead, CreateAborts, ExcludeRead, Notifying, IdleAdmin, AdminRecord
  <2>3. Elsewhere' <=> Elsewhere BY <2>1, <2>2 DEF Elsewhere
  <2>4. \A e \in Entry : Current(e)' = Current(e) BY <2>1, Steady
  <2> QED BY <2>1, <2>3, <2>4, <1>u
<1>2. ASSUME NEW a \in Admin, CreateCommit(a) \/ UpdateRate(a) \/ RemoveRate(a)
      PROVE  (StaleIsPending /\ FreshReads)' /\ OneAtWork'
  <2>1. admin'[a].pc = "notify" /\ UNCHANGED job
    BY <1>2, <1>t DEF CreateCommit, UpdateRate, RemoveRate, At
  <2> QED BY <2>1, <1>c, <1>w DEF Elsewhere, Notifying
<1>3. ASSUME NEW a \in Admin, ExcludeWrite(a)
      PROVE  (StaleIsPending /\ FreshReads)' /\ OneAtWork'
  <2>0. UNCHANGED <<rate, pref, fact, stored, job>> BY <1>3 DEF ExcludeWrite
  <2>1. CASE admin[a].prev # admin[a].next
    <3>1. admin'[a].pc = "notify_excluded" BY <2>1, <1>3, <1>t DEF ExcludeWrite, At
    <3> QED BY <3>1, <2>0, <1>c, <1>w DEF Elsewhere, Notifying
  <2>2. CASE admin[a].prev = admin[a].next /\ excluded # admin[a].next
    <3>1. gap' # {} BY <2>2, <1>3 DEF ExcludeWrite
    <3> QED BY <3>1, <2>0, <1>c, <1>w
  <2>3. CASE admin[a].prev = admin[a].next /\ excluded = admin[a].next
    <3>1. UNCHANGED <<excluded, gap>> BY <2>3, <1>3 DEF ExcludeWrite
    <3>2. \A b \in Admin : Notifying(b) <=> Notifying(b)'
      BY <2>3, <1>3, <1>t DEF ExcludeWrite, Notifying, IdleAdmin
    <3>3. Elsewhere' <=> Elsewhere BY <2>0, <3>2 DEF Elsewhere
    <3>4. \A e \in Entry : Current(e)' = Current(e) BY <2>0, <3>1, Steady
    <3> QED BY <2>0, <3>1, <3>3, <3>4, <1>u
  <2> QED BY <2>1, <2>2, <2>3
<1>4. ASSUME Enqueue PROVE (StaleIsPending /\ FreshReads)' /\ OneAtWork'
  <2>1. PICK j \in Job : /\ job[j].phase = "free"
                         /\ job' = [job EXCEPT ![j] = JobIn("waiting", {}, Attempts, 0)]
    BY <1>4 DEF Enqueue
  <2>2. job'[j].phase = "waiting" BY <2>1, <1>t DEF JobIn
  <2>3. OneAtWork' BY <2>1, <2>2, <1>i, <1>t DEF OneAtWork
  <2> QED BY <2>2, <2>3, <1>c DEF Elsewhere
<1>5. ASSUME NEW a \in Admin, NotifySkipped(a) \/ NotifyFails(a)
      PROVE  (StaleIsPending /\ FreshReads)' /\ OneAtWork'
  <2>1. gap' # {} /\ UNCHANGED job BY <1>5 DEF NotifySkipped, NotifyFails
  <2> QED BY <2>1, <1>c, <1>w
<1>6. ASSUME UNCHANGED <<rate, excluded, pref, fact, stored, admin, job, gap>>
      PROVE  (StaleIsPending /\ FreshReads)' /\ OneAtWork'
  <2>1. \A e \in Entry : Current(e)' = Current(e) BY <1>6, Steady
  <2> QED BY <2>1, <1>6, <1>u, <1>e
<1>7. ASSUME NEW j \in Job, Take(j)
      PROVE  (StaleIsPending /\ FreshReads)' /\ OneAtWork'
  <2>1. \A i \in Job : job[i].phase # "working" BY <1>7, SerialWork
  <2>2. UNCHANGED <<rate, excluded, pref, fact, stored, admin, gap>> BY <1>7 DEF Take
  <2>3. /\ job'[j].phase = "working" /\ job'[j].cache = Empty /\ job'[j].held = NoEntry
        /\ job'[j].todo = TableRows
        /\ \A i \in Job \ {j} : job'[i] = job[i]
    BY <1>7, <1>t DEF Take, JobIn
  <2>4. OneAtWork' BY <2>1, <2>3 DEF OneAtWork
  <2>5. /\ \A e \in Entry : Current(e)' = Current(e)
        /\ \A cache, f : Calculate(cache, f)' = Calculate(cache, f)
    BY <2>2, Steady
  <2>6. ASSUME NEW e \in Entry, stored'[e] # Unset PROVE WillPrice(j, e)'
    <3>0. [entry |-> e, fact |-> fact[e]] \in TableRows BY <2>2, <2>6 DEF TableRows
    <3>1. PICK row \in TableRows : row.entry = e /\ row.fact = fact[e] BY <3>0
    <3>2. row \in RowsOf(job'[j], e) BY <3>1, <2>3 DEF RowsOf
    <3>3. Calculate(Empty, row.fact) = Current(e) BY <3>1 DEF Current
    <3>4. Calculate(job[j].cache, row.fact)' = Current(e)' BY <3>3, <2>3, <2>5
    <3> QED BY <3>2, <3>4, <2>3 DEF WillPrice, RowsOf
  <2>7. StaleIsPending' BY <2>6 DEF StaleIsPending, Pending
  <2>8. ASSUME NEW i \in Job, NEW e \in Entry, WillMisprice(i, e)' PROVE FALSE
    <3>1. i = j BY <2>1, <2>3, <2>8 DEF WillMisprice
    <3>2. PICK row \in RowsOf(job'[j], e) : Calculate(job[j].cache, row.fact)' # Current(e)'
      BY <3>1, <2>3, <2>8, CostAssumption DEF WillMisprice, RowsOf
    <3>3. row \in TableRows /\ row.entry = e BY <3>2, <2>3 DEF RowsOf
    <3>4. row.fact = fact[e] BY <3>3 DEF TableRows
    <3>5. Calculate(Empty, row.fact) = Current(e) BY <3>4 DEF Current
    <3> QED BY <3>2, <3>5, <2>3, <2>5
  <2>9. FreshReads' BY <2>8 DEF FreshReads
  <2> QED BY <2>4, <2>7, <2>9
<1>8. ASSUME NEW j \in Job, RecalcPrice(j)
      PROVE  (StaleIsPending /\ FreshReads)' /\ OneAtWork'
  <2>1. PICK row \in job[j].todo :
          job' = [job EXCEPT ![j] =
                    [phase |-> "working", todo |-> job[j].todo \ {row},
                     cache |-> Filled(job[j].cache, row.fact), held |-> row.entry,
                     price |-> Calculate(job[j].cache, row.fact),
                     left |-> job[j].left, stalls |-> job[j].stalls]]
    BY <1>8 DEF RecalcPrice
  <2>2. /\ UNCHANGED <<rate, excluded, pref, fact, stored, admin, gap>>
        /\ job[j].phase = "working" /\ job[j].held = NoEntry
    BY <1>8 DEF RecalcPrice
  <2>3. /\ job'[j].phase = "working" /\ job'[j].todo = job[j].todo \ {row}
        /\ job'[j].cache = Filled(job[j].cache, row.fact) /\ job'[j].held = row.entry
        /\ job'[j].price = Calculate(job[j].cache, row.fact)
        /\ \A i \in Job \ {j} : job'[i] = job[i]
    BY <2>1, <1>t
  <2>4. /\ job[j].todo \subseteq Listing /\ job[j].cache \in Cache
    BY <1>t DEF JobRecord
  <2>5. \A other \in job[j].todo : other.entry \in Entry /\ other.fact \in Fact
    BY <2>4 DEF Listing
  <2>6. /\ \A e \in Entry : Current(e)' = Current(e)
        /\ \A cache, f : Calculate(cache, f)' = Calculate(cache, f)
    BY <2>2, Steady
  <2>7. \A other \in job[j].todo :
          Calculate(job[j].cache, other.fact)' = Calculate(job[j].cache, other.fact)
    <3> SUFFICES ASSUME NEW other \in job[j].todo
                 PROVE  Calculate(job[j].cache, other.fact)' = Calculate(job[j].cache, other.fact)
      OBVIOUS
    <3>1. Calculate(job[j].cache, other.fact)'
            = Calculate(Filled(job[j].cache, row.fact), other.fact)
      BY <2>3, <2>6
    <3> QED BY <3>1, <2>4, <2>5, <1>0, FilledKeeps
  <2>8. OneAtWork' BY <2>2, <2>3, <1>i DEF OneAtWork
  <2>9. ASSUME NEW e \in Entry, WillPrice(j, e) PROVE WillPrice(j, e)'
    <3>1. PICK other \in RowsOf(job[j], e) : Calculate(job[j].cache, other.fact) = Current(e)
      BY <2>2, <2>9, CostAssumption DEF WillPrice
    <3>2. other \in job[j].todo /\ other.entry = e BY <3>1 DEF RowsOf
    <3>3. CASE other = row BY <3>1, <3>2, <3>3, <2>3, <2>6 DEF WillPrice
    <3>4. CASE other # row
      <4>1. other \in RowsOf(job'[j], e) BY <3>2, <3>4, <2>3 DEF RowsOf
      <4>2. Calculate(job[j].cache, other.fact)' = Current(e)' BY <3>1, <3>2, <2>6, <2>7
      <4> QED BY <4>1, <4>2, <2>3 DEF WillPrice, RowsOf
    <3> QED BY <3>3, <3>4
  <2>10. ASSUME NEW e \in Entry, WillMisprice(j, e)' PROVE WillMisprice(j, e)
    <3>1. CASE \E other \in RowsOf(job'[j], e) :
                 Calculate(job[j].cache, other.fact)' # Current(e)'
      <4>1. PICK other \in RowsOf(job'[j], e) :
              Calculate(job[j].cache, other.fact)' # Current(e)'
        BY <3>1
      <4>2. other \in job[j].todo /\ other.entry = e BY <4>1, <2>3 DEF RowsOf
      <4>3. Calculate(job[j].cache, other.fact) # Current(e) BY <4>1, <4>2, <2>6, <2>7
      <4>4. other \in RowsOf(job[j], e) BY <4>2 DEF RowsOf
      <4> QED BY <4>3, <4>4, <2>2 DEF WillMisprice
    <3>2. CASE job'[j].held = e /\ job'[j].price # Current(e)'
      <4>1. row \in RowsOf(job[j], e) BY <3>2, <2>3 DEF RowsOf
      <4>2. Calculate(job[j].cache, row.fact) # Current(e) BY <3>2, <2>3, <2>6
      <4> QED BY <4>1, <4>2, <2>2 DEF WillMisprice
    <3> QED BY <3>1, <3>2, <2>10 DEF WillMisprice, RowsOf
  <2>11. \A i \in Job \ {j}, e \in Entry : /\ WillPrice(i, e) => WillPrice(i, e)'
                                           /\ WillMisprice(i, e)' => WillMisprice(i, e)
    BY <2>2, <2>3, <2>6, Unmoved
  <2>12. Elsewhere' <=> Elsewhere BY <2>2, <2>3 DEF Elsewhere, Notifying
  <2>13. ASSUME NEW e \in Entry, stored'[e] # Unset, stored'[e] # Current(e)', gap' = {}
         PROVE  Pending(e)'
    <3>1. stored[e] # Unset /\ stored[e] # Current(e) /\ gap = {} BY <2>13, <2>2, <2>6
    <3>2. Pending(e) BY <3>1, <1>i DEF StaleIsPending
    <3>3. CASE Elsewhere BY <3>3, <2>12 DEF Pending
    <3>4. CASE \E i \in Job : WillPrice(i, e)
      <4>1. PICK i \in Job : WillPrice(i, e) BY <3>4
      <4>2. WillPrice(i, e)' BY <4>1, <2>9, <2>11
      <4> QED BY <4>2 DEF Pending
    <3> QED BY <3>2, <3>3, <3>4 DEF Pending
  <2>14. ASSUME NEW i \in Job, NEW e \in Entry, gap' = {}, ~Elsewhere', WillMisprice(i, e)'
         PROVE  FALSE
    <3>1. gap = {} /\ ~Elsewhere BY <2>14, <2>2, <2>12
    <3>2. WillMisprice(i, e) BY <2>10, <2>11, <2>14
    <3> QED BY <3>1, <3>2, <1>i DEF FreshReads
  <2>15. FreshReads' BY <2>14 DEF FreshReads
  <2>16. StaleIsPending' BY <2>13 DEF StaleIsPending
  <2> QED BY <2>8, <2>15, <2>16
<1>9. ASSUME NEW j \in Job, RecalcWrite(j)
      PROVE  (StaleIsPending /\ FreshReads)' /\ OneAtWork'
  <2>1. /\ UNCHANGED <<rate, excluded, pref, fact, admin, gap>>
        /\ job[j].phase = "working" /\ job[j].held # NoEntry
        /\ stored' = [stored EXCEPT ![job[j].held] = job[j].price]
    BY <1>9 DEF RecalcWrite
  <2>2. /\ job'[j].phase = "working" /\ job'[j].todo = job[j].todo
        /\ job'[j].cache = job[j].cache /\ job'[j].held = NoEntry
        /\ \A i \in Job \ {j} : job'[i] = job[i]
    BY <1>9, <1>t DEF RecalcWrite, JobRecord
  <2>3. job[j].held \in Entry BY <2>1, <1>t DEF JobRecord
  <2>4. /\ \A e \in Entry : Current(e)' = Current(e)
        /\ \A cache, f : Calculate(cache, f)' = Calculate(cache, f)
    BY <2>1, Steady
  <2>5. OneAtWork' BY <2>1, <2>2, <1>i DEF OneAtWork
  <2>6. Elsewhere' <=> Elsewhere BY <2>1, <2>2 DEF Elsewhere, Notifying
  <2>7. ASSUME NEW e \in Entry
        PROVE  /\ RowsOf(job'[j], e) = RowsOf(job[j], e)
               /\ \A row \in RowsOf(job[j], e) :
                    Calculate(job[j].cache, row.fact)' = Calculate(job[j].cache, row.fact)
    BY <2>2, <2>4 DEF RowsOf
  <2>8. \A i \in Job \ {j}, e \in Entry : /\ WillPrice(i, e) => WillPrice(i, e)'
                                          /\ WillMisprice(i, e)' => WillMisprice(i, e)
    BY <2>1, <2>2, <2>4, Unmoved
  <2>9. CASE Elsewhere \/ gap # {} BY <2>1, <2>5, <2>6, <2>9, <1>c
  <2>10. CASE ~Elsewhere /\ gap = {}
    <3>1. job[j].price = Current(job[j].held)
      BY <2>1, <2>3, <2>10, <1>i DEF FreshReads, WillMisprice
    <3>2. ASSUME NEW e \in Entry, WillMisprice(j, e)' PROVE WillMisprice(j, e)
      <4>1. PICK row \in RowsOf(job'[j], e) : Calculate(job[j].cache, row.fact)' # Current(e)'
        BY <3>2, <2>2, CostAssumption DEF WillMisprice, RowsOf
      <4>2. row \in RowsOf(job[j], e) /\ Calculate(job[j].cache, row.fact) # Current(e)
        BY <4>1, <2>4, <2>7
      <4> QED BY <4>2, <2>1 DEF WillMisprice
    <3>3. FreshReads'
      <4>1. ASSUME NEW i \in Job, NEW e \in Entry, WillMisprice(i, e)' PROVE FALSE
        <5>1. WillMisprice(i, e) BY <3>2, <2>8, <4>1
        <5> QED BY <5>1, <2>10, <1>i DEF FreshReads
      <4> QED BY <4>1 DEF FreshReads
    <3>4. ASSUME NEW e \in Entry, stored'[e] # Unset, stored'[e] # Current(e)'
          PROVE  \E i \in Job : WillPrice(i, e)'
      <4>1. e # job[j].held BY <3>1, <3>4, <2>1, <2>3, <2>4, <1>t
      <4>2. stored'[e] = stored[e] BY <4>1, <2>1, <2>3, <1>t
      <4>3. Pending(e) BY <4>2, <3>4, <2>4, <2>10, <1>i DEF StaleIsPending
      <4>4. PICK i \in Job : WillPrice(i, e)
        <5>1. Elsewhere \/ \E i \in Job : WillPrice(i, e) BY <4>3 DEF Pending
        <5> QED BY <5>1, <2>10
      <4>5. CASE i # j BY <4>4, <4>5, <2>8
      <4>6. CASE i = j
        <5>1. PICK row \in RowsOf(job[j], e) : Calculate(job[j].cache, row.fact) = Current(e)
          BY <4>1, <4>4, <4>6 DEF WillPrice
        <5>2. row \in RowsOf(job'[j], e) /\ Calculate(job[j].cache, row.fact)' = Current(e)'
          BY <5>1, <2>4, <2>7
        <5> QED BY <5>2, <2>2 DEF WillPrice, RowsOf
      <4> QED BY <4>5, <4>6
    <3>5. StaleIsPending' BY <3>4 DEF StaleIsPending, Pending
    <3> QED BY <3>3, <3>5, <2>5
  <2> QED BY <2>9, <2>10
<1>10. ASSUME NEW j \in Job, RecalcDone(j)
       PROVE  (StaleIsPending /\ FreshReads)' /\ OneAtWork'
  <2>1. /\ UNCHANGED <<rate, excluded, pref, fact, stored, admin, gap>>
        /\ job[j].phase = "working" /\ job[j].held = NoEntry /\ job[j].todo = {}
    BY <1>10 DEF RecalcDone
  <2>2. job'[j].phase = "free" /\ \A i \in Job \ {j} : job'[i] = job[i]
    BY <1>10, <1>t DEF RecalcDone, FreeJob, JobIn
  <2>3. \A i \in Job : job'[i].phase # "working" BY <2>1, <2>2, <1>i DEF OneAtWork
  <2>4. \A e \in Entry : Current(e)' = Current(e) BY <2>1, Steady
  <2>5. \A i \in Job, e \in Entry : ~WillPrice(i, e)
    BY <2>1, <1>i, CostAssumption DEF WillPrice, OneAtWork, RowsOf
  <2>6. Elsewhere' <=> Elsewhere BY <2>1, <2>2 DEF Elsewhere, Notifying
  <2>7. StaleIsPending' BY <2>1, <2>4, <2>5, <2>6, <1>i DEF StaleIsPending, Pending
  <2> QED BY <2>3, <2>7 DEF FreshReads, OneAtWork, WillMisprice
<1>11. ASSUME NEW j \in Job, RecalcFails(j) \/ JobStalls(j)
       PROVE  (StaleIsPending /\ FreshReads)' /\ OneAtWork'
  <2>1. /\ \A i \in Job \ {j} : job'[i] = job[i]
        /\ \/ job'[j].phase = "waiting"
           \/ job'[j].phase = "free" /\ gap' # {}
    BY <1>11, <1>t DEF RecalcFails, JobStalls, Retry, FreeJob, JobIn
  <2>2. OneAtWork' BY <2>1, <1>i DEF OneAtWork
  <2> QED BY <2>1, <2>2, <1>c DEF Elsewhere
<1>12. ASSUME NEW s \in Sync, SyncWrite(s)
       PROVE  (StaleIsPending /\ FreshReads)' /\ OneAtWork'
  <2>1. PICK e \in Entry :
          /\ UNCHANGED <<rate, excluded, pref, admin, job>>
          /\ stored' = [stored EXCEPT ![e] = sync[s].price]
          /\ fact' = [fact EXCEPT ![e].start = sync[s].fact.start,
                                  ![e].billable = sync[s].fact.billable]
          /\ gap' = gap \cup Late(e)'
    BY <1>12 DEF SyncWrite
  <2>2. CASE gap' # {} \/ Elsewhere' BY <2>1, <2>2, <1>c, <1>w
  <2>3. CASE gap' = {} /\ ~Elsewhere'
    <3>1. gap = {} /\ Late(e)' = {} BY <2>1, <2>3
    <3>2. /\ stored'[e] # Current(e)' => Pending(e)'
          /\ \A j \in Job : ~WillMisprice(j, e)'
      BY <3>1, <2>3 DEF Late
    <3>4. ASSUME NEW f \in Entry \ {e}
          PROVE  stored'[f] = stored[f] /\ Current(f)' = Current(f)
      <4>1. stored'[f] = stored[f] /\ fact'[f] = fact[f] BY <2>1, <1>t
      <4>2. Calculate(Empty, fact[f])' = Calculate(Empty, fact[f])
        BY <4>1, <2>1 DEF Calculate, FreeOfCharge, DayAt, Rated, Empty
      <4> QED BY <4>1, <4>2 DEF Current
    <3>5. \A f \in Entry \ {e}, j \in Job : /\ WillPrice(j, f) => WillPrice(j, f)'
                                            /\ WillMisprice(j, f)' => WillMisprice(j, f)
      BY <3>4, <2>1, Unmoved
    <3>6. Elsewhere' <=> Elsewhere BY <2>1, <1>e
    <3>7. \A f \in Entry \ {e} : stored'[f] # Unset /\ stored'[f] # Current(f)' => Pending(f)'
      <4> SUFFICES ASSUME NEW f \in Entry \ {e}, stored'[f] # Unset, stored'[f] # Current(f)'
                   PROVE  Pending(f)'
        OBVIOUS
      <4>1. Pending(f) BY <3>1, <3>4, <1>i DEF StaleIsPending
      <4>2. ~Elsewhere BY <2>3, <3>6
      <4>3. PICK j \in Job : WillPrice(j, f)
        <5>1. Elsewhere \/ \E j \in Job : WillPrice(j, f) BY <4>1 DEF Pending
        <5> QED BY <5>1, <4>2
      <4>4. WillPrice(j, f)' BY <4>3, <3>5
      <4> QED BY <4>4 DEF Pending
    <3>8. StaleIsPending' BY <3>2, <3>7 DEF StaleIsPending
    <3>9. ASSUME NEW f \in Entry \ {e}, NEW j \in Job, WillMisprice(j, f)' PROVE FALSE
      <4>1. WillMisprice(j, f) BY <3>5, <3>9
      <4>2. gap = {} /\ ~Elsewhere BY <2>3, <3>1, <3>6
      <4> QED BY <4>1, <4>2, <1>i DEF FreshReads
    <3>10. FreshReads' BY <3>2, <3>9 DEF FreshReads
    <3> QED BY <3>8, <3>10, <2>1, <1>w
  <2> QED BY <2>2, <2>3
<1>13. ASSUME NEW e \in Entry, RowVanishes(e)
       PROVE  (StaleIsPending /\ FreshReads)' /\ OneAtWork'
  <2>1. /\ UNCHANGED <<rate, excluded, pref, fact, admin, job, gap>>
        /\ stored' = [stored EXCEPT ![e] = Unset]
    BY <1>13 DEF RowVanishes
  <2>2. \A f \in Entry : Current(f)' = Current(f) BY <2>1, Steady
  <2>3. \A f \in Entry : stored'[f] = stored[f] \/ stored'[f] = Unset BY <2>1, <1>t
  <2> QED BY <2>1, <2>2, <2>3, <1>e, <1>u
<1>14. ASSUME NEW s \in Sync, SyncBegin(s) \/ SyncPrice(s) \/ SyncFails(s)
       PROVE  UNCHANGED <<rate, excluded, pref, fact, stored, admin, job, gap>>
  BY <1>14 DEF SyncBegin, SyncPrice, SyncFails
<1>15. UNCHANGED vars => UNCHANGED <<rate, excluded, pref, fact, stored, admin, job, gap>>
  BY DEF vars
<1>16. ASSUME NEW a \in Admin, Notify(a) PROVE Enqueue BY <1>16 DEF Notify
<1>17. RecalculateCosts => Enqueue BY DEF RecalculateCosts
<1>18. ASSUME NEW a \in Admin, PatchPreferences(a)
       PROVE  (StaleIsPending /\ FreshReads)' /\ OneAtWork'
  <2>1. UNCHANGED <<rate, fact, stored, admin, job>> BY <1>18 DEF PatchPreferences
  <2>2. CASE gap' # {} BY <2>1, <2>2, <1>c, <1>w
  <2>3. CASE gap' = {}
    <3>1. <<pref'.matching, pref'.zero, excluded'>> = <<pref.matching, pref.zero, excluded>>
          /\ gap' = gap
      BY <2>3, <1>18 DEF PatchPreferences
    <3>2. UNCHANGED <<excluded, pref.matching, pref.zero, gap>> BY <3>1
    <3>3. \A e \in Entry : Current(e)' = Current(e) BY <3>2, <2>1, Steady
    <3> QED BY <3>2, <3>3, <2>1, <1>e, <1>u
  <2> QED BY <2>2, <2>3
<1>19. ASSUME NEW e \in Entry, DueMoves(e)
       PROVE  (StaleIsPending /\ FreshReads)' /\ OneAtWork'
  <2>1. /\ UNCHANGED <<rate, excluded, pref, stored, admin, job>>
        /\ \E due \in DueDay : fact' = [fact EXCEPT ![e].due = due]
    BY <1>19 DEF DueMoves
  <2>2. CASE pref.matching = "due"
    <3>1. gap' # {} BY <2>2, <1>19 DEF DueMoves
    <3> QED BY <3>1, <2>1, <1>c, <1>w
  <2>3. CASE pref.matching # "due"
    <3>1. gap' = gap BY <2>3, <1>19 DEF DueMoves
    <3>2. ASSUME NEW f \in Entry PROVE Current(f)' = Current(f)
      <4>1. fact'[f].start = fact[f].start /\ fact'[f].billable = fact[f].billable
        BY <2>1, <1>t DEF Fact
      <4>2. Calculate(Empty, fact[f])' = Calculate(Empty, fact[f])
        BY <4>1, <2>1, <2>3 DEF Calculate, FreeOfCharge, DayAt, Rated, Empty
      <4> QED BY <4>2 DEF Current
    <3> QED BY <3>1, <3>2, <2>1, <1>e, <1>u
  <2> QED BY <2>2, <2>3
<1> QED
  BY <1>1, <1>2, <1>3, <1>4, <1>5, <1>6, <1>7, <1>8, <1>9, <1>10, <1>11, <1>12, <1>13,
     <1>14, <1>15, <1>16, <1>17, <1>18, <1>19 DEF Next

(* A stale price is always on somebody's list, or in a named window, with  *)
(* any number of requests, syncs, rates and entries, as long as one        *)
(* recalculation is at work at a time.                                     *)
THEOREM StalePending ==
  ASSUME Workers = 1, IsFiniteSet(Job)
  PROVE  Spec => []StaleIsPending
<1>1. StaleInv /\ [Next]_vars => StaleInv' BY StaleStep
<1>2. StaleInv => StaleIsPending BY DEF StaleInv
<1> QED BY <1>1, <1>2, StaleInit, PTL DEF Spec

-----------------------------------------------------------------------------
(* The price list (PriceBook).                                             *)

RateCost(row) == [status |-> "rated", cents |-> row.cents]

(* What a day costs: what the one rate that covers it costs, or nothing.   *)
LEMMA DayCost ==
  ASSUME NEW table \in [Rate -> Row], Exclusive(table), NEW day \in Nat
  PROVE  /\ \A r \in Covering(table, day) : Amount(Rated(table, day)) = RateCost(table[r])
         /\ Covering(table, day) = {} => Amount(Rated(table, day)) = Amount(Missing)
         /\ Covering(table, day) # {} => Amount(Rated(table, day)) # Amount(Missing)
<1>1. ASSUME NEW r \in Covering(table, day)
      PROVE  /\ Amount(Rated(table, day)) = RateCost(table[r])
             /\ Amount(Rated(table, day)) # Amount(Missing)
  <2>1. Resolve(table, day) = r BY ResolveUnique
  <2>2. r # NoRate BY RateAssumption DEF Covering, LiveIn
  <2>3. Rated(table, day) = [status |-> "rated", id |-> r, cents |-> table[r].cents]
    BY <2>1, <2>2 DEF Rated
  <2> QED BY <2>3 DEF Amount, RateCost, Missing
<1>2. ASSUME Covering(table, day) = {} PROVE Amount(Rated(table, day)) = Amount(Missing)
  BY <1>2 DEF Resolve, Rated
<1> QED BY <1>1, <1>2

(* A day that the same row covers in two tables costs the same in both.    *)
LEMMA SameCost ==
  ASSUME NEW table \in [Rate -> Row], Exclusive(table),
         NEW other \in [Rate -> Row], Exclusive(other), NEW day \in Nat,
         NEW r \in Covering(table, day), r \in Covering(other, day),
         table[r].cents = other[r].cents
  PROVE  Amount(Rated(other, day)) = Amount(Rated(table, day))
<1>1. Amount(Rated(table, day)) = RateCost(table[r]) BY DayCost
<1>2. Amount(Rated(other, day)) = RateCost(other[r]) BY DayCost
<1> QED BY <1>1, <1>2 DEF RateCost

(* Days of rates and of requests.                                          *)
RangesOK ==
  /\ \A r \in LiveIn(rate) : rate[r].from \in Day /\ rate[r].to \in Day \cup {Forever}
  /\ \A a \in Admin : admin[a].pc = "commit" =>
       admin[a].from \in Day /\ admin[a].to \in Day \cup {Forever}

RangeInv == TypeInv /\ RangesOK

LEMMA RangeInit == Init => RangeInv
<1> SUFFICES ASSUME Init PROVE RangesOK BY TypeInit DEF RangeInv
<1>1. ASSUME NEW r \in LiveIn(rate)
      PROVE  rate[r].from \in Day /\ rate[r].to \in Day \cup {Forever}
  <2>1. r \in Rate /\ rate[r] \in Rows /\ rate[r].state = "live" BY DEF Init, LiveIn
  <2>2. rate[r] # Unused BY <2>1 DEF Unused
  <2>3. PICK from \in Day, to \in Day \cup {Forever}, cents \in Cents :
          rate[r] = NewRow(from, to, cents)
    BY <2>1, <2>2 DEF Rows
  <2> QED BY <2>3 DEF NewRow
<1>2. \A a \in Admin : admin[a].pc # "commit" BY DEF Init, IdleAdmin
<1> QED BY <1>1, <1>2 DEF RangesOK

LEMMA RangeStep == RangeInv /\ [Next]_vars => RangeInv'
<1> SUFFICES ASSUME RangeInv, [Next]_vars PROVE RangesOK' BY TypeStep DEF RangeInv
<1>t. TypeInv /\ TypeInv' /\ RangesOK BY TypeStep DEF RangeInv
<1>0. /\ rate \in [Rate -> Row] /\ rate' \in [Rate -> Row] /\ Exclusive(rate')
      /\ admin \in [Admin -> AdminRecord]
  BY <1>t DEF TypeInv, TypeOK
<1>d. /\ Day \subseteq Nat /\ Forever \in Nat /\ LastDay \in Nat
      /\ \A n \in Nat : n \in Day <=> 1 <= n /\ n <= LastDay
  BY RateAssumption DEF Day, Forever
<1>p. IdleAdmin.pc # "commit" /\ At("notify").pc # "commit" /\ At("notify_excluded").pc # "commit"
  BY DEF IdleAdmin, At
<1>1. ASSUME UNCHANGED rate, NEW a \in Admin,
             \A b \in Admin \ {a} : admin'[b] = admin[b], admin'[a].pc # "commit"
      PROVE  RangesOK'
  BY <1>1, <1>t DEF RangesOK
<1>2. ASSUME UNCHANGED <<rate, admin>> PROVE RangesOK' BY <1>2, <1>t DEF RangesOK
<1>3. ASSUME NEW a \in Admin, CreateRead(a) PROVE RangesOK'
  <2>1. PICK from \in Day, to \in Day \cup {Forever}, cents \in Cents :
          admin' = [admin EXCEPT ![a] =
                      [pc |-> "commit", caps |-> Caps(rate, from, to), from |-> from,
                       to |-> to, cents |-> cents, prev |-> FALSE, next |-> FALSE]]
    BY <1>3 DEF CreateRead
  <2>2. UNCHANGED rate BY <1>3 DEF CreateRead
  <2>3. /\ admin'[a].from = from /\ admin'[a].to = to
        /\ \A b \in Admin \ {a} : admin'[b] = admin[b]
    BY <2>1, <1>0
  <2> QED BY <2>2, <2>3, <1>t DEF RangesOK
<1>4. ASSUME NEW a \in Admin, CreateCommit(a) PROVE RangesOK'
  <2>1. PICK new \in Rate : CanCommit(a, new) /\ rate' = Committed(a, new)
    BY <1>4 DEF CreateCommit
  <2>2. /\ admin[a].pc = "commit" /\ admin[a].from \in Day /\ admin[a].to \in Day \cup {Forever}
    BY <1>4, <1>t DEF CreateCommit, RangesOK
  <2>3. ASSUME NEW r \in LiveIn(rate')
        PROVE  rate'[r].from \in Day /\ rate'[r].to \in Day \cup {Forever}
    <3>0. r \in Rate /\ rate'[r].state = "live" BY DEF LiveIn
    <3>1. CASE r = new BY <3>0, <3>1, <2>1, <2>2 DEF Committed, Succeed, NewRow
    <3>2. CASE r # new /\ r \in admin[a].caps
      <4>1. rate'[r] = CappedRow(rate[r], admin[a].from)
        BY <3>0, <3>2, <2>1 DEF Committed, Succeed
      <4>2. r \in LiveIn(rate) BY <3>2, <2>1 DEF CanCommit
      <4>3. rate[r].from \in Day BY <4>2, <1>t DEF RangesOK
      <4>4. rate'[r].from <= rate'[r].to BY <1>0 DEF Exclusive
      <4>5. /\ rate'[r].from = rate[r].from /\ rate'[r].to = admin[a].from - 1
        BY <4>1 DEF CappedRow, DayBefore
      <4>6. admin[a].from - 1 \in Day
        <5>1. rate[r].from \in Nat /\ admin[a].from \in Nat BY <4>3, <2>2, <1>d
        <5>2. 1 <= rate[r].from /\ admin[a].from <= LastDay BY <4>3, <2>2, <5>1, <1>d
        <5>3. rate[r].from <= admin[a].from - 1 BY <4>4, <4>5
        <5> QED BY <5>1, <5>2, <5>3, RateAssumption DEF Day
      <4> QED BY <4>3, <4>5, <4>6
    <3>3. CASE r # new /\ r \notin admin[a].caps
      <4>1. rate'[r] = rate[r] BY <3>0, <3>3, <2>1 DEF Committed, Succeed
      <4>2. r \in LiveIn(rate) BY <4>1, <3>0 DEF LiveIn
      <4> QED BY <4>1, <4>2, <1>t DEF RangesOK
    <3> QED BY <3>1, <3>2, <3>3
  <2>4. admin' = [admin EXCEPT ![a] = At("notify")] BY <1>4 DEF CreateCommit
  <2>5. \A b \in Admin : admin'[b].pc = "commit" => admin'[b] = admin[b]
    BY <2>4, <1>0, <1>p
  <2> QED BY <2>3, <2>5, <1>t DEF RangesOK
<1>5. ASSUME NEW a \in Admin, UpdateRate(a) PROVE RangesOK'
  <2>1. PICK r \in LiveIn(rate), from \in Day, to \in Day \cup {Forever}, cents \in Cents :
          rate' = [rate EXCEPT ![r] = NewRow(from, to, cents)]
    BY <1>5 DEF UpdateRate
  <2>2. ASSUME NEW q \in LiveIn(rate')
        PROVE  rate'[q].from \in Day /\ rate'[q].to \in Day \cup {Forever}
    <3>0. q \in Rate /\ rate'[q].state = "live" BY DEF LiveIn
    <3>1. CASE q = r BY <3>0, <3>1, <2>1, <1>0 DEF NewRow
    <3>2. CASE q # r
      <4>1. rate'[q] = rate[q] BY <3>0, <3>2, <2>1, <1>0
      <4>2. q \in LiveIn(rate) BY <4>1, <3>0 DEF LiveIn
      <4> QED BY <4>1, <4>2, <1>t DEF RangesOK
    <3> QED BY <3>1, <3>2
  <2>3. admin' = [admin EXCEPT ![a] = At("notify")] BY <1>5 DEF UpdateRate
  <2>4. \A b \in Admin : admin'[b].pc = "commit" => admin'[b] = admin[b]
    BY <2>3, <1>0, <1>p
  <2> QED BY <2>2, <2>4, <1>t DEF RangesOK
<1>6. ASSUME NEW a \in Admin, RemoveRate(a) PROVE RangesOK'
  <2>1. PICK r \in LiveIn(rate) : rate' = [rate EXCEPT ![r] = Removed]
    BY <1>6 DEF RemoveRate
  <2>2. ASSUME NEW q \in LiveIn(rate') PROVE q \in LiveIn(rate) /\ rate'[q] = rate[q]
    BY <2>1, <1>0 DEF LiveIn, Removed
  <2>3. admin' = [admin EXCEPT ![a] = At("notify")] BY <1>6 DEF RemoveRate
  <2>4. \A b \in Admin : admin'[b].pc = "commit" => admin'[b] = admin[b]
    BY <2>3, <1>0, <1>p
  <2> QED BY <2>2, <2>4, <1>t DEF RangesOK
<1>7. ASSUME NEW a \in Admin,
             CreateAborts(a) \/ ExcludeRead(a) \/ ExcludeWrite(a) \/ Notify(a)
               \/ NotifySkipped(a) \/ NotifyFails(a)
      PROVE  RangesOK'
  <2>1. /\ UNCHANGED rate /\ \A b \in Admin \ {a} : admin'[b] = admin[b]
        /\ admin'[a].pc # "commit"
    BY <1>7, <1>0, <1>p DEF CreateAborts, ExcludeRead, ExcludeWrite, Notify, NotifySkipped,
       NotifyFails
  <2> QED BY <2>1, <1>1
<1>8. ASSUME \/ (\E a \in Admin : PatchPreferences(a)) \/ RecalculateCosts \/ UNCHANGED vars
             \/ \E j \in Job : \/ Take(j) \/ RecalcPrice(j) \/ RecalcWrite(j) \/ RecalcDone(j)
                               \/ RecalcFails(j) \/ JobStalls(j)
             \/ \E s \in Sync : SyncBegin(s) \/ SyncPrice(s) \/ SyncWrite(s) \/ SyncFails(s)
             \/ \E e \in Entry : RowVanishes(e) \/ DueMoves(e)
      PROVE  UNCHANGED <<rate, admin>>
  BY <1>8 DEF vars, PatchPreferences, RecalculateCosts, Take, RecalcPrice, RecalcWrite,
     RecalcDone, RecalcFails, JobStalls, SyncBegin, SyncPrice, SyncWrite, SyncFails,
     RowVanishes, DueMoves
<1> QED BY <1>2, <1>3, <1>4, <1>5, <1>6, <1>7, <1>8 DEF Next

LEMMA RangeInvariant == Spec => []RangeInv
<1> QED BY RangeInit, RangeStep, PTL DEF Spec

(* A run that holds nothing.                                               *)
LEMMA FreshRun ==
  /\ Quotes(FreeJob) = {} /\ Offers(FreeJob) = {}
  /\ Quotes(IdleSync) = {} /\ Offers(IdleSync) = {}
  /\ \A phase, todo, left, stalls : /\ Quotes(JobIn(phase, todo, left, stalls)) = {}
                                    /\ Offers(JobIn(phase, todo, left, stalls)) = {}
  /\ \A batch : Quotes(SyncOf(batch)) = {} /\ Offers(SyncOf(batch)) = {}
<1>1. ASSUME NEW run, run.cache = Empty, run.held = NoEntry
      PROVE  Quotes(run) = {} /\ Offers(run) = {}
  <2>1. \A day \in Day : run.cache[day] = Unset BY <1>1 DEF Empty
  <2> QED BY <2>1, <1>1 DEF Quotes, Offers
<1>2. \A phase, todo, left, stalls : /\ Quotes(JobIn(phase, todo, left, stalls)) = {}
                                     /\ Offers(JobIn(phase, todo, left, stalls)) = {}
  BY <1>1 DEF JobIn
<1>3. \A batch : Quotes(SyncOf(batch)) = {} /\ Offers(SyncOf(batch)) = {} BY <1>1 DEF SyncOf
<1> QED BY <1>2, <1>3 DEF FreeJob, IdleSync

(* What is known of the dates of a row, told run by run.                   *)
Told(e, f) ==
  \/ f = fact[e]
  \/ \E j \in Job : \E row \in job[j].todo : row.entry = e /\ row.fact = f
  \/ \E s \in Sync : \E row \in sync[s].todo : row.entry = e /\ row.fact = f
  \/ \E s \in Sync : sync[s].held = e /\ sync[s].fact = f

LEMMA DatedBy ==
  ASSUME NEW e \in Entry
  PROVE  /\ \A f : f \in FactsOf(e) <=> Told(e, f)
         /\ \A f : f \in FactsOf(e)' <=> Told(e, f)'
         /\ \A day : day \in Dated[e] <=> \E f : Told(e, f) /\ day \in DaysIn(f)
         /\ \A day : day \in Dated'[e] <=> \E f : Told(e, f)' /\ day \in DaysIn(f)
<1>1. \A f : f \in FactsOf(e) <=> Told(e, f) BY DEF FactsOf, Told, RowsOf, Runs
<1>2. \A f : f \in FactsOf(e)' <=> Told(e, f)' BY DEF FactsOf, Told, RowsOf, Runs
<1>3. Dated[e] = UNION {DaysIn(f) : f \in FactsOf(e)} BY DEF Dated
<1>4. Dated'[e] = UNION {DaysIn(f) : f \in FactsOf(e)'} BY DEF Dated
<1>5. \A day : day \in Dated[e] <=> \E f : Told(e, f) /\ day \in DaysIn(f) BY <1>1, <1>3
<1>6. \A day : day \in Dated'[e] <=> \E f : Told(e, f)' /\ day \in DaysIn(f) BY <1>2, <1>4
<1> QED BY <1>1, <1>2, <1>5, <1>6

(* A step after which nothing is known of dates that was not known before. *)
LEMMA Forgets ==
  ASSUME \A e \in Entry : \A f : Told(e, f)' => DaysIn(f) \subseteq Dated[e]
  PROVE  Book!DatesForgotten
<1> SUFFICES ASSUME NEW e \in Entry, NEW day \in Dated'[e] PROVE day \in Dated[e]
  BY DEF Book!DatesForgotten
<1>1. PICK f : Told(e, f)' /\ day \in DaysIn(f) BY DatedBy
<1> QED BY <1>1

(* Dates are days, and the day of a calculation is one of them.            *)
LEMMA FactDays ==
  ASSUME TypeInv, NEW f \in Fact
  PROVE  DaysIn(f) \subseteq Day /\ DayAt(f) \in DaysIn(f)
<1>1. f.start \in Day /\ f.due \in Day \cup {NoDue} BY DEF Fact
<1>2. f.start # NoDue BY <1>1, RateAssumption DEF Day, NoDue
<1> QED BY <1>1, <1>2 DEF DaysIn, DayAt

LEMMA DatedType ==
  ASSUME TypeInv
  PROVE  Dated \in [Entry -> SUBSET Book!Day]
<1>1. Book!Day = Day BY DEF Book!Day, Day
<1>2. ASSUME NEW e \in Entry, NEW f, Told(e, f) PROVE f \in Fact
  <2>1. /\ fact \in [Entry -> Fact] /\ job \in [Job -> JobRecord] /\ sync \in [Sync -> SyncRecord]
    BY DEF TypeInv, TypeOK
  <2>2. \A j \in Job : job[j].todo \subseteq Listing BY <2>1 DEF JobRecord
  <2>3. \A s \in Sync : sync[s].todo \subseteq Listing BY <2>1 DEF SyncRecord
  <2>4. \A s \in Sync : sync[s].held = e => sync[s].fact \in Fact
    BY <2>1, CostAssumption DEF SyncRecord
  <2>5. \A row \in Listing : row.fact \in Fact BY DEF Listing
  <2> QED BY <1>2, <2>1, <2>2, <2>3, <2>4, <2>5 DEF Told
<1>3. ASSUME NEW e \in Entry PROVE Dated[e] \subseteq Day
  <2> SUFFICES ASSUME NEW day \in Dated[e] PROVE day \in Day OBVIOUS
  <2>1. PICK f : Told(e, f) /\ day \in DaysIn(f) BY DatedBy
  <2> QED BY <2>1, <1>2, FactDays
<1>4. Dated = [e \in Entry |-> Dated[e]] BY DEF Dated
<1> QED BY <1>1, <1>3, <1>4

LEMMA DatedTyped == TypeInv' => (Dated \in [Entry -> SUBSET Book!Day])'
<1>1. TypeInv => Dated \in [Entry -> SUBSET Book!Day] BY DatedType
<1> QED BY <1>1, PTL

(* What a run holds after it priced a row: quotes that it held or that are *)
(* on the list, and for the row an answer that the book allows.            *)
ListQuote(quote) == \E day \in Day : quote = <<day, Prices[day]>>
Allowed(offer) == \E e \in Entry : \E p \in Book!Answers(e) : offer = <<e, p>>

LEMMA PricedRun ==
  ASSUME TypeInv, NEW run \in Runs, run.cache \in Cache,
         NEW row \in run.todo, row.entry \in Entry, row.fact \in Fact,
         Told(row.entry, row.fact), NEW after,
         after.cache = Filled(run.cache, row.fact), after.held = row.entry,
         after.price = Calculate(run.cache, row.fact)
  PROVE  /\ \A quote \in Quotes(after) : quote \in Quotes(run) \/ ListQuote(quote)
         /\ \A offer \in Offers(after) : Allowed(offer)
<1> DEFINE e == row.entry
           f == row.fact
           day == DayAt(f)
           p == Calculate(run.cache, f)
<1>1. day \in Day /\ day \in DaysIn(f) BY FactDays
<1>2. day \in Dated[e] BY <1>1, DatedBy
<1>3. Prices[day] = Amount(Rated(rate, day)) BY <1>1 DEF Prices
<1>4. ~excluded /\ ~FreeOfCharge(f) =>
        \/ p = run.cache[day] /\ run.cache[day] # Unset
        \/ p = Rated(rate, day)
  BY DEF Calculate
<1>5. Amount(p) \in Book!Answers(e)
  <2>1. CASE excluded BY <2>1 DEF Calculate, Book!Answers
  <2>2. CASE ~excluded /\ FreeOfCharge(f)
    <3>1. p = Free /\ pref.zero BY <2>2 DEF Calculate, FreeOfCharge
    <3> QED BY <3>1, <2>2 DEF Book!Answers
  <2>3. CASE ~excluded /\ ~FreeOfCharge(f) /\ p = run.cache[day] /\ run.cache[day] # Unset
    <3>1. <<day, Amount(p)>> \in Quoted BY <2>3, <1>1 DEF Quoted, Quotes
    <3>2. PICK quote \in Quoted : quote = <<day, Amount(p)>> BY <3>1
    <3>3. quote[1] = day /\ quote[2] = Amount(p) BY <3>2
    <3>4. quote \in {q \in Quoted : q[1] \in Dated[e]} BY <3>2, <3>3, <1>2
    <3>5. Amount(p) \in {q[2] : q \in {x \in Quoted : x[1] \in Dated[e]}} BY <3>3, <3>4
    <3> HIDE DEF p, e
    <3> QED BY <3>5, <2>3 DEF Book!Answers
  <2>4. CASE ~excluded /\ ~FreeOfCharge(f) /\ p = Rated(rate, day)
    <3>1. Amount(p) \in {Prices[d] : d \in Dated[e]} BY <2>4, <1>2, <1>3
    <3> HIDE DEF p, e
    <3> QED BY <3>1, <2>4 DEF Book!Answers
  <2> QED BY <2>1, <2>2, <2>3, <2>4, <1>4
<1>6. \A offer \in Offers(after) : Allowed(offer)
  <2> HIDE DEF p
  <2>1. \A offer \in Offers(after) : offer = <<e, Amount(p)>> BY DEF Offers, p
  <2> QED BY <2>1, <1>5 DEF Allowed
<1>7. ASSUME NEW d \in Day, after.cache[d] # Unset
      PROVE  \/ run.cache[d] # Unset /\ after.cache[d] = run.cache[d]
             \/ Amount(after.cache[d]) = Prices[d]
  <2>1. CASE excluded \/ FreeOfCharge(f) \/ d # day
    BY <2>1, <1>7, <1>1 DEF Filled, Cache
  <2>2. CASE ~excluded /\ ~FreeOfCharge(f) /\ d = day
    <3>1. after.cache[d] = p BY <2>2, <1>1 DEF Filled, Cache
    <3> HIDE DEF p
    <3> QED BY <3>1, <2>2, <1>3, <1>4
  <2> QED BY <2>1, <2>2
<1>8. ASSUME NEW quote \in Quotes(after) PROVE quote \in Quotes(run) \/ ListQuote(quote)
  <2>1. PICK d \in Day : after.cache[d] # Unset /\ quote = <<d, Amount(after.cache[d])>>
    BY DEF Quotes
  <2>2. CASE run.cache[d] # Unset /\ after.cache[d] = run.cache[d]
    BY <2>1, <2>2 DEF Quotes
  <2>3. CASE Amount(after.cache[d]) = Prices[d] BY <2>1, <2>3 DEF ListQuote
  <2> QED BY <2>1, <2>2, <2>3, <1>7
<1> QED BY <1>6, <1>8

(* The book during steps of the runs.                                      *)
LEMMA RunsRead ==
  ASSUME TypeInv, UNCHANGED <<rate, excluded, pref, stored>>,
         \A quote \in Quoted' \ Quoted : ListQuote(quote),
         \A offer \in Offered' \ Offered : Allowed(offer),
         Book!DatesForgotten
  PROVE  Book!Next
<1>1. Prices' = Prices /\ Shown' = Shown BY DEF Prices, Rated, Shown
<1>2. Book!Day = Day BY DEF Book!Day, Day
<1>3. Book!Read BY <1>1, <1>2 DEF Book!Read, ListQuote, Allowed
<1> QED BY <1>3 DEF Book!Next

(* Steps of one recalculation: the other runs hold what they held.         *)
LEMMA JobReads ==
  ASSUME TypeInv, NEW j \in Job, UNCHANGED <<rate, excluded, pref, fact, stored, sync>>,
         \A i \in Job \ {j} : job'[i] = job[i],
         \A quote \in Quotes(job'[j]) : quote \in Quotes(job[j]) \/ ListQuote(quote),
         \A offer \in Offers(job'[j]) : offer \in Offers(job[j]) \/ Allowed(offer),
         \A row \in job'[j].todo : row \in job[j].todo \/ row \in TableRows
  PROVE  Book!Next
<1>1. ASSUME NEW quote \in Quoted', quote \notin Quoted PROVE ListQuote(quote)
  <2>1. \/ \E i \in Job : quote \in Quotes(job'[i])
        \/ \E s \in Sync : quote \in Quotes(sync'[s])
    BY DEF Quoted, Runs
  <2>2. \A i \in Job : quote \notin Quotes(job[i]) BY <1>1 DEF Quoted, Runs
  <2>3. \A s \in Sync : quote \notin Quotes(sync[s]) BY <1>1 DEF Quoted, Runs
  <2> QED BY <2>1, <2>2, <2>3
<1>2. ASSUME NEW offer \in Offered', offer \notin Offered PROVE Allowed(offer)
  <2>1. \/ \E i \in Job : offer \in Offers(job'[i])
        \/ \E s \in Sync : offer \in Offers(sync'[s])
    BY DEF Offered, Runs
  <2>2. \A i \in Job : offer \notin Offers(job[i]) BY <1>2 DEF Offered, Runs
  <2>3. \A s \in Sync : offer \notin Offers(sync[s]) BY <1>2 DEF Offered, Runs
  <2> QED BY <2>1, <2>2, <2>3
<1>3. ASSUME NEW e \in Entry, NEW f, Told(e, f)' PROVE Told(e, f)
  <2>1. CASE \E i \in Job : \E row \in job'[i].todo : row.entry = e /\ row.fact = f
    <3>1. PICK i \in Job : \E row \in job'[i].todo : row.entry = e /\ row.fact = f BY <2>1
    <3>2. PICK row \in job'[i].todo : row.entry = e /\ row.fact = f BY <3>1
    <3>3. row \in job[i].todo \/ row \in TableRows BY <3>2
    <3>4. row \in TableRows => f = fact[e] BY <3>2 DEF TableRows
    <3> QED BY <3>2, <3>3, <3>4 DEF Told
  <2>2. CASE ~(\E i \in Job : \E row \in job'[i].todo : row.entry = e /\ row.fact = f)
    BY <1>3, <2>2 DEF Told
  <2> QED BY <2>1, <2>2
<1>4. ASSUME NEW e \in Entry, NEW f, Told(e, f)' PROVE DaysIn(f) \subseteq Dated[e]
  <2>1. Told(e, f) BY <1>3, <1>4
  <2> QED BY <2>1, DatedBy
<1>5. Book!DatesForgotten BY <1>4, Forgets
<1> QED BY <1>1, <1>2, <1>5, RunsRead

LEMMA SyncReads ==
  ASSUME TypeInv, NEW s \in Sync, UNCHANGED <<rate, excluded, pref, fact, stored, job>>,
         \A t \in Sync \ {s} : sync'[t] = sync[t],
         \A quote \in Quotes(sync'[s]) : quote \in Quotes(sync[s]) \/ ListQuote(quote),
         \A offer \in Offers(sync'[s]) : offer \in Offers(sync[s]) \/ Allowed(offer),
         sync'[s].todo \subseteq sync[s].todo,
         sync'[s].held \in Entry => \E row \in sync[s].todo : /\ row.entry = sync'[s].held
                                                              /\ row.fact = sync'[s].fact
  PROVE  Book!Next
<1>1. ASSUME NEW quote \in Quoted', quote \notin Quoted PROVE ListQuote(quote)
  <2>1. \/ \E j \in Job : quote \in Quotes(job'[j])
        \/ \E t \in Sync : quote \in Quotes(sync'[t])
    BY DEF Quoted, Runs
  <2>2. \A j \in Job : quote \notin Quotes(job[j]) BY <1>1 DEF Quoted, Runs
  <2>3. \A t \in Sync : quote \notin Quotes(sync[t]) BY <1>1 DEF Quoted, Runs
  <2> QED BY <2>1, <2>2, <2>3
<1>2. ASSUME NEW offer \in Offered', offer \notin Offered PROVE Allowed(offer)
  <2>1. \/ \E j \in Job : offer \in Offers(job'[j])
        \/ \E t \in Sync : offer \in Offers(sync'[t])
    BY DEF Offered, Runs
  <2>2. \A j \in Job : offer \notin Offers(job[j]) BY <1>2 DEF Offered, Runs
  <2>3. \A t \in Sync : offer \notin Offers(sync[t]) BY <1>2 DEF Offered, Runs
  <2> QED BY <2>1, <2>2, <2>3
<1>3. ASSUME NEW e \in Entry, NEW f, Told(e, f)' PROVE Told(e, f)
  <2>1. CASE \E t \in Sync : \E row \in sync'[t].todo : row.entry = e /\ row.fact = f
    <3>1. PICK t \in Sync : \E row \in sync'[t].todo : row.entry = e /\ row.fact = f BY <2>1
    <3>2. PICK row \in sync'[t].todo : row.entry = e /\ row.fact = f BY <3>1
    <3>3. row \in sync[t].todo BY <3>2
    <3> QED BY <3>2, <3>3 DEF Told
  <2>2. CASE \E t \in Sync : sync'[t].held = e /\ sync'[t].fact = f
    <3>1. PICK t \in Sync : sync'[t].held = e /\ sync'[t].fact = f BY <2>2
    <3>2. CASE t = s
      <4>1. PICK row \in sync[s].todo : row.entry = e /\ row.fact = f BY <3>1, <3>2
      <4> QED BY <4>1 DEF Told
    <3>3. CASE t # s BY <3>1, <3>3 DEF Told
    <3> QED BY <3>2, <3>3
  <2>3. CASE f = fact[e] \/ \E j \in Job : \E row \in job[j].todo : row.entry = e /\ row.fact = f
    BY <2>3 DEF Told
  <2> QED BY <1>3, <2>1, <2>2, <2>3 DEF Told
<1>4. ASSUME NEW e \in Entry, NEW f, Told(e, f)' PROVE DaysIn(f) \subseteq Dated[e]
  <2>1. Told(e, f) BY <1>3, <1>4
  <2> QED BY <2>1, DatedBy
<1>5. Book!DatesForgotten BY <1>4, Forgets
<1> QED BY <1>1, <1>2, <1>5, RunsRead

(* Writes of prices: what one run was about to show.                       *)
LEMMA ShowsOffer ==
  ASSUME TypeInv, NEW e \in Entry, NEW p, stored' = [stored EXCEPT ![e] = p],
         <<e, Amount(p)>> \in Offered, Quoted' \subseteq Quoted, Offered' \subseteq Offered,
         UNCHANGED <<rate, excluded, pref>>, Book!DatesForgotten
  PROVE  Book!Next
<1>1. stored \in [Entry -> Price] BY DEF TypeInv, TypeOK
<1>2. Shown'[e] = Amount(p) BY <1>1 DEF Shown
<1>3. \A other \in Entry \ {e} : Shown'[other] = Shown[other] BY <1>1 DEF Shown
<1>4. Prices' = Prices BY DEF Prices, Rated
<1>5. Book!Show(e) BY <1>2, <1>3, <1>4 DEF Book!Show
<1> QED BY <1>5 DEF Book!Next

(* The days a rate covers are one stretch of the list.                     *)
DaysOf(table, r) == {day \in Day : r \in Covering(table, day)}

LEMMA DaysAreStretch ==
  ASSUME NEW table \in [Rate -> Row], NEW r \in LiveIn(table),
         table[r].from \in Day, table[r].to \in Day \cup {Forever}, table[r].from <= table[r].to
  PROVE  DaysOf(table, r) \in Book!Stretch /\ DaysOf(table, r) # {}
<1> DEFINE from == table[r].from
           to   == IF table[r].to = Forever THEN LastDay ELSE table[r].to
<1>1. /\ LastDay \in Nat /\ LastDay >= 1 /\ Day = 1..LastDay /\ Forever = LastDay + 1
      /\ from \in Nat /\ table[r].to \in Nat
  BY RateAssumption DEF Day, Forever
<1>2. from \in Day /\ to \in Day /\ to \in Nat BY <1>1
<1>3. ASSUME NEW day \in Day PROVE r \in Covering(table, day) <=> from <= day /\ day <= to
  <2>1. day \in Nat /\ day <= LastDay BY <1>1
  <2>2. day <= table[r].to <=> day <= to BY <1>1, <2>1
  <2> QED BY <2>2 DEF Covering
<1>4. DaysOf(table, r) = from..to
  <2>1. \A n \in from..to : n \in Day BY <1>1, <1>2
  <2>2. \A n \in Day : n \in from..to <=> from <= n /\ n <= to BY <1>1, <1>2
  <2> QED BY <1>3, <2>1, <2>2 DEF DaysOf
<1>5. from \in DaysOf(table, r)
  <2>1. from <= from /\ from <= table[r].to BY <1>1
  <2> QED BY <2>1, <1>2 DEF DaysOf, Covering
<1>6. Book!Day = Day BY DEF Book!Day, Day
<1> HIDE DEF from, to
<1>7. \A f, t \in Day : f..t \in Book!Stretch BY <1>6 DEF Book!Stretch
<1>8. from..to \in Book!Stretch BY <1>2, <1>7
<1> QED BY <1>4, <1>5, <1>8

LEMMA OneCovers ==
  ASSUME NEW table \in [Rate -> Row], Exclusive(table), NEW day \in Nat,
         NEW r \in Covering(table, day), NEW q \in Covering(table, day)
  PROVE  q = r
BY ResolveUnique

(* A request that shows in nothing but the table.                          *)
LEMMA RunsRest ==
  ASSUME UNCHANGED <<fact, job, sync>>
  PROVE  Quoted' = Quoted /\ Offered' = Offered /\ Dated' = Dated
<1>1. Runs' = Runs BY DEF Runs
<1>2. \A e : FactsOf(e)' = FactsOf(e) BY <1>1 DEF FactsOf
<1>3. Dated' = Dated BY <1>2 DEF Dated
<1> QED BY <1>1, <1>3 DEF Quoted, Offered

LEMMA TableOnly ==
  ASSUME UNCHANGED <<excluded, pref, fact, job, sync>>
  PROVE  /\ excluded' = excluded /\ pref.zero' = pref.zero
         /\ Quoted' = Quoted /\ Offered' = Offered /\ Dated' = Dated
BY RunsRest

(* PATCH: the days of the rate before and after.                           *)
LEMMA UpdateMoves ==
  ASSUME RangeInv, RangeInv', NEW a \in Admin, UpdateRate(a)
  PROVE  Book!Next
<1>0. /\ rate \in [Rate -> Row] /\ Exclusive(rate) /\ rate' \in [Rate -> Row] /\ Exclusive(rate')
      /\ RangesOK /\ RangesOK' /\ Day \subseteq Nat
  BY RateAssumption DEF RangeInv, TypeInv, TypeOK, Day
<1>1. PICK r \in LiveIn(rate), from \in Day, to \in Day \cup {Forever}, cents \in Cents :
        rate' = [rate EXCEPT ![r] = NewRow(from, to, cents)]
  BY DEF UpdateRate
<1>2. /\ r \in Rate /\ r \in LiveIn(rate') /\ \A q \in Rate \ {r} : rate'[q] = rate[q]
      /\ LiveIn(rate') = LiveIn(rate)
  BY <1>1, <1>0 DEF LiveIn, NewRow
<1> DEFINE old == DaysOf(rate, r)
           new == DaysOf(rate', r)
<1>3. old \in Book!Stretch /\ old # {} /\ new \in Book!Stretch
  <2>1. rate[r].from \in Day /\ rate[r].to \in Day \cup {Forever} /\ rate[r].from <= rate[r].to
    BY <1>0 DEF RangesOK, Exclusive
  <2>2. /\ rate'[r].from \in Day /\ rate'[r].to \in Day \cup {Forever}
        /\ rate'[r].from <= rate'[r].to
    BY <1>0, <1>2 DEF RangesOK, Exclusive
  <2> QED BY <2>1, <2>2, <1>0, <1>2, DaysAreStretch
<1>4. ASSUME NEW day \in Day
      PROVE  /\ day \in old => Prices[day] = RateCost(rate[r])
             /\ day \in new => Prices'[day] = RateCost(rate'[r]) /\ Prices'[day] # Amount(Missing)
             /\ day \in new \ old => Prices[day] = Amount(Missing)
             /\ day \in old \ new => Prices'[day] = Amount(Missing)
             /\ day \notin old \cup new => Prices'[day] = Prices[day]
  <2>0. /\ day \in Nat /\ Prices[day] = Amount(Rated(rate, day))
        /\ Prices'[day] = Amount(Rated(rate', day))
    BY <1>0 DEF Prices, Rated
  <2>1. /\ day \in old <=> r \in Covering(rate, day)
        /\ day \in new <=> r \in Covering(rate', day)
    BY DEF DaysOf
  <2>2. \A q \in Rate \ {r} : q \in Covering(rate, day) <=> q \in Covering(rate', day)
    BY <1>2 DEF Covering
  <2>3. Covering(rate, day) \subseteq Rate /\ Covering(rate', day) \subseteq Rate
    BY DEF Covering, LiveIn
  <2>4. day \in old => Prices[day] = RateCost(rate[r]) BY <2>0, <2>1, <1>0, DayCost
  <2>5. day \in new => Prices'[day] = RateCost(rate'[r]) /\ Prices'[day] # Amount(Missing)
    BY <2>0, <2>1, <1>0, DayCost
  <2>6. ASSUME day \in new \ old PROVE Prices[day] = Amount(Missing)
    <3>1. Covering(rate, day) = {}
      <4> SUFFICES ASSUME NEW q \in Covering(rate, day) PROVE FALSE OBVIOUS
      <4>1. q # r /\ q \in Covering(rate', day) BY <2>1, <2>2, <2>3, <2>6
      <4> QED BY <4>1, <2>0, <2>1, <2>6, <1>0, OneCovers
    <3> QED BY <3>1, <2>0, <1>0, DayCost
  <2>7. ASSUME day \in old \ new PROVE Prices'[day] = Amount(Missing)
    <3>1. Covering(rate', day) = {}
      <4> SUFFICES ASSUME NEW q \in Covering(rate', day) PROVE FALSE OBVIOUS
      <4>1. q # r /\ q \in Covering(rate, day) BY <2>1, <2>2, <2>3, <2>7
      <4> QED BY <4>1, <2>0, <2>1, <2>7, <1>0, OneCovers
    <3> QED BY <3>1, <2>0, <1>0, DayCost
  <2>8. ASSUME day \notin old \cup new PROVE Prices'[day] = Prices[day]
    <3>1. CASE Covering(rate, day) = {}
      <4>1. Covering(rate', day) = {} BY <3>1, <2>1, <2>2, <2>3, <2>8
      <4> QED BY <3>1, <4>1, <2>0, <1>0, DayCost
    <3>2. CASE Covering(rate, day) # {}
      <4>1. PICK q \in Covering(rate, day) : TRUE BY <3>2
      <4>2. q # r /\ q \in Rate /\ q \in Covering(rate', day) BY <2>1, <2>2, <2>3, <2>8
      <4>3. rate'[q] = rate[q] BY <4>2, <1>2
      <4> QED BY <4>1, <4>2, <4>3, <2>0, <1>0, SameCost
    <3> QED BY <3>1, <3>2
  <2> HIDE DEF old, new
  <2> QED BY <2>4, <2>5, <2>6, <2>7, <2>8
<1>5. UNCHANGED <<excluded, pref, fact, job, sync, stored>> BY DEF UpdateRate
<1>6. Shown' = Shown BY <1>5 DEF Shown
<1>7. old \subseteq Day /\ new \subseteq Day /\ Book!Day = Day BY DEF DaysOf, Book!Day, Day
<1> HIDE DEF old, new
<1>8. Book!Move(old, new) BY <1>3, <1>4, <1>5, <1>6, <1>7, TableOnly DEF Book!Move
<1> QED BY <1>3, <1>8 DEF Book!Next

(* DELETE: the days of the rate lose their price.                          *)
LEMMA RemoveMoves ==
  ASSUME RangeInv, RangeInv', NEW a \in Admin, RemoveRate(a)
  PROVE  Book!Next
<1>0. /\ rate \in [Rate -> Row] /\ Exclusive(rate) /\ rate' \in [Rate -> Row] /\ Exclusive(rate')
      /\ RangesOK /\ Day \subseteq Nat /\ stored \in [Entry -> Price]
  BY RateAssumption DEF RangeInv, TypeInv, TypeOK, Day
<1>1. PICK r \in LiveIn(rate) : /\ rate' = [rate EXCEPT ![r] = Removed]
                                /\ stored' = [e \in Entry |-> Unlinked(stored[e], r)]
  BY DEF RemoveRate
<1>2. /\ r \in Rate /\ r \notin LiveIn(rate') /\ \A q \in Rate \ {r} : rate'[q] = rate[q]
  BY <1>1, <1>0 DEF LiveIn, Removed
<1> DEFINE old == DaysOf(rate, r)
<1>3. old \in Book!Stretch /\ old # {}
  <2>1. rate[r].from \in Day /\ rate[r].to \in Day \cup {Forever} /\ rate[r].from <= rate[r].to
    BY <1>0 DEF RangesOK, Exclusive
  <2> QED BY <2>1, <1>0, DaysAreStretch
<1>4. ASSUME NEW day \in Day
      PROVE  /\ day \in old => Prices[day] = RateCost(rate[r])
             /\ Prices'[day] = IF day \in old THEN Amount(Missing) ELSE Prices[day]
  <2>0. /\ day \in Nat /\ Prices[day] = Amount(Rated(rate, day))
        /\ Prices'[day] = Amount(Rated(rate', day))
    BY <1>0 DEF Prices, Rated
  <2>1. day \in old <=> r \in Covering(rate, day) BY DEF DaysOf
  <2>2. /\ \A q \in Rate \ {r} : q \in Covering(rate, day) <=> q \in Covering(rate', day)
        /\ r \notin Covering(rate', day)
    BY <1>2 DEF Covering, LiveIn
  <2>3. Covering(rate, day) \subseteq Rate /\ Covering(rate', day) \subseteq Rate
    BY DEF Covering, LiveIn
  <2>4. day \in old => Prices[day] = RateCost(rate[r]) BY <2>0, <2>1, <1>0, DayCost
  <2>5. ASSUME day \in old PROVE Prices'[day] = Amount(Missing)
    <3>1. Covering(rate', day) = {}
      <4> SUFFICES ASSUME NEW q \in Covering(rate', day) PROVE FALSE OBVIOUS
      <4>1. q # r /\ q \in Covering(rate, day) BY <2>2, <2>3
      <4> QED BY <4>1, <2>0, <2>1, <2>5, <1>0, OneCovers
    <3> QED BY <3>1, <2>0, <1>0, DayCost
  <2>6. ASSUME day \notin old PROVE Prices'[day] = Prices[day]
    <3>1. CASE Covering(rate, day) = {}
      <4>1. Covering(rate', day) = {} BY <3>1, <2>2, <2>3
      <4> QED BY <3>1, <4>1, <2>0, <1>0, DayCost
    <3>2. CASE Covering(rate, day) # {}
      <4>1. PICK q \in Covering(rate, day) : TRUE BY <3>2
      <4>2. q # r /\ q \in Rate /\ q \in Covering(rate', day) BY <2>1, <2>2, <2>3, <2>6
      <4>3. rate'[q] = rate[q] BY <4>2, <1>2
      <4> QED BY <4>1, <4>2, <4>3, <2>0, <1>0, SameCost
    <3> QED BY <3>1, <3>2
  <2> HIDE DEF old
  <2> QED BY <2>4, <2>5, <2>6
<1>5. UNCHANGED <<excluded, pref, fact, job, sync>> BY DEF RemoveRate
<1>6. \A e \in Entry : Amount(stored'[e]) = Amount(stored[e]) BY <1>1 DEF Unlinked, Amount
<1>7. Shown' = Shown BY <1>6 DEF Shown
<1>8. old \subseteq Day /\ Book!Day = Day BY DEF DaysOf, Book!Day, Day
<1> HIDE DEF old
<1>9. Book!Move(old, {}) BY <1>3, <1>4, <1>5, <1>7, <1>8, TableOnly DEF Book!Move
<1> QED BY <1>3, <1>9 DEF Book!Next

(* POST: the new rate, with caps from a reading that may be old.           *)
LEMMA CreatePrices ==
  ASSUME RangeInv, RangeInv', NEW a \in Admin, CreateCommit(a)
  PROVE  Book!Next
<1>0. /\ rate \in [Rate -> Row] /\ Exclusive(rate) /\ rate' \in [Rate -> Row] /\ Exclusive(rate')
      /\ RangesOK /\ Day \subseteq Nat /\ LastDay \in Nat /\ Day = 1..LastDay
      /\ Forever = LastDay + 1
  BY RateAssumption DEF RangeInv, TypeInv, TypeOK, Day, Forever
<1>1. PICK new \in Rate : CanCommit(a, new) /\ rate' = Committed(a, new)
  BY DEF CreateCommit
<1> DEFINE from == admin[a].from
           to   == admin[a].to
           last == IF to = Forever THEN LastDay ELSE to
           caps == admin[a].caps
<1>2. from \in Day /\ to \in Day \cup {Forever}
  BY <1>0 DEF CreateCommit, RangesOK
<1>3. /\ rate'[new].state = "live" /\ rate'[new].from = from /\ rate'[new].to = to
      /\ \A r \in caps : /\ r \in LiveIn(rate) /\ r \in Rate /\ r # new
                         /\ rate'[r].state = "live" /\ rate'[r].from = rate[r].from
                         /\ rate'[r].to = from - 1 /\ rate'[r].cents = rate[r].cents
      /\ \A r \in Rate \ (caps \cup {new}) : rate'[r] = rate[r]
      /\ new \notin LiveIn(rate)
  BY <1>1 DEF CanCommit, Committed, Succeed, NewRow, CappedRow, DayBefore, LiveIn
<1>4. /\ LiveIn(rate') = LiveIn(rate) \cup {new} /\ LiveIn(rate) \subseteq Rate
  BY <1>3 DEF LiveIn
<1>5. /\ \A r \in Rate : /\ rate[r].from \in Nat /\ rate[r].to \in Nat
                         /\ rate'[r].from \in Nat /\ rate'[r].to \in Nat
  BY <1>0 DEF Row
<1>6. \A r \in LiveIn(rate') : rate'[r].from <= rate'[r].to BY <1>0 DEF Exclusive
<1>7. from \in Nat /\ to \in Nat /\ last \in Nat BY <1>0, <1>2
<1> HIDE DEF from, to, caps
<1>8. from <= to /\ last \in Day /\ from <= last /\ last <= to
      /\ \A day \in Day : day <= last <=> day <= to
  <2>1. from <= to BY <1>3, <1>4, <1>6
  <2> QED BY <2>1, <1>0, <1>2, <1>7
<1> HIDE DEF last
(* A day outside the new rate keeps its rate, loses one that was capped,   *)
(* or gets one that was capped to a later day than it ended on.            *)
<1>9. ASSUME NEW day \in Day
      PROVE  /\ day \in Nat /\ Prices[day] = Amount(Rated(rate, day))
             /\ Prices'[day] = Amount(Rated(rate', day))
             /\ Covering(rate, day) \subseteq LiveIn(rate)
             /\ Covering(rate', day) \subseteq LiveIn(rate')
  BY <1>0 DEF Prices, Rated, Covering
<1>10. ASSUME NEW day \in Day, from <= day, day <= last
       PROVE  Prices'[day] = RateCost(rate'[new]) /\ Prices'[day] # Amount(Missing)
  <2>1. day \in Nat /\ day <= to BY <1>8, <1>9, <1>10
  <2>2. new \in Covering(rate', day) BY <2>1, <1>3, <1>4, <1>10 DEF Covering
  <2> QED BY <2>1, <2>2, <1>0, <1>9, DayCost
<1>11. ASSUME NEW day \in Day, last < day
       PROVE  \/ Prices'[day] = Prices[day]
              \/ Prices[day] = Prices[from] /\ Prices'[day] = Amount(Missing)
  <2>0. day \in Nat /\ to < day /\ from < day BY <1>7, <1>8, <1>9, <1>11
  <2>1. ASSUME NEW r \in Covering(rate', day) PROVE r \in Covering(rate, day) /\ r \notin caps /\ r # new
    <3>1. r \in LiveIn(rate') /\ rate'[r].from <= day /\ day <= rate'[r].to
      BY DEF Covering
    <3>2. r # new /\ r \notin caps BY <3>1, <2>0, <1>3, <1>7
    <3>3. r \in LiveIn(rate) /\ rate'[r] = rate[r] BY <3>1, <3>2, <1>3, <1>4
    <3> QED BY <3>1, <3>2, <3>3 DEF Covering
  <2>2. CASE Covering(rate', day) # {}
    <3>1. PICK r \in Covering(rate', day) : TRUE BY <2>2
    <3>2. r \in Covering(rate, day) /\ rate'[r] = rate[r] BY <3>1, <2>1, <1>3, <1>4, <1>9
    <3> QED BY <3>1, <3>2, <1>0, <1>9, SameCost
  <2>3. CASE Covering(rate', day) = {} /\ Covering(rate, day) = {}
    BY <2>3, <1>0, <1>9, DayCost
  <2>4. CASE Covering(rate', day) = {} /\ Covering(rate, day) # {}
    <3>1. PICK r \in Covering(rate, day) : TRUE BY <2>4
    <3>2. r \in LiveIn(rate) /\ rate[r].from <= day /\ day <= rate[r].to BY <3>1 DEF Covering
    <3>3. r \in caps
      <4> SUFFICES ASSUME r \notin caps PROVE FALSE OBVIOUS
      <4>1. rate'[r] = rate[r] /\ r \in LiveIn(rate') BY <3>2, <1>3, <1>4
      <4>2. r \in Covering(rate', day) BY <3>2, <4>1 DEF Covering
      <4> QED BY <4>2, <2>4
    <3>4. rate[r].from <= from
      <4>1. rate'[r].from <= rate'[r].to BY <3>2, <1>4, <1>6
      <4> QED BY <4>1, <3>2, <3>3, <1>3, <1>4, <1>5, <1>7
    <3>5. from <= rate[r].to BY <3>2, <2>0, <1>4, <1>5, <1>7
    <3>6. r \in Covering(rate, from) BY <3>2, <3>4, <3>5 DEF Covering
    <3>7. Prices[from] = RateCost(rate[r]) BY <3>6, <1>0, <1>2, <1>9, DayCost
    <3>8. Prices[day] = RateCost(rate[r]) BY <3>1, <1>0, <1>9, DayCost
    <3>9. Prices'[day] = Amount(Missing) BY <2>4, <1>0, <1>9, DayCost
    <3> QED BY <3>7, <3>8, <3>9
  <2> QED BY <2>2, <2>3, <2>4
<1>12. ASSUME NEW day \in Day, day < from
       PROVE  \/ Prices'[day] = Prices[day]
              \/ /\ Prices[day] = Amount(Missing)
                 /\ \E earlier \in Day : earlier < day /\ Prices'[day] = Prices[earlier]
  <2>0. day \in Nat BY <1>9
  <2>1. ASSUME NEW r \in Covering(rate, day) PROVE r \in Covering(rate', day) /\ rate'[r].cents = rate[r].cents
    <3>1. r \in LiveIn(rate) /\ rate[r].from <= day /\ day <= rate[r].to BY DEF Covering
    <3>2. CASE r \in caps
      <4>1. rate'[r].from = rate[r].from /\ rate'[r].to = from - 1 /\ rate'[r].cents = rate[r].cents
        BY <3>2, <1>3
      <4>2. day <= from - 1 BY <2>0, <1>7, <1>12
      <4> QED BY <3>1, <4>1, <4>2, <1>4 DEF Covering
    <3>3. CASE r \notin caps
      <4>1. rate'[r] = rate[r] BY <3>1, <3>3, <1>3, <1>4
      <4> QED BY <3>1, <4>1, <1>4 DEF Covering
    <3> QED BY <3>2, <3>3
  <2>2. CASE Covering(rate, day) # {}
    <3>1. PICK r \in Covering(rate, day) : TRUE BY <2>2
    <3> QED BY <3>1, <2>1, <1>0, <1>9, SameCost
  <2>3. CASE Covering(rate, day) = {} /\ Covering(rate', day) = {}
    BY <2>3, <1>0, <1>9, DayCost
  <2>4. CASE Covering(rate, day) = {} /\ Covering(rate', day) # {}
    <3>1. PICK r \in Covering(rate', day) : TRUE BY <2>4
    <3>2. r \in LiveIn(rate') /\ rate'[r].from <= day /\ day <= rate'[r].to BY <3>1 DEF Covering
    <3>3. r # new BY <3>2, <2>0, <1>3, <1>7, <1>12
    <3>4. r \in LiveIn(rate) /\ r \in Rate BY <3>2, <3>3, <1>4
    <3>5. r \notin Covering(rate, day) BY <2>4
    <3>6. r \in caps
      <4> SUFFICES ASSUME r \notin caps PROVE FALSE OBVIOUS
      <4>1. rate'[r] = rate[r] BY <3>3, <3>4, <1>3
      <4> QED BY <3>2, <3>4, <3>5, <4>1 DEF Covering
    <3>7. rate'[r].from = rate[r].from /\ rate'[r].cents = rate[r].cents BY <3>6, <1>3
    <3> DEFINE earlier == rate[r].to
    <3>8. rate[r].from <= day /\ ~(day <= earlier) BY <3>2, <3>4, <3>5, <3>7 DEF Covering
    <3>9. rate[r].from \in Day /\ rate[r].from <= earlier /\ earlier \in Nat
      BY <3>4, <1>0, <1>5 DEF RangesOK, Exclusive
    <3>10. earlier < day /\ earlier \in Day BY <3>8, <3>9, <2>0, <1>0
    <3> HIDE DEF earlier
    <3>11. r \in Covering(rate, earlier)
      BY <3>4, <3>9 DEF Covering, earlier
    <3>12. Prices[earlier] = RateCost(rate[r]) BY <3>10, <3>11, <1>0, <1>9, DayCost
    <3>13. Prices'[day] = RateCost(rate'[r]) BY <3>1, <1>0, <1>9, DayCost
    <3>14. Prices[day] = Amount(Missing) BY <2>4, <1>0, <1>9, DayCost
    <3> QED BY <3>7, <3>10, <3>12, <3>13, <3>14 DEF RateCost
  <2> QED BY <2>2, <2>3, <2>4
<1>13. UNCHANGED <<excluded, pref, fact, job, sync, stored>> BY DEF CreateCommit
<1>14. Shown' = Shown BY <1>13 DEF Shown
<1>15. Prices'[from] # Amount(Missing) /\ \A day \in Day : from <= day /\ day <= last => Prices'[day] = Prices'[from]
  <2>1. from <= from BY <1>7
  <2> QED BY <2>1, <1>2, <1>8, <1>10
<1>16. \A day \in Day : \/ from <= day /\ day <= last
                        \/ day < from
                        \/ last < day
  BY <1>7, <1>9
<1>17. Book!Day = Day BY DEF Book!Day, Day
<1>18. Book!NewRate(from, last)
  BY <1>11, <1>12, <1>13, <1>14, <1>15, <1>16, <1>17, TableOnly DEF Book!NewRate
<1> QED BY <1>2, <1>8, <1>17, <1>18 DEF Book!Next

(* Steps of recalculations and syncs.                                      *)
LEMMA RecalcReads ==
  ASSUME TypeInv, NEW j \in Job,
         Take(j) \/ RecalcPrice(j) \/ RecalcDone(j) \/ RecalcFails(j) \/ JobStalls(j)
  PROVE  Book!Next
<1>t. job \in [Job -> JobRecord] BY DEF TypeInv, TypeOK
<1>1. /\ UNCHANGED <<rate, excluded, pref, fact, stored, sync>>
      /\ \A i \in Job \ {j} : job'[i] = job[i]
  BY <1>t DEF Take, RecalcPrice, RecalcDone, RecalcFails, JobStalls
<1>2. CASE Take(j) \/ RecalcDone(j) \/ RecalcFails(j) \/ JobStalls(j)
  <2>1. \/ job'[j] = FreeJob
        \/ \E phase, todo, left, stalls : /\ job'[j] = JobIn(phase, todo, left, stalls)
                                          /\ todo = {} \/ todo = TableRows
    BY <1>2, <1>t DEF Take, RecalcDone, RecalcFails, JobStalls, Retry
  <2>2. /\ FreeJob.todo = {}
        /\ \A phase, todo, left, stalls : JobIn(phase, todo, left, stalls).todo = todo
    BY DEF FreeJob, JobIn
  <2>3. /\ Quotes(job'[j]) = {} /\ Offers(job'[j]) = {}
        /\ job'[j].todo = {} \/ job'[j].todo = TableRows
    <3>1. CASE job'[j] = FreeJob BY <3>1, <2>2, FreshRun
    <3>2. CASE job'[j] # FreeJob
      <4>1. PICK phase, todo, left, stalls : /\ job'[j] = JobIn(phase, todo, left, stalls)
                                             /\ todo = {} \/ todo = TableRows
        BY <2>1, <3>2
      <4> QED BY <4>1, <2>2, FreshRun
    <3> QED BY <3>1, <3>2
  <2> QED BY <2>3, <1>1, JobReads
<1>3. CASE RecalcPrice(j)
  <2>1. PICK row \in job[j].todo :
          job' = [job EXCEPT ![j] =
                    [phase |-> "working", todo |-> job[j].todo \ {row},
                     cache |-> Filled(job[j].cache, row.fact), held |-> row.entry,
                     price |-> Calculate(job[j].cache, row.fact),
                     left |-> job[j].left, stalls |-> job[j].stalls]]
    BY <1>3 DEF RecalcPrice
  <2>2. job[j].todo \subseteq Listing /\ job[j].cache \in Cache BY <1>t DEF JobRecord
  <2>3. row.entry \in Entry /\ row.fact \in Fact BY <2>2 DEF Listing
  <2>4. /\ job'[j].cache = Filled(job[j].cache, row.fact) /\ job'[j].held = row.entry
        /\ job'[j].price = Calculate(job[j].cache, row.fact)
        /\ job'[j].todo = job[j].todo \ {row}
    BY <2>1, <1>t
  <2>5. job[j] \in Runs /\ Told(row.entry, row.fact) BY DEF Runs, Told
  <2>6. /\ \A quote \in Quotes(job'[j]) : quote \in Quotes(job[j]) \/ ListQuote(quote)
        /\ \A offer \in Offers(job'[j]) : Allowed(offer)
    BY <2>2, <2>3, <2>4, <2>5, PricedRun
  <2> QED BY <2>4, <2>6, <1>1, JobReads
<1> QED BY <1>2, <1>3

LEMMA SyncPrices ==
  ASSUME TypeInv, NEW s \in Sync, SyncPrice(s) \/ SyncFails(s)
  PROVE  Book!Next
<1>t. sync \in [Sync -> SyncRecord] BY DEF TypeInv, TypeOK
<1>1. /\ UNCHANGED <<rate, excluded, pref, fact, stored, job>>
      /\ \A t \in Sync \ {s} : sync'[t] = sync[t]
  BY <1>t DEF SyncPrice, SyncFails
<1>2. CASE SyncFails(s)
  <2>1. sync'[s] = IdleSync BY <1>2, <1>t DEF SyncFails
  <2>2. sync'[s].todo = {} /\ sync'[s].held \notin Entry
    BY <2>1, CostAssumption DEF IdleSync, SyncOf
  <2> QED BY <2>1, <2>2, <1>1, FreshRun, SyncReads
<1>3. CASE SyncPrice(s)
  <2>1. PICK row \in sync[s].todo :
          sync' = [sync EXCEPT ![s] =
                     [todo |-> sync[s].todo \ {row}, cache |-> Filled(sync[s].cache, row.fact),
                      held |-> row.entry, fact |-> row.fact,
                      price |-> Calculate(sync[s].cache, row.fact)]]
    BY <1>3 DEF SyncPrice
  <2>2. sync[s].todo \subseteq Listing /\ sync[s].cache \in Cache BY <1>t DEF SyncRecord
  <2>3. row.entry \in Entry /\ row.fact \in Fact BY <2>2 DEF Listing
  <2>4. /\ sync'[s].cache = Filled(sync[s].cache, row.fact) /\ sync'[s].held = row.entry
        /\ sync'[s].price = Calculate(sync[s].cache, row.fact)
        /\ sync'[s].todo = sync[s].todo \ {row} /\ sync'[s].fact = row.fact
    BY <2>1, <1>t
  <2>5. sync[s] \in Runs /\ Told(row.entry, row.fact) BY DEF Runs, Told
  <2>6. /\ \A quote \in Quotes(sync'[s]) : quote \in Quotes(sync[s]) \/ ListQuote(quote)
        /\ \A offer \in Offers(sync'[s]) : Allowed(offer)
    BY <2>2, <2>3, <2>4, <2>5, PricedRun
  <2> QED BY <2>4, <2>6, <1>1, SyncReads
<1> QED BY <1>2, <1>3

(* What a write takes out of the hands of a run.                           *)
LEMMA RecalcShows ==
  ASSUME TypeInv, NEW j \in Job, RecalcWrite(j)
  PROVE  Book!Next
<1>t. job \in [Job -> JobRecord] BY DEF TypeInv, TypeOK
<1>1. /\ UNCHANGED <<rate, excluded, pref, fact, sync>> /\ job[j].held # NoEntry
      /\ stored' = [stored EXCEPT ![job[j].held] = job[j].price]
  BY DEF RecalcWrite
<1>2. /\ \A i \in Job \ {j} : job'[i] = job[i]
      /\ job'[j].cache = job[j].cache /\ job'[j].held = NoEntry /\ job'[j].todo = job[j].todo
  BY <1>t DEF RecalcWrite, JobRecord
<1>3. job[j].held \in Entry BY <1>1, <1>t DEF JobRecord
<1>4. <<job[j].held, Amount(job[j].price)>> \in Offered
  <2>1. <<job[j].held, Amount(job[j].price)>> \in Offers(job[j]) BY <1>1 DEF Offers
  <2> QED BY <2>1 DEF Offered, Runs
<1>5. Quotes(job'[j]) = Quotes(job[j]) /\ Offers(job'[j]) = {} BY <1>2 DEF Quotes, Offers
<1>6. ASSUME NEW quote \in Quoted' PROVE quote \in Quoted
  <2>1. \/ \E i \in Job : quote \in Quotes(job'[i])
        \/ \E s \in Sync : quote \in Quotes(sync'[s])
    BY DEF Quoted, Runs
  <2>2. \/ \E i \in Job : quote \in Quotes(job[i])
        \/ \E s \in Sync : quote \in Quotes(sync[s])
    BY <2>1, <1>1, <1>2, <1>5
  <2> QED BY <2>2 DEF Quoted, Runs
<1>7. ASSUME NEW offer \in Offered' PROVE offer \in Offered
  <2>1. \/ \E i \in Job : offer \in Offers(job'[i])
        \/ \E s \in Sync : offer \in Offers(sync'[s])
    BY DEF Offered, Runs
  <2>2. \/ \E i \in Job : offer \in Offers(job[i])
        \/ \E s \in Sync : offer \in Offers(sync[s])
    BY <2>1, <1>1, <1>2, <1>5
  <2> QED BY <2>2 DEF Offered, Runs
<1>8. ASSUME NEW e \in Entry, NEW f, Told(e, f)' PROVE DaysIn(f) \subseteq Dated[e]
  <2>1. \A i \in Job : job'[i].todo = job[i].todo BY <1>2
  <2>2. Told(e, f) BY <2>1, <1>1, <1>8 DEF Told
  <2> QED BY <2>2, DatedBy
<1>9. Book!DatesForgotten BY <1>8, Forgets
<1> QED BY <1>1, <1>3, <1>4, <1>6, <1>7, <1>9, ShowsOffer

LEMMA SyncShows ==
  ASSUME TypeInv, NEW s \in Sync, SyncWrite(s)
  PROVE  Book!Next
<1>t. sync \in [Sync -> SyncRecord] /\ fact \in [Entry -> Fact] BY DEF TypeInv, TypeOK
<1>1. PICK e \in Entry :
        /\ sync[s].held = e
        /\ stored' = [stored EXCEPT ![e] = sync[s].price]
        /\ fact' = [fact EXCEPT ![e].start = sync[s].fact.start,
                                ![e].billable = sync[s].fact.billable]
  BY DEF SyncWrite
<1>2. UNCHANGED <<rate, excluded, pref, job>> BY DEF SyncWrite
<1>3. /\ \A t \in Sync \ {s} : sync'[t] = sync[t]
      /\ \/ sync'[s] = IdleSync
         \/ /\ sync'[s].cache = sync[s].cache /\ sync'[s].held = NoEntry
            /\ sync'[s].todo = sync[s].todo
  BY <1>t DEF SyncWrite
<1>4. <<e, Amount(sync[s].price)>> \in Offered
  <2>1. <<e, Amount(sync[s].price)>> \in Offers(sync[s]) BY <1>1, CostAssumption DEF Offers
  <2> QED BY <2>1 DEF Offered, Runs
<1>5. Quotes(sync'[s]) \subseteq Quotes(sync[s]) /\ Offers(sync'[s]) = {}
  BY <1>3, FreshRun DEF Quotes, Offers
<1>6. ASSUME NEW quote \in Quoted' PROVE quote \in Quoted
  <2>1. \/ \E j \in Job : quote \in Quotes(job'[j])
        \/ \E t \in Sync : quote \in Quotes(sync'[t])
    BY DEF Quoted, Runs
  <2>2. \/ \E j \in Job : quote \in Quotes(job[j])
        \/ \E t \in Sync : quote \in Quotes(sync[t])
    BY <2>1, <1>2, <1>3, <1>5
  <2> QED BY <2>2 DEF Quoted, Runs
<1>7. ASSUME NEW offer \in Offered' PROVE offer \in Offered
  <2>1. \/ \E j \in Job : offer \in Offers(job'[j])
        \/ \E t \in Sync : offer \in Offers(sync'[t])
    BY DEF Offered, Runs
  <2>2. \/ \E j \in Job : offer \in Offers(job[j])
        \/ \E t \in Sync : offer \in Offers(sync[t])
    BY <2>1, <1>2, <1>3, <1>5
  <2> QED BY <2>2 DEF Offered, Runs
<1>8. sync'[s].todo \subseteq sync[s].todo /\ sync'[s].held \notin Entry
  BY <1>3, CostAssumption DEF IdleSync, SyncOf
<1>9. ASSUME NEW o \in Entry, NEW f, Told(o, f)' PROVE DaysIn(f) \subseteq Dated[o]
  <2>1. CASE f = fact'[o]
    <3>1. Told(o, fact[o]) BY DEF Told
    <3>2. CASE o # e
      <4>1. fact'[o] = fact[o] BY <3>2, <1>1, <1>t
      <4> QED BY <4>1, <3>1, <2>1, DatedBy
    <3>3. CASE o = e
      <4>1. fact'[e].start = sync[s].fact.start /\ fact'[e].due = fact[e].due
        BY <1>1, <1>t DEF Fact
      <4>2. Told(e, sync[s].fact) BY <1>1 DEF Told
      <4>3. DaysIn(f) \subseteq DaysIn(fact[e]) \cup DaysIn(sync[s].fact)
        BY <4>1, <3>3, <2>1 DEF DaysIn
      <4> QED BY <4>2, <4>3, <3>1, <3>3, DatedBy
    <3> QED BY <3>2, <3>3
  <2>2. CASE f # fact'[o]
    <3>1. \A t \in Sync : sync'[t].todo \subseteq sync[t].todo BY <1>3, <1>8
    <3>2. \A t \in Sync : sync'[t].held = o => sync[t].held = o /\ sync'[t].fact = sync[t].fact
      BY <1>3, <1>8
    <3>3. Told(o, f) BY <3>1, <3>2, <2>2, <1>2, <1>9 DEF Told
    <3> QED BY <3>3, DatedBy
  <2> QED BY <2>1, <2>2
<1>10. Book!DatesForgotten BY <1>9, Forgets
<1> QED BY <1>1, <1>2, <1>4, <1>6, <1>7, <1>10, ShowsOffer

LEMMA RowHides ==
  ASSUME TypeInv, NEW e \in Entry, RowVanishes(e)
  PROVE  Book!Next
<1>t. stored \in [Entry -> Price] BY DEF TypeInv, TypeOK
<1>1. UNCHANGED <<rate, excluded, pref, fact, job, sync>> /\ stored' = [stored EXCEPT ![e] = Unset]
  BY DEF RowVanishes
<1>2. Shown' = [Shown EXCEPT ![e] = Amount(Unset)] BY <1>1, <1>t DEF Shown
<1>3. Prices' = Prices BY <1>1 DEF Prices, Rated
<1>4. Book!Hide(e) BY <1>1, <1>2, <1>3, TableOnly DEF Book!Hide
<1> QED BY <1>4 DEF Book!Next

(* Settings, and dates.                                                    *)
LEMMA Arranges ==
  ASSUME TypeInv, TypeInv', UNCHANGED <<rate, fact, stored, job, sync>>
  PROVE  Book!Next
<1>1. Prices' = Prices /\ Shown' = Shown BY DEF Prices, Rated, Shown
<1>2. excluded' \in BOOLEAN /\ pref' \in Preferences BY CostAssumption DEF TypeInv, TypeOK
<1>3. pref'.zero \in BOOLEAN BY <1>2 DEF Preferences
<1>4. Book!Arrange BY <1>1, <1>2, <1>3, RunsRest DEF Book!Arrange
<1> QED BY <1>4 DEF Book!Next

LEMMA Redates ==
  ASSUME TypeInv', UNCHANGED <<rate, excluded, pref, stored>>, UNCHANGED <<Quoted, Offered>>
  PROVE  Book!Next
<1>1. Prices' = Prices /\ Shown' = Shown BY DEF Prices, Rated, Shown
<1>2. Dated' \in [Entry -> SUBSET Book!Day]
  BY DatedTyped
<1>3. Book!Redate BY <1>1, <1>2 DEF Book!Redate
<1> QED BY <1>3 DEF Book!Next

LEMMA SyncBegins ==
  ASSUME TypeInv, TypeInv', NEW s \in Sync, SyncBegin(s)
  PROVE  Book!Next
<1>t. sync \in [Sync -> SyncRecord] BY DEF TypeInv, TypeOK
<1>1. /\ UNCHANGED <<rate, excluded, pref, fact, stored, job>> /\ sync[s] = IdleSync
      /\ \A t \in Sync \ {s} : sync'[t] = sync[t]
  BY <1>t DEF SyncBegin
<1>2. \E batch : sync'[s] = SyncOf(batch) BY <1>t DEF SyncBegin
<1>3. \A t \in Sync : /\ Quotes(sync'[t]) = Quotes(sync[t])
                      /\ Offers(sync'[t]) = Offers(sync[t])
  BY <1>1, <1>2, FreshRun
<1>4. ASSUME NEW quote PROVE quote \in Quoted' <=> quote \in Quoted
  <2>1. quote \in Quoted <=> \/ \E j \in Job : quote \in Quotes(job[j])
                             \/ \E t \in Sync : quote \in Quotes(sync[t])
    BY DEF Quoted, Runs
  <2>2. quote \in Quoted' <=> \/ \E j \in Job : quote \in Quotes(job'[j])
                              \/ \E t \in Sync : quote \in Quotes(sync'[t])
    BY DEF Quoted, Runs
  <2> QED BY <2>1, <2>2, <1>1, <1>3
<1>5. ASSUME NEW offer PROVE offer \in Offered' <=> offer \in Offered
  <2>1. offer \in Offered <=> \/ \E j \in Job : offer \in Offers(job[j])
                              \/ \E t \in Sync : offer \in Offers(sync[t])
    BY DEF Offered, Runs
  <2>2. offer \in Offered' <=> \/ \E j \in Job : offer \in Offers(job'[j])
                               \/ \E t \in Sync : offer \in Offers(sync'[t])
    BY DEF Offered, Runs
  <2> QED BY <2>1, <2>2, <1>1, <1>3
<1>6. Quoted' = Quoted /\ Offered' = Offered BY <1>4, <1>5
<1> QED BY <1>1, <1>6, Redates

LEMMA DuesMove ==
  ASSUME TypeInv', NEW e \in Entry, DueMoves(e)
  PROVE  Book!Next
<1>1. UNCHANGED <<rate, excluded, pref, stored, job, sync>> BY DEF DueMoves
<1>2. Runs' = Runs BY <1>1 DEF Runs
<1>3. Quoted' = Quoted /\ Offered' = Offered BY <1>2 DEF Quoted, Offered
<1> QED BY <1>1, <1>3, Redates

(* A request that queues a recalculation, which has read nothing yet.      *)
LEMMA QueueReads ==
  ASSUME TypeInv, Enqueue, UNCHANGED <<rate, excluded, pref, fact, stored, sync>>
  PROVE  Book!Next
<1>t. job \in [Job -> JobRecord] BY DEF TypeInv, TypeOK
<1>1. PICK j \in Job : job' = [job EXCEPT ![j] = JobIn("waiting", {}, Attempts, 0)]
  BY DEF Enqueue
<1>2. job'[j] = JobIn("waiting", {}, Attempts, 0) /\ \A i \in Job \ {j} : job'[i] = job[i]
  BY <1>1, <1>t
<1>3. job'[j].todo = {} BY <1>2 DEF JobIn
<1> QED BY <1>2, <1>3, FreshRun, JobReads

LEMMA BookInit == Init => Book!Init
<1> SUFFICES ASSUME Init PROVE Book!Init OBVIOUS
<1>1. Quoted = {} /\ Offered = {}
  <2>1. \A j \in Job : Quotes(job[j]) = {} /\ Offers(job[j]) = {} BY FreshRun DEF Init
  <2>2. \A s \in Sync : Quotes(sync[s]) = {} /\ Offers(sync[s]) = {} BY FreshRun DEF Init
  <2> QED BY <2>1, <2>2 DEF Quoted, Offered, Runs
<1>5. TypeInv BY TypeInit
<1>6. pref.zero \in BOOLEAN
  <2>1. pref \in Preferences BY <1>5, CostAssumption DEF TypeInv, TypeOK
  <2> QED BY <2>1 DEF Preferences
<1>2. Shown = [e \in Entry |-> Amount(Unset)] BY DEF Init, Shown
<1>3. Prices \in [Day -> [status : {"unset", "none", "excluded", "rated"}, cents : Nat]]
  <2> SUFFICES ASSUME NEW day \in Day
               PROVE  Amount(Rated(rate, day))
                        \in [status : {"unset", "none", "excluded", "rated"}, cents : Nat]
    BY DEF Prices
  <2>0. rate \in [Rate -> Row] /\ Exclusive(rate) /\ day \in Nat
    BY TypeInit, RateAssumption DEF TypeInv, TypeOK, Day
  <2>1. CASE Covering(rate, day) = {}
    <3>1. Amount(Rated(rate, day)) = Amount(Missing) BY <2>0, <2>1, DayCost
    <3> QED BY <3>1 DEF Amount, Missing
  <2>2. CASE Covering(rate, day) # {}
    <3>1. PICK r \in Covering(rate, day) : TRUE BY <2>2
    <3>2. rate[r].cents \in Nat BY <3>1, <2>0 DEF Covering, LiveIn, Row
    <3> QED BY <3>1, <3>2, <2>0, DayCost DEF RateCost
  <2> QED BY <2>1, <2>2
<1>4. Book!Day = Day BY DEF Book!Day, Day
<1> QED BY <1>1, <1>2, <1>3, <1>4, <1>5, <1>6, DatedType DEF Init, Book!Init

LEMMA BookStep == RangeInv /\ RangeInv' /\ [Next]_vars => [Book!Next]_(Book!vars)
<1> SUFFICES ASSUME RangeInv, RangeInv', [Next]_vars PROVE [Book!Next]_(Book!vars) OBVIOUS
<1>t. TypeInv /\ TypeInv' BY DEF RangeInv
<1>1. ASSUME NEW a \in Admin, CreateCommit(a) PROVE Book!Next BY <1>1, CreatePrices
<1>2. ASSUME NEW a \in Admin, UpdateRate(a) PROVE Book!Next BY <1>2, UpdateMoves
<1>3. ASSUME NEW a \in Admin, RemoveRate(a) PROVE Book!Next BY <1>3, RemoveMoves
<1>4. ASSUME NEW a \in Admin,
             \/ CreateRead(a) \/ CreateAborts(a) \/ ExcludeRead(a) \/ ExcludeWrite(a)
             \/ NotifySkipped(a) \/ NotifyFails(a) \/ PatchPreferences(a)
      PROVE  Book!Next
  <2>1. UNCHANGED <<rate, fact, stored, job, sync>>
    BY <1>4 DEF CreateRead, CreateAborts, ExcludeRead, ExcludeWrite, NotifySkipped, NotifyFails,
       PatchPreferences
  <2> QED BY <2>1, <1>t, Arranges
<1>5. ASSUME NEW a \in Admin, Notify(a) PROVE Book!Next
  <2>1. Enqueue /\ UNCHANGED <<rate, excluded, pref, fact, stored, sync>> BY <1>5 DEF Notify
  <2> QED BY <2>1, <1>t, QueueReads
<1>6. CASE RecalculateCosts
  <2>1. Enqueue /\ UNCHANGED <<rate, excluded, pref, fact, stored, sync>> BY <1>6 DEF RecalculateCosts
  <2> QED BY <2>1, <1>t, QueueReads
<1>7. CASE UNCHANGED vars
  <2>1. UNCHANGED <<rate, fact, stored, job, sync>> BY <1>7 DEF vars
  <2> QED BY <2>1, <1>t, Arranges
<1>8. ASSUME NEW j \in Job,
             \/ Take(j) \/ RecalcPrice(j) \/ RecalcWrite(j) \/ RecalcDone(j)
             \/ RecalcFails(j) \/ JobStalls(j)
      PROVE  Book!Next
  BY <1>8, <1>t, RecalcReads, RecalcShows
<1>9. ASSUME NEW s \in Sync, SyncBegin(s) \/ SyncPrice(s) \/ SyncWrite(s) \/ SyncFails(s)
      PROVE  Book!Next
  BY <1>9, <1>t, SyncBegins, SyncPrices, SyncShows
<1>10. ASSUME NEW e \in Entry, RowVanishes(e) \/ DueMoves(e) PROVE Book!Next
  BY <1>10, <1>t, RowHides, DuesMove
<1> QED BY <1>1, <1>2, <1>3, <1>4, <1>5, <1>6, <1>7, <1>8, <1>9, <1>10 DEF Next

(* Costs implements PriceBook: a price is shown on a row only for a day at *)
(* which the calculation found the row dated, and only out of the hands of *)
(* a calculation that read it off the list, and a change of the rate table *)
(* re-prices the days of one rate and no others (createWithSuccession, update, remove, recalculate,       *)
(* persistEntries), with any numbers of rates, days, rows, requests, syncs *)
(* and recalculations at work and any faults.                              *)
THEOREM ImplementsPriceBook == Spec => KeepsBook
<1>1. RangeInv /\ RangeInv' /\ [Next]_vars => [Book!Next]_(Book!vars) BY BookStep
<1>2. Init => Book!Init BY BookInit
<1> QED BY <1>1, <1>2, RangeInvariant, PTL DEF Spec, KeepsBook, Book!Spec

-----------------------------------------------------------------------------
(* Which window needs which fault.                                         *)

SeveralRequests == \E a, b \in Admin : a # b

(* The windows that need neither a fault nor two requests at once.         *)
AlwaysOpen == {"auto_off", "exhausted", "repriced", "due_moved", "late_sync", "late_recalc"}

CostExposed ==
  AlwaysOpen
    \cup {w \in {"stalled_out"} : "crash" \in Faults}
    \cup {w \in {"unqueued"} : "queue" \in Faults}
    \cup {w \in {"unnoticed"} : SeveralRequests}

(* A request that is alone writes the exclusion list it read.              *)
ReadIsFresh ==
  \/ SeveralRequests
  \/ \A a \in Admin : admin[a].pc = "exclude" => admin[a].prev = excluded

ExposedInv == TypeOK /\ gap \subseteq CostExposed /\ ReadIsFresh

LEMMA ExposedStep == TypeInv /\ ExposedInv /\ [Next]_vars => ExposedInv'
<1> SUFFICES ASSUME TypeInv, ExposedInv, [Next]_vars PROVE ExposedInv' OBVIOUS
<1>t. TypeOK' BY TypeStep DEF TypeInv
<1>a. admin \in [Admin -> AdminRecord] BY DEF ExposedInv, TypeOK
<1>o. AlwaysOpen \subseteq CostExposed BY DEF CostExposed
<1>f. ASSUME excluded' = excluded,
             \A a \in Admin : admin'[a].pc = "exclude" =>
               admin'[a] = admin[a] \/ admin'[a].prev = excluded
      PROVE  ReadIsFresh'
  BY <1>f DEF ExposedInv, ReadIsFresh, SeveralRequests
<1>1. ASSUME NEW a \in Admin,
             CreateRead(a) \/ CreateCommit(a) \/ CreateAborts(a) \/ UpdateRate(a) \/ RemoveRate(a)
      PROVE  ExposedInv'
  <2>1. /\ excluded' = excluded /\ gap' = gap
        /\ \A b \in Admin \ {a} : admin'[b] = admin[b]
    BY <1>1, <1>a DEF CreateRead, CreateCommit, CreateAborts, UpdateRate, RemoveRate
  <2>2. admin'[a].pc # "exclude"
    BY <1>1, <1>a
    DEF CreateRead, CreateCommit, CreateAborts, UpdateRate, RemoveRate, At, IdleAdmin
  <2> QED BY <2>1, <2>2, <1>t, <1>f DEF ExposedInv
<1>2. ASSUME NEW a \in Admin, ExcludeRead(a) PROVE ExposedInv'
  <2>1. /\ excluded' = excluded /\ gap' = gap
        /\ \A b \in Admin \ {a} : admin'[b] = admin[b]
        /\ admin'[a].prev = excluded
    BY <1>2, <1>a DEF ExcludeRead
  <2> QED BY <2>1, <1>t, <1>f DEF ExposedInv
<1>3. ASSUME NEW a \in Admin, ExcludeWrite(a) PROVE ExposedInv'
  <2>1. admin'[a].pc # "exclude" /\ admin[a].pc = "exclude"
    BY <1>3, <1>a DEF ExcludeWrite, At, IdleAdmin
  <2>2. CASE SeveralRequests
    <3>1. ReadIsFresh' BY <2>2 DEF ReadIsFresh, SeveralRequests
    <3>2. gap' \subseteq gap \cup {"unnoticed"} BY <1>3 DEF ExcludeWrite
    <3> QED BY <2>2, <3>1, <3>2, <1>t DEF ExposedInv, CostExposed
  <2>3. CASE ~SeveralRequests
    <3>1. ReadIsFresh' BY <2>1, <2>3 DEF ReadIsFresh, SeveralRequests
    <3>2. admin[a].prev = excluded BY <2>1, <2>3 DEF ExposedInv, ReadIsFresh
    <3>3. gap' = gap BY <1>3, <3>2 DEF ExcludeWrite
    <3> QED BY <3>1, <3>3, <1>t DEF ExposedInv
  <2> QED BY <2>2, <2>3
<1>4. ASSUME NEW a \in Admin, Notify(a) \/ NotifySkipped(a) \/ NotifyFails(a) PROVE ExposedInv'
  <2>1. excluded' = excluded /\ \A b \in Admin \ {a} : admin'[b] = admin[b]
    BY <1>4, <1>a DEF Notify, NotifySkipped, NotifyFails
  <2>2. admin'[a].pc # "exclude" BY <1>4, <1>a DEF Notify, NotifySkipped, NotifyFails, IdleAdmin
  <2>3. \/ gap' = {}
        \/ gap' = gap \cup {"auto_off"}
        \/ gap' = gap \cup {"unqueued"} /\ "queue" \in Faults
    BY <1>4 DEF Notify, NotifySkipped, NotifyFails, Enqueue
  <2>4. gap' \subseteq CostExposed BY <2>3 DEF ExposedInv, CostExposed, AlwaysOpen
  <2> QED BY <2>1, <2>2, <2>4, <1>t, <1>f DEF ExposedInv
<1>5. CASE RecalculateCosts
  <2>1. excluded' = excluded /\ admin' = admin /\ gap' = {} BY <1>5 DEF RecalculateCosts, Enqueue
  <2> QED BY <2>1, <1>t, <1>f DEF ExposedInv
<1>6. ASSUME NEW j \in Job, RecalcFails(j) \/ JobStalls(j) PROVE ExposedInv'
  <2>1. excluded' = excluded /\ admin' = admin BY <1>6 DEF RecalcFails, JobStalls
  <2>2. \/ gap' = gap \/ gap' = gap \cup {"exhausted"}
        \/ gap' = gap \cup {"stalled_out"} /\ "crash" \in Faults
    BY <1>6 DEF RecalcFails, JobStalls
  <2>3. gap' \subseteq CostExposed BY <2>2 DEF ExposedInv, CostExposed, AlwaysOpen
  <2> QED BY <2>1, <2>3, <1>t, <1>f DEF ExposedInv
<1>7. ASSUME NEW s \in Sync, SyncWrite(s) PROVE ExposedInv'
  <2>1. excluded' = excluded /\ admin' = admin BY <1>7 DEF SyncWrite
  <2>2. gap' \subseteq gap \cup {"late_sync", "late_recalc"} BY <1>7 DEF SyncWrite, Late
  <2>3. gap' \subseteq CostExposed BY <2>2 DEF ExposedInv, CostExposed, AlwaysOpen
  <2> QED BY <2>1, <2>3, <1>t, <1>f DEF ExposedInv
<1>8. ASSUME UNCHANGED <<excluded, admin, gap>> PROVE ExposedInv'
  BY <1>8, <1>t, <1>f DEF ExposedInv
<1>9. ASSUME NEW j \in Job, Take(j) \/ RecalcPrice(j) \/ RecalcWrite(j) \/ RecalcDone(j)
      PROVE  UNCHANGED <<excluded, admin, gap>>
  BY <1>9 DEF Take, RecalcPrice, RecalcWrite, RecalcDone
<1>10. ASSUME NEW s \in Sync, SyncBegin(s) \/ SyncPrice(s) \/ SyncFails(s)
       PROVE  UNCHANGED <<excluded, admin, gap>>
  BY <1>10 DEF SyncBegin, SyncPrice, SyncFails
<1>11. ASSUME NEW e \in Entry, RowVanishes(e) PROVE UNCHANGED <<excluded, admin, gap>>
  BY <1>11 DEF RowVanishes
<1>12. UNCHANGED vars => UNCHANGED <<excluded, admin, gap>> BY DEF vars
<1>13. ASSUME NEW a \in Admin, PatchPreferences(a) PROVE ExposedInv'
  <2>1. /\ admin' = admin /\ admin[a].pc = "idle"
        /\ gap' = gap \/ gap' = gap \cup {"repriced"}
    BY <1>13 DEF PatchPreferences
  <2>2. gap' \subseteq CostExposed BY <2>1 DEF ExposedInv, CostExposed, AlwaysOpen
  <2>3. ReadIsFresh' BY <2>1 DEF ReadIsFresh, SeveralRequests
  <2> QED BY <2>2, <2>3, <1>t DEF ExposedInv
<1>14. ASSUME NEW e \in Entry, DueMoves(e) PROVE ExposedInv'
  <2>1. /\ excluded' = excluded /\ admin' = admin
        /\ gap' = gap \/ gap' = gap \cup {"due_moved"}
    BY <1>14 DEF DueMoves
  <2>2. gap' \subseteq CostExposed BY <2>1 DEF ExposedInv, CostExposed, AlwaysOpen
  <2> QED BY <2>1, <2>2, <1>t, <1>f DEF ExposedInv
<1> QED
  BY <1>1, <1>2, <1>3, <1>4, <1>5, <1>6, <1>7, <1>8, <1>9, <1>10, <1>11, <1>12, <1>13, <1>14
  DEF Next

LEMMA ExposedInvariant == Spec => []ExposedInv
<1>1. Init => ExposedInv
  BY TypeInit DEF TypeInv, Init, ExposedInv, CostExposed, ReadIsFresh, IdleAdmin
<1>2. TypeInv /\ ExposedInv /\ [Next]_vars => ExposedInv' BY ExposedStep
<1> QED BY <1>1, <1>2, TypeInvariant, PTL DEF Spec

(* Each window of StaleIsPending is the work of something: a crash that    *)
(* outlives the stall limit, a queue that refuses, two requests at once    *)
(* (excludedAssignees read by one and written by the other).  Without      *)
(* these, what is left are a preference that an administrator turned off,  *)
(* a patch of the settings and a move of a due date, for which the code    *)
(* queues nothing, a recalculation that used up its attempts (a row or a   *)
(* rate deleted under it), and a sync that writes what it read before a    *)
(* change or rewrites a row that the recalculation at work has listed.     *)
THEOREM WindowsNeedFaults == Spec => [](gap \subseteq CostExposed)
<1>1. ExposedInv => gap \subseteq CostExposed BY DEF ExposedInv
<1> QED BY <1>1, ExposedInvariant, PTL

(* With one request at a time, and neither crashes nor a queue that        *)
(* refuses, a stale price is on somebody's list, or since a recalculation  *)
(* was last queued one of six things happened: a rate changed with the     *)
(* preference off; the settings page changed what prices depend on, or a   *)
(* task sync moved a due date while they depended on it; a recalculation   *)
(* used up its attempts; a sync wrote what it had read before a change, or *)
(* rewrote a row that the recalculation at work had listed (RatesService,  *)
(* updateExcludedAssignees, SettingsService.update,                        *)
(* CostRecalculationService, persistEntries); statements may still fail,   *)
(* at any point.                                                           *)
THEOREM StalePendingUnexposed ==
  ASSUME Workers = 1, IsFiniteSet(Job), Faults \subseteq {"call"},
         \A a, b \in Admin : a = b
  PROVE  Spec => [](\A e \in Entry :
                      stored[e] # Unset /\ stored[e] # Current(e)
                        => Pending(e) \/ gap \cap AlwaysOpen # {})
<1>1. gap \subseteq CostExposed => gap \subseteq AlwaysOpen
  BY DEF CostExposed, SeveralRequests
<1>2. StaleIsPending /\ gap \subseteq CostExposed =>
        \A e \in Entry :
          stored[e] # Unset /\ stored[e] # Current(e)
            => Pending(e) \/ gap \cap AlwaysOpen # {}
  BY <1>1 DEF StaleIsPending
<1> QED BY <1>2, StalePending, WindowsNeedFaults, PTL
=============================================================================
