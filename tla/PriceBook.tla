----------------------------- MODULE PriceBook -----------------------------
(***************************************************************************)
(* The price list of one assignee, day by day, and the prices shown on     *)
(* rows, as those who read the costs may rely on them: nothing of rates,   *)
(* ids, caps, caches, jobs or syncs.                                       *)
(*                                                                         *)
(* An administrator changes the list for one stretch of days at a time.  A *)
(* price reaches a row only out of the hands of a calculation that read it *)
(* off the list while the list said so, for a day at which it had found    *)
(* the row dated; or because the assignee is excluded, or the row free of  *)
(* charge, when it was calculated.                                         *)
(*                                                                         *)
(* Costs implements this specification.                                    *)
(***************************************************************************)
EXTENDS Naturals

CONSTANTS
  Entry,     \* rows
  Money,     \* what a day or a row may cost
  LastDay,   \* days are 1..LastDay
  NoPrice,   \* on the list: no rate for the day
  OutPrice,  \* the assignee is excluded from costs
  FreePrice, \* a row that is not to be billed, when such rows cost nothing
  NoRow      \* on a row: there is none

VARIABLES
  price,     \* the list: the price of a day
  excluded,  \* whether the assignee is excluded
  free,      \* whether rows that are not to be billed cost nothing
  dated,     \* the days a row may be priced at, as known to anybody
  shown,     \* the price on a row
  quoted,    \* what the calculations at work hold: prices of days
  offered    \* what they are about to show: prices of rows

vars == <<price, excluded, free, dated, shown, quoted, offered>>

Day == 1..LastDay

(* What a calculation may answer for a row.                                *)
Answers(e) ==
  IF excluded THEN {OutPrice}
  ELSE {p \in {FreePrice} : free} \cup {price[day] : day \in dated[e]}
         \cup {quote[2] : quote \in {q \in quoted : q[1] \in dated[e]}}

DatesForgotten == \A e \in Entry : dated'[e] \subseteq dated[e]

Init ==
  /\ excluded = FALSE /\ free \in BOOLEAN
  /\ quoted = {} /\ offered = {}
  /\ dated \in [Entry -> SUBSET Day]
  /\ shown = [e \in Entry |-> NoRow]
  /\ price \in [Day -> Money]

(* A new rate prices its days.  Later days keep their price, unless they   *)
(* shared the rate that was in force on the first of them; earlier days    *)
(* keep theirs, and one without a price may take that of a day before it   *)
(* (a rate that somebody else shortened since the succession was planned). *)
NewRate(from, to) ==
  /\ price'[from] # NoPrice
  /\ \A day \in Day :
       \/ from <= day /\ day <= to /\ price'[day] = price'[from]
       \/ (day < from \/ to < day) /\ price'[day] = price[day]
       \/ to < day /\ price[day] = price[from] /\ price'[day] = NoPrice
       \/ /\ day < from /\ price[day] = NoPrice
          /\ \E earlier \in Day : earlier < day /\ price'[day] = price[earlier]
  /\ UNCHANGED <<excluded, free, dated, shown, quoted, offered>>

(* A rate leaves its days without a price and takes over days that have    *)
(* none, at a price of its own; one that is deleted takes over no day.     *)
Move(old, new) ==
  /\ old # {} /\ \A day, other \in old : price[day] = price[other]
  /\ \A day \in new \ old : price[day] = NoPrice
  /\ \A day, other \in new : price'[day] = price'[other] /\ price'[day] # NoPrice
  /\ \A day \in Day \ new : price'[day] = IF day \in old THEN NoPrice ELSE price[day]
  /\ UNCHANGED <<excluded, free, dated, shown, quoted, offered>>

(* The settings change, or what is known of the dates of rows.             *)
Arrange ==
  /\ excluded' \in BOOLEAN /\ free' \in BOOLEAN
  /\ UNCHANGED <<price, dated, shown, quoted, offered>>

Redate ==
  /\ dated' \in [Entry -> SUBSET Day]
  /\ UNCHANGED <<price, excluded, free, shown, quoted, offered>>

(* A calculation reads and answers, or forgets.                            *)
Read ==
  /\ UNCHANGED <<excluded, free, shown, price>>
  /\ \A quote \in quoted' \ quoted : \E day \in Day : quote = <<day, price[day]>>
  /\ \A offer \in offered' \ offered :
       \E e \in Entry : \E p \in Answers(e) : offer = <<e, p>>
  /\ DatesForgotten

Show(e) ==
  /\ UNCHANGED <<excluded, free, price>>
  /\ <<e, shown'[e]>> \in offered
  /\ \A other \in Entry \ {e} : shown'[other] = shown[other]
  /\ quoted' \subseteq quoted /\ offered' \subseteq offered /\ DatesForgotten

Hide(e) ==
  /\ shown' = [shown EXCEPT ![e] = NoRow]
  /\ UNCHANGED <<price, excluded, free, dated, quoted, offered>>

Stretch == {from..to : from, to \in Day}

Next ==
  \/ Read \/ Arrange \/ Redate
  \/ \E e \in Entry : Show(e) \/ Hide(e)
  \/ \E from, to \in Day : NewRate(from, to)
  \/ \E old \in Stretch, new \in Stretch \cup {{}} : Move(old, new)

Spec == Init /\ [][Next]_vars
=============================================================================
