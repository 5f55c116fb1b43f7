--------------------------- MODULE RateSuccession ---------------------------
(***************************************************************************)
(* The rate table of one assignee: which rate covers a day, and how a new  *)
(* rate succeeds the ones in force.  Intervals are closed on both sides;   *)
(* an open end (validTo null) is the value Forever, later than every day.  *)
(***************************************************************************)
EXTENDS Naturals

CONSTANTS
  Rate,     \* ids of rate rows; an id is never given twice
  NoRate,   \* "no rate"
  LastDay,  \* days are 1..LastDay
  Cents     \* hourly rates

ASSUME RateAssumption ==
  /\ NoRate \notin Rate
  /\ LastDay \in Nat \ {0}
  /\ Cents \subseteq Nat

Day     == 1..LastDay
Forever == LastDay + 1

(* A row of assignee_rates, before, while and after it is in the table.    *)
Row == [state : {"unused", "live", "removed"}, from : Nat, to : Nat, cents : Nat]

Unused == [state |-> "unused", from |-> 0, to |-> 0, cents |-> 0]

LiveIn(table) == {r \in Rate : table[r].state = "live"}

(* The constraint no_overlapping_rates on daterange('[]'), which also      *)
(* refuses a range that ends before it starts, and the unique start.       *)
Exclusive(table) ==
  \A r \in LiveIn(table) :
    /\ table[r].from <= table[r].to
    /\ \A q \in LiveIn(table) \ {r} :
         table[r].to < table[q].from \/ table[q].to < table[r].from

(* resolveRate: of the rates that cover the day, the one that starts last. *)
Covering(table, day) == {r \in LiveIn(table) : table[r].from <= day /\ day <= table[r].to}

Resolve(table, day) ==
  LET rates == Covering(table, day)
  IN  IF rates = {} THEN NoRate
      ELSE CHOOSE r \in rates : \A q \in rates : table[q].from <= table[r].from

-----------------------------------------------------------------------------
(* planRateSuccession: rates that meet the new one are capped on the day   *)
(* before it starts; one of them that starts on or after it blocks it.     *)

(* A faulty variant of DayBefore, used by nothing below.                   *)
SameDay(day) == day

DayBefore(day) == day - 1

Caps(table, from, to) ==
  {r \in LiveIn(table) : table[r].from <= to /\ table[r].to >= from}

PlanOk(table, from, to) == \A r \in Caps(table, from, to) : table[r].from < from

(* The writes of createWithSuccession, with caps that may come from an     *)
(* earlier reading of the table.                                           *)
NewRow(from, to, cents) == [state |-> "live", from |-> from, to |-> to, cents |-> cents]

CappedRow(row, from) ==
  [state |-> row.state, from |-> row.from, to |-> DayBefore(from), cents |-> row.cents]

Succeed(table, caps, new, from, to, cents) ==
  [r \in Rate |-> IF r = new THEN NewRow(from, to, cents)
                  ELSE IF r \in caps THEN CappedRow(table[r], from)
                  ELSE table[r]]

-----------------------------------------------------------------------------
(* What a succession owes to the days: the table stays without overlaps,   *)
(* days before the new rate keep the rate they had, the days of the new    *)
(* rate get it, and a later day keeps its rate unless that one was capped, *)
(* in which case it has none.                                              *)
SuccessionExact(table, new, from, to, cents) ==
  LET after == Succeed(table, Caps(table, from, to), new, from, to, cents)
  IN  /\ Exclusive(after)
      /\ \A day \in Day :
           Resolve(after, day) =
             IF day < from THEN Resolve(table, day)
             ELSE IF day <= to THEN new
             ELSE IF Resolve(table, day) \in Caps(table, from, to) THEN NoRate
             ELSE Resolve(table, day)
=============================================================================
