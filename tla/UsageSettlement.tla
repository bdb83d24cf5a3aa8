--------------------------- MODULE UsageSettlement ---------------------------
(***************************************************************************)
(* Quota of one user: permission checks, reservations, balances per        *)
(* accounting period and usage records.  Each operation is one             *)
(* serializable transaction, so it is one step; callers repeat operations  *)
(* freely and in any order, and an operation that ends with an error       *)
(* changes nothing.                                                        *)
(*                                                                         *)
(* Abstractions: membership, level and feature flags are one gate; amounts *)
(* are small integers; the month does not change within a transaction.     *)
(* A task stands for its reservation, whose id is made from the task's.    *)
(***************************************************************************)
EXTENDS Integers, FiniteSets

CONSTANTS
  Tasks,            \* product tasks
  Checks,           \* permission check ids
  Demands,          \* what an admission may ask for, amounts per meter
  Amounts,          \* what a Run may have used of the generation meter
  QuotaLimit,       \* limit of a balance
  Adjustments,      \* what an operator adds to a balance at a time
  MaxPeriod,        \* bound: accounting periods
  MaxAdjustment     \* bound: how far an operator adjusts a balance

Meters == {"generation", "token"}
Periods == 1..MaxPeriod

ASSUME UsageAssumption ==
  /\ Demands \subseteq [Meters -> Nat]
  /\ Amounts \subseteq Nat \ {0} /\ Adjustments \subseteq Int
  /\ QuotaLimit \in Nat /\ MaxPeriod \in Nat \ {0} /\ MaxAdjustment \in Nat
  /\ "none" \notin Checks

VARIABLES
  period,           \* the current accounting period
  gate,             \* membership and flags allow the task type
  permission,       \* permission_checks: status per check
  quota,            \* quota_reservations with their items, per task
  balance,          \* quota_balances per period and meter
  usage             \* usage_records of the generation meter

usageVars == <<period, gate, permission, quota, balance, usage>>

QuotaStatuses == {"none", "reserved", "settled", "released", "expired"}

UsageTypeOK ==
  /\ period \in Periods
  /\ gate \in BOOLEAN
  /\ permission \in [Checks -> {"none", "allowed", "denied"}]
  /\ \A t \in Tasks : /\ quota[t].status \in QuotaStatuses
                      /\ quota[t].check \in Checks \cup {"none"}
                      /\ quota[t].period \in Periods
  /\ \A p \in Periods, m \in Meters :
       balance[p][m].used \in Nat /\ balance[p][m].reserved \in Nat
  /\ \A u \in usage : u.task \in Tasks /\ u.period \in Periods /\ u.amount \in Amounts

UsageInit ==
  /\ period = 1
  /\ gate = TRUE
  /\ permission = [k \in Checks |-> "none"]
  /\ quota = [t \in Tasks |-> [status |-> "none", check |-> "none", period |-> 1,
                               want |-> [m \in Meters |-> 0]]]
  /\ balance = [p \in Periods |-> [m \in Meters |-> [used |-> 0, reserved |-> 0, adjusted |-> 0]]]
  /\ usage = {}

-------------------------------------------------------------------------------
(* Admission *)

Remaining(m) ==
  QuotaLimit + balance[period][m].adjusted - balance[period][m].used - balance[period][m].reserved

\* Every positive meter is checked before anything is written.
Fits(want) == \A m \in Meters : want[m] > 0 => Remaining(m) >= want[m]

SetPermission(k, s) == permission' = [permission EXCEPT ![k] = s]

\* The meters of a period with more reserved, and with less.
Reserving(meters, want) == [m \in Meters |-> [meters[m] EXCEPT !.reserved = @ + want[m]]]
Returning(meters, want) == [m \in Meters |-> [meters[m] EXCEPT !.reserved = @ - want[m]]]

\* The reservation of a task with all its items, in the current period.
CreateReservation(k, t, want) ==
  /\ quota' = [quota EXCEPT ![t] = [status |-> "reserved", check |-> k, period |-> period,
                                    want |-> want]]
  /\ balance' = [balance EXCEPT ![period] = Reserving(@, want)]

\* A check that was denied stays denied.  The gate comes before the reservation:
\* a repeated admission is allowed only while its reservation is held for the
\* same demand.
AdmitAndReserve(k, t, want) ==
  /\ permission[k] # "denied" /\ gate
  /\ SetPermission(k, "allowed")
  /\ \/ /\ quota[t].check = k /\ quota[t].status = "reserved" /\ quota[t].want = want
        /\ UNCHANGED <<quota, balance>>
     \/ /\ quota[t].check = "none" /\ Fits(want)
        /\ CreateReservation(k, t, want)
  /\ UNCHANGED <<period, gate, usage>>

\* A denial is committed, so that a repetition is denied as well.
DenyAdmission(k, t, want) ==
  /\ permission[k] # "denied"
  /\ ~gate \/ (quota[t].check # k /\ ~Fits(want))
  /\ SetPermission(k, "denied")
  /\ UNCHANGED <<period, gate, quota, balance, usage>>

\* The reservation of a check that another service made; a demand that does not
\* fit denies the check here too.
ReserveForCheck(k, t, want) ==
  /\ permission[k] = "allowed"
  /\ quota[t].check = "none"
  /\ \/ Fits(want) /\ CreateReservation(k, t, want) /\ UNCHANGED permission
     \/ ~Fits(want) /\ SetPermission(k, "denied") /\ UNCHANGED <<quota, balance>>
  /\ UNCHANGED <<period, gate, usage>>

-------------------------------------------------------------------------------
(* The end of a reservation *)

\* What a reservation holds goes back to the balance of its own period.
Returned(t) == [balance EXCEPT ![quota[t].period] = Returning(@, quota[t].want)]

\* Only a held reservation changes its status; repeating its status changes
\* nothing, any other one is refused.
UpdateReservationStatus(t, status) ==
  /\ \/ /\ quota[t].status = "reserved"
        /\ \A m \in Meters : balance[quota[t].period][m].reserved >= quota[t].want[m]
        /\ balance' = Returned(t)
     \/ quota[t].status = status /\ UNCHANGED balance
  /\ quota' = [quota EXCEPT ![t].status = status]
  /\ UNCHANGED <<period, gate, permission, usage>>

ReleaseReservation(t) == UpdateReservationStatus(t, "released")
ExpireReservation(t) == UpdateReservationStatus(t, "expired")

Recorded(t) == \E u \in usage : u.task = t

\* One record of a task and its attempt, charged to the period it belongs to; a
\* repetition must name the same amount.
Charged(b, p, amount) == [b EXCEPT ![p]["generation"].used = @ + amount]
RecordFor(t, p, amount) == [task |-> t, period |-> p, amount |-> amount]

CreateUsageRecordOnce(t, amount) ==
  /\ ~Recorded(t)
  /\ usage' = usage \cup {RecordFor(t, period, amount)}
  /\ balance' = Charged(balance, period, amount)
  /\ UNCHANGED <<period, gate, permission, quota>>

\* Mutant: a late settlement gives the reservation back once more.
SettledBalanceAgain(t) == Returned(t)

\* A released or expired reservation was given back before.
SettledBalance(t) == IF quota[t].status = "reserved" THEN Returned(t) ELSE balance

\* The record and the end of the reservation, in one transaction; the record
\* belongs to the period of the reservation.
SettleUsageOnce(t, amount) ==
  LET p == quota[t].period IN
  /\ quota[t].status # "none"
  /\ \/ ~Recorded(t) /\ usage' = usage \cup {RecordFor(t, p, amount)}
                     /\ balance' = Charged(SettledBalance(t), p, amount)
     \/ (\E u \in usage : u.task = t /\ u.amount = amount) /\ balance' = SettledBalance(t)
                                                          /\ UNCHANGED usage
  /\ quota' = [quota EXCEPT ![t].status = "settled"]
  /\ UNCHANGED <<period, gate, permission>>

\* An operator's correction of the generation meter, the default one.
CreateQuotaAdjustment(delta) ==
  /\ balance[period]["generation"].adjusted + delta \in -MaxAdjustment..MaxAdjustment
  /\ balance' = [balance EXCEPT ![period]["generation"].adjusted = @ + delta]
  /\ UNCHANGED <<period, gate, permission, quota, usage>>

-------------------------------------------------------------------------------

NextPeriod ==
  /\ period < MaxPeriod
  /\ period' = period + 1
  /\ UNCHANGED <<gate, permission, quota, balance, usage>>

ChangeMembership ==
  /\ gate' = ~gate
  /\ UNCHANGED <<period, permission, quota, balance, usage>>

UsageNext ==
  \/ NextPeriod \/ ChangeMembership
  \/ \E t \in Tasks :
       \/ ReleaseReservation(t) \/ ExpireReservation(t)
       \/ \E k \in Checks, w \in Demands :
            AdmitAndReserve(k, t, w) \/ DenyAdmission(k, t, w) \/ ReserveForCheck(k, t, w)
       \/ \E a \in Amounts : CreateUsageRecordOnce(t, a) \/ SettleUsageOnce(t, a)
  \/ \E d \in Adjustments : CreateQuotaAdjustment(d)

UsageSpec == UsageInit /\ [][UsageNext]_usageVars

-------------------------------------------------------------------------------

\* What rows hold or record of a meter in a period, unit by unit.
ReservedUnits(p, m) ==
  UNION {{<<t, n>> : n \in 1 .. quota[t].want[m]} :
         t \in {t \in Tasks : quota[t].status = "reserved" /\ quota[t].period = p}}
UsedUnits(p, m) ==
  IF m = "generation" THEN UNION {{<<u, n>> : n \in 1 .. u.amount} : u \in {u \in usage : u.period = p}} ELSE {}

\* The balances are what the rows say, however often and in whatever order
\* admissions, settlements, releases and expiries were repeated, also across a
\* change of period: what is reserved is held by reservations of that period,
\* what is used is recorded once per task.
BalancesMatch ==
  \A p \in Periods, m \in Meters :
    /\ balance[p][m].reserved = Cardinality(ReservedUnits(p, m))
    /\ balance[p][m].used = Cardinality(UsedUnits(p, m))
===============================================================================
