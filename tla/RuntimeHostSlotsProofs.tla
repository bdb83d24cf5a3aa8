------------------------ MODULE RuntimeHostSlotsProofs ------------------------
(***************************************************************************)
(* The typing of RuntimeHostSlots and what admission rests on: the         *)
(* counters of a Host are the number of its Slots and stay within its      *)
(* limits, and a closed Slot stays closed.  Then what the writers of one   *)
(* Dispatch, which share no lock that outlives a transaction, may not do   *)
(* to each other: the fence of a recovery claim, the terminal states, and  *)
(* the one acceptance.                                                     *)
(***************************************************************************)
EXTENDS RuntimeHostSlots, FiniteSetTheorems, TLAPS

-------------------------------------------------------------------------------
(* Types *)

\* A worker in the middle of a recovery has a Dispatch.
WorkerHasSlot == \A w \in Workers : worker[w].pc # "idle" => worker[w].slot \in Slots

\* An incremented counter is still a counter.
LEMMA IncrementedType ==
  ASSUME NEW c \in [Hosts -> [Dims -> Nat]], NEW h, NEW scope
  PROVE  Incremented(c, h, scope) \in [Hosts -> [Dims -> Nat]]
<1> DEFINE row == [d \in Dims |-> IF d \in Touched(scope) THEN c[h][d] + 1 ELSE c[h][d]]
<1>1. h \in Hosts => row \in [Dims -> Nat]
  OBVIOUS
<1>2. Incremented(c, h, scope) = [c EXCEPT ![h] = row]
  BY DEF Incremented
<1> HIDE DEF row
<1>3. QED BY <1>1, <1>2

\* The condition of the decrement keeps a counter from going below zero.
LEMMA DecrementedType ==
  ASSUME NEW c \in [Hosts -> [Dims -> Nat]], NEW h, NEW scope, Countable(c, h, scope)
  PROVE  Decremented(c, h, scope) \in [Hosts -> [Dims -> Nat]]
<1> DEFINE row == [d \in Dims |-> IF d \in Touched(scope) THEN c[h][d] - 1 ELSE c[h][d]]
<1>1. h \in Hosts => row \in [Dims -> Nat]
  BY DEF Countable
<1>2. Decremented(c, h, scope) = [c EXCEPT ![h] = row]
  BY DEF Decremented
<1> HIDE DEF row
<1>3. QED BY <1>1, <1>2

\* A Slot row with another state is a Slot row.
LEMMA SlotStateType ==
  ASSUME TypeOK, NEW s, NEW state \in SlotStates
  PROVE  [slot EXCEPT ![s].state = state] \in [Slots -> SlotRow]
BY DEF TypeOK, SlotRow

\* Acceptance keeps the rows it writes well formed.
LEMMA AcceptSlotType ==
  ASSUME TypeOK, NEW s \in Slots, AcceptSlot(s)
  PROVE  /\ reserved' \in [Hosts -> [Dims -> Nat]]
         /\ active' \in [Hosts -> [Dims -> Nat]]
         /\ slot' \in [Slots -> SlotRow]
<1>1. "accepted" \in SlotStates
  BY DEF SlotStates
<1>2. QED BY <1>1, IncrementedType, DecrementedType, SlotStateType DEF TypeOK, AcceptSlot

\* Closing a Slot keeps the rows it writes well formed.
LEMMA CloseSlotType ==
  ASSUME TypeOK, NEW s \in Slots, NEW state \in ClosedSlot, CloseSlot(s, state)
  PROVE  /\ reserved' \in [Hosts -> [Dims -> Nat]]
         /\ active' \in [Hosts -> [Dims -> Nat]]
         /\ slot' \in [Slots -> SlotRow]
<1>1. state \in SlotStates
  BY DEF SlotStates, ClosedSlot
<1>2. [slot EXCEPT ![s].state = state] \in [Slots -> SlotRow]
  BY <1>1, SlotStateType
<1>3. CASE slot[s].state = "reserved"
  <2>1. /\ Countable(reserved, slot[s].host, slot[s].scope)
        /\ reserved' = Decremented(reserved, slot[s].host, slot[s].scope)
        /\ slot' = [slot EXCEPT ![s].state = state]
        /\ active' = active
    BY <1>3 DEF CloseSlot, ClosedSlot
  <2>2. QED BY <1>2, <2>1, DecrementedType DEF TypeOK
<1>4. CASE slot[s].state = "accepted"
  <2>1. /\ Countable(active, slot[s].host, slot[s].scope)
        /\ active' = Decremented(active, slot[s].host, slot[s].scope)
        /\ slot' = [slot EXCEPT ![s].state = state]
        /\ reserved' = reserved
    BY <1>4 DEF CloseSlot, ClosedSlot
  <2>2. QED BY <1>2, <2>1, DecrementedType DEF TypeOK
<1>5. CASE slot[s].state \in ClosedSlot
  BY <1>5 DEF TypeOK, CloseSlot, ClosedSlot
<1>6. QED BY <1>3, <1>4, <1>5 DEF CloseSlot

\* Outdating what the workers read changes neither where they are nor
\* their Dispatch.
LEMMA OutdatedType ==
  ASSUME TypeOK, WorkerHasSlot, NEW s
  PROVE  /\ Outdated(s) \in [Workers -> WorkerState]
         /\ \A w \in Workers : Outdated(s)[w].pc = worker[w].pc /\ Outdated(s)[w].slot = worker[w].slot
BY DEF TypeOK, WorkerHasSlot, Outdated, WorkerState

\* A Dispatch row with another state is a Dispatch row.
LEMMA SetDispatchType ==
  ASSUME TypeOK, NEW s, NEW state \in DispatchStates, SetDispatch(s, state)
  PROVE  dispatch' \in [Slots -> DispatchRow]
BY DEF TypeOK, SetDispatch, DispatchRow

\* A Run record with another status is a Run record.
LEMMA RecordStatusType ==
  ASSUME TypeOK, NEW r, NEW status \in {"running"} \cup Outcomes
  PROVE  [record EXCEPT ![r].status = status] \in [Runs -> RecordRow]
BY DEF TypeOK, RecordRow

\* A Host row with another status is a Host row.
LEMMA HostStatusType ==
  ASSUME TypeOK, NEW h, NEW status \in HostStates
  PROVE  [host EXCEPT ![h].status = status] \in [Hosts -> HostRow]
BY DEF TypeOK, HostRow

\* A Host step keeps the types.
LEMMA HostStepType ==
  TypeOK /\ WorkerHasSlot /\ HostStep => TypeOK' /\ WorkerHasSlot'
<1> SUFFICES ASSUME TypeOK, WorkerHasSlot, HostStep
             PROVE  TypeOK' /\ WorkerHasSlot'
  OBVIOUS
<1>a. \A h : \A status \in HostStates : [host EXCEPT ![h].status = status] \in [Hosts -> HostRow]
  BY HostStatusType
<1> USE DEF TypeOK, WorkerHasSlot, hostVars, sweepVars
<1>1. CASE \E h \in Hosts : RegisterHost(h)
  <2>1. \A max \in Limits : max \in [Dims -> Nat]
    BY ConstantsAssumption
  <2>2. QED BY <1>1, <2>1 DEF RegisterHost, HostRow, HostStates
<1>2. CASE \E h \in Hosts : HeartbeatHost(h)
  <2>1. host' \in [Hosts -> HostRow]
    <3>1. PICK h \in Hosts : HeartbeatHost(h)
      BY <1>2
    <3>2. host' = [host EXCEPT ![h].status = "ready"]
      BY <3>1 DEF HeartbeatHost
    <3>3. QED BY <1>a, <3>2 DEF HostStates
  <2>2. QED BY <1>2, <2>1 DEF HeartbeatHost
<1>3. CASE \E h \in Hosts : DrainHost(h)
  <2>1. host' \in [Hosts -> HostRow]
    <3>1. PICK h \in Hosts : DrainHost(h)
      BY <1>3
    <3>2. host' = [host EXCEPT ![h].status = "draining"]
      BY <3>1 DEF DrainHost
    <3>3. QED BY <1>a, <3>2 DEF HostStates
  <2>2. QED BY <1>3, <2>1 DEF DrainHost
<1>4. CASE \E h \in Hosts : HostFoundLate(h)
  <2>1. host' \in [Hosts -> HostRow]
    <3>1. PICK h \in Hosts : HostFoundLate(h)
      BY <1>4
    <3>2. \/ host' = [host EXCEPT ![h].status = "offline"]
          \/ host' = [host EXCEPT ![h].status = "unhealthy"]
      BY <3>1 DEF HostFoundLate
    <3>3. {"offline", "unhealthy"} \subseteq HostStates
      BY DEF HostStates
    <3>4. CASE host' = [host EXCEPT ![h].status = "offline"]
      BY <1>a, <3>3, <3>4
    <3>5. CASE host' = [host EXCEPT ![h].status = "unhealthy"]
      BY <1>a, <3>3, <3>5
    <3>6. QED BY <3>2, <3>4, <3>5
  <2>2. QED BY <1>4, <2>1 DEF HostFoundLate
<1>5. CASE RecalculateHostCounters
  <2>1. \A h, states, d : Cardinality(Counted(h, states, d)) \in Nat
    BY ConstantsAssumption, FS_Subset, FS_CardinalityType DEF Counted
  <2>2. QED BY <1>5, <2>1 DEF RecalculateHostCounters, HostRow
<1>6. QED BY <1>1, <1>2, <1>3, <1>4, <1>5 DEF HostStep

\* A dispatcher step keeps the types.
LEMMA DispatcherStepType ==
  TypeOK /\ WorkerHasSlot /\ DispatcherStep => TypeOK' /\ WorkerHasSlot'
<1> SUFFICES ASSUME TypeOK, WorkerHasSlot, NEW s \in Slots,
                    \/ \E r \in Runs, h \in Hosts, scope \in Scopes : TryReserveSlot(s, r, h, scope)
                    \/ CreateDispatch(s) \/ MarkDispatchSent(s) \/ ConfirmDispatchAccepted(s)
                    \/ MarkDispatchSubmitUnknown(s) \/ MarkDispatchTerminal(s) \/ ReleaseReservation(s)
                    \/ RenewReservation(s) \/ MarkDispatchLeaseLost(s) \/ SlotLeaseExpires(s)
             PROVE  TypeOK' /\ WorkerHasSlot'
  BY DEF DispatcherStep
<1>a. Outdated(s) \in [Workers -> WorkerState] /\ \A w \in Workers :
        Outdated(s)[w].pc = worker[w].pc /\ Outdated(s)[w].slot = worker[w].slot
  BY OutdatedType
<1>b. {"created", "sent", "submit_unknown", "accepted", "recovering", "rejected"} \subseteq DispatchStates
  BY DEF DispatchStates, ActiveDispatch, PreAccept, Outcomes
<1>l. \A row \in SlotRow : [row EXCEPT !.live = FALSE] \in SlotRow
  BY DEF SlotRow
<1> USE DEF TypeOK, WorkerHasSlot, hostVars, sweepVars
<1>1. CASE \E r \in Runs, h \in Hosts, scope \in Scopes : TryReserveSlot(s, r, h, scope)
  <2> PICK r \in Runs, h \in Hosts, scope \in Scopes : TryReserveSlot(s, r, h, scope)
    BY <1>1
  <2>1. slot' \in [Slots -> SlotRow]
    BY DEF TryReserveSlot, SlotRow, SlotStates
  <2>2. reserved' \in [Hosts -> [Dims -> Nat]]
    BY IncrementedType DEF TryReserveSlot
  <2>3. QED BY <2>1, <2>2 DEF TryReserveSlot, OwnerStates
<1>2. CASE CreateDispatch(s)
  <2>1. record' \in [Runs -> RecordRow]
    BY <1>2 DEF CreateDispatch, RecordRow
  <2>2. QED BY <1>2, <1>b, <2>1, SetDispatchType DEF CreateDispatch, OwnerStates
<1>3. CASE MarkDispatchSent(s)
  BY <1>3, <1>a, <1>b, SetDispatchType DEF MarkDispatchSent, OwnerStates
<1>4. CASE ConfirmDispatchAccepted(s)
  <2>1. record' \in [Runs -> RecordRow]
    BY <1>4, RecordStatusType DEF ConfirmDispatchAccepted
  <2>2. QED BY <1>4, <1>a, <1>b, <2>1, SetDispatchType, AcceptSlotType DEF ConfirmDispatchAccepted, OwnerStates
<1>5. CASE MarkDispatchSubmitUnknown(s)
  BY <1>5, <1>a, <1>b, SetDispatchType DEF MarkDispatchSubmitUnknown, OwnerStates
<1>6. CASE MarkDispatchTerminal(s)
  BY <1>6, <1>b, SetDispatchType DEF MarkDispatchTerminal, OwnerStates
<1>7. CASE ReleaseReservation(s)
  BY <1>7, CloseSlotType DEF ReleaseReservation, OwnerStates, ClosedSlot
<1>8. CASE RenewReservation(s)
  BY <1>8, <1>a DEF RenewReservation
<1>9. CASE MarkDispatchLeaseLost(s)
  BY <1>9, <1>a, <1>b, SetDispatchType DEF MarkDispatchLeaseLost
<1>10. CASE SlotLeaseExpires(s)
  <2> DEFINE lapsed == [slot[s] EXCEPT !.live = FALSE]
  <2>1. lapsed \in SlotRow
    BY <1>l
  <2>2. slot' = [slot EXCEPT ![s] = lapsed]
        /\ UNCHANGED <<hostVars, dispatch, record, owner, worker, leases, sweepVars>>
    BY <1>10 DEF SlotLeaseExpires
  <2> HIDE DEF lapsed
  <2>3. slot' \in [Slots -> SlotRow]
    BY <2>1, <2>2
  <2> QED BY <2>2, <2>3
<1>11. QED BY <1>1, <1>2, <1>3, <1>4, <1>5, <1>6, <1>7, <1>8, <1>9, <1>10

\* An event or a terminal result keeps the types.
LEMMA EventStepType ==
  TypeOK /\ WorkerHasSlot /\ EventStep => TypeOK' /\ WorkerHasSlot'
<1> SUFFICES ASSUME TypeOK, WorkerHasSlot, NEW s \in Slots,
                    AppendRunEventAndAdvanceCursor(s) \/ \E outcome \in Reported : ConvergeTerminal(s, outcome)
             PROVE  TypeOK' /\ WorkerHasSlot'
  BY DEF EventStep
<1>a. Outdated(s) \in [Workers -> WorkerState] /\ \A w \in Workers :
        Outdated(s)[w].pc = worker[w].pc /\ Outdated(s)[w].slot = worker[w].slot
  BY OutdatedType
<1> USE DEF TypeOK, WorkerHasSlot, hostVars, sweepVars
<1>1. CASE AppendRunEventAndAdvanceCursor(s)
  BY <1>1, <1>a, SetDispatchType
     DEF AppendRunEventAndAdvanceCursor, DispatchStates, ActiveDispatch
<1>2. ASSUME NEW outcome \in Reported, ConvergeTerminal(s, outcome)
      PROVE  TypeOK' /\ WorkerHasSlot'
  <2>1. outcome \in Outcomes
    BY ConstantsAssumption
  <2>2. record' \in [Runs -> RecordRow]
    BY <1>2, <2>1, RecordStatusType DEF ConvergeTerminal
  <2>3. worker' \in [Workers -> WorkerState] /\ WorkerHasSlot'
    BY <1>2, <1>a DEF ConvergeTerminal
  <2>4. QED BY <1>2, <2>1, <2>2, <2>3, SetDispatchType, CloseSlotType
            DEF ConvergeTerminal, DispatchStates, ClosedSlot
<1>3. QED BY <1>1, <1>2

\* A recovery step keeps the types.
LEMMA RecoveryStepType ==
  TypeOK /\ WorkerHasSlot /\ RecoveryStep => TypeOK' /\ WorkerHasSlot'
<1> SUFFICES ASSUME TypeOK, WorkerHasSlot, RecoveryStep
             PROVE  TypeOK' /\ WorkerHasSlot'
  OBVIOUS
<1>i. Idle \in WorkerState
  BY DEF Idle, WorkerState, DispatchStates
<1>a. \A s : Outdated(s) \in [Workers -> WorkerState] /\ \A w \in Workers :
        Outdated(s)[w].pc = worker[w].pc /\ Outdated(s)[w].slot = worker[w].slot
  BY OutdatedType
<1>b. \A s : \A w \in Workers : /\ [Outdated(s) EXCEPT ![w] = Idle] \in [Workers -> WorkerState]
                                /\ \A v \in Workers : LET W == [Outdated(s) EXCEPT ![w] = Idle] IN
                                     W[v].pc # "idle" => W[v].slot \in Slots
  BY <1>i, <1>a DEF WorkerHasSlot, Idle
<1>c. {"recovering", "accepted", "orphaned", "rejected"} \subseteq DispatchStates
  BY DEF DispatchStates, ActiveDispatch, Outcomes
<1>d. \A s : \A state \in DispatchStates :
        [dispatch EXCEPT ![s].state = state, ![s].claim = "none"] \in [Slots -> DispatchRow]
  BY DEF TypeOK, DispatchRow
<1>1. ASSUME NEW w \in Workers, NEW s \in Slots, ListDispatchRecoveryCandidate(w, s)
      PROVE  TypeOK' /\ WorkerHasSlot'
  <2>1. worker' \in [Workers -> WorkerState] /\ WorkerHasSlot'
    BY <1>1 DEF ListDispatchRecoveryCandidate, TypeOK, WorkerHasSlot, WorkerState, DispatchRow
  <2>2. QED BY <1>1, <2>1 DEF ListDispatchRecoveryCandidate, TypeOK, hostVars, sweepVars
<1>2. ASSUME NEW w \in Workers, AcquireRecoveryLease(w)
      PROVE  TypeOK' /\ WorkerHasSlot'
  <2>1. worker[w].slot \in Slots /\ leases[worker[w].slot] \in Nat
    BY <1>2 DEF AcquireRecoveryLease, WorkerHasSlot, TypeOK
  <2>b. worker \in [Workers -> WorkerState]
    BY DEF TypeOK
  <2> DEFINE n == leases[worker[w].slot] + 1
  <2>a. n \in Nat /\ worker' = [worker EXCEPT ![w].pc = "leased", ![w].fence = n]
    BY <1>2, <2>1 DEF AcquireRecoveryLease
  <2> HIDE DEF n
  <2>2. worker' \in [Workers -> WorkerState] /\ WorkerHasSlot'
    <3>1. worker' \in [Workers -> WorkerState]
      BY <2>a, <2>b DEF WorkerState
    <3>2. QED BY <2>1, <2>a, <2>b, <3>1 DEF WorkerHasSlot, WorkerState
  <2>3. QED BY <1>2, <2>1, <2>2 DEF AcquireRecoveryLease, TypeOK, hostVars, sweepVars
<1>3. ASSUME NEW w \in Workers, ClaimDispatchRecovery(w)
      PROVE  TypeOK' /\ WorkerHasSlot'
  <2>1. dispatch' \in [Slots -> DispatchRow]
    BY <1>3, <1>c DEF ClaimDispatchRecovery, TypeOK, DispatchRow, WorkerState
  <2>2. worker' \in [Workers -> WorkerState] /\ WorkerHasSlot'
    BY <1>3, <1>a DEF ClaimDispatchRecovery, WorkerHasSlot, WorkerState
  <2>3. QED BY <1>3, <2>1, <2>2 DEF ClaimDispatchRecovery, TypeOK, hostVars, sweepVars
<1>4. ASSUME NEW w \in Workers, NEW state \in {"recovering", "accepted"}, AdvanceDispatchRecovery(w, state)
      PROVE  TypeOK' /\ WorkerHasSlot'
  <2>1. dispatch' \in [Slots -> DispatchRow]
    BY <1>4, <1>c, <1>d DEF AdvanceDispatchRecovery
  <2>2. QED BY <1>4, <1>b, <2>1 DEF AdvanceDispatchRecovery, TypeOK, WorkerHasSlot, hostVars, sweepVars
<1>5. ASSUME NEW w \in Workers, RecoverDispatchAccepted(w)
      PROVE  TypeOK' /\ WorkerHasSlot'
  <2>1. worker[w].slot \in Slots
    BY <1>5 DEF RecoverDispatchAccepted, ClaimHeld, WorkerHasSlot
  <2>2. dispatch' \in [Slots -> DispatchRow]
    BY <1>5, <1>c, <1>d DEF RecoverDispatchAccepted
  <2>3. /\ reserved' \in [Hosts -> [Dims -> Nat]]
        /\ active' \in [Hosts -> [Dims -> Nat]]
        /\ slot' \in [Slots -> SlotRow]
    BY <1>5, <2>1, AcceptSlotType DEF RecoverDispatchAccepted, TypeOK
  <2>4. QED BY <1>5, <1>b, <2>2, <2>3 DEF RecoverDispatchAccepted, TypeOK, WorkerHasSlot, sweepVars
<1>6. ASSUME NEW w \in Workers, NEW outcome \in {"orphaned", "rejected"}, FinalizeClaimedDispatch(w, outcome)
      PROVE  TypeOK' /\ WorkerHasSlot'
  <2>1. worker[w].slot \in Slots
    BY <1>6 DEF FinalizeClaimedDispatch, ClaimHeld, WorkerHasSlot
  <2>2. dispatch' \in [Slots -> DispatchRow]
    BY <1>6, <1>c, <1>d DEF FinalizeClaimedDispatch
  <2>3. /\ reserved' \in [Hosts -> [Dims -> Nat]]
        /\ active' \in [Hosts -> [Dims -> Nat]]
        /\ slot' \in [Slots -> SlotRow]
    BY <1>6, <2>1, CloseSlotType DEF FinalizeClaimedDispatch, ClosedSlot
  <2>4. QED BY <1>6, <1>b, <2>2, <2>3 DEF FinalizeClaimedDispatch, TypeOK, WorkerHasSlot, sweepVars
<1>7. ASSUME NEW w \in Workers, AbandonRecovery(w)
      PROVE  TypeOK' /\ WorkerHasSlot'
  <2>1. worker' \in [Workers -> WorkerState] /\ WorkerHasSlot'
    BY <1>7, <1>i DEF AbandonRecovery, TypeOK, WorkerHasSlot, Idle
  <2>2. QED BY <1>7, <2>1 DEF AbandonRecovery, TypeOK, hostVars, sweepVars
<1>8. ASSUME NEW s \in Slots, RecoveryClaimLapses(s)
      PROVE  TypeOK' /\ WorkerHasSlot'
  <2>1. dispatch' \in [Slots -> DispatchRow]
    BY <1>8 DEF RecoveryClaimLapses, TypeOK, DispatchRow
  <2>2. QED BY <1>8, <2>1 DEF RecoveryClaimLapses, TypeOK, WorkerHasSlot, hostVars, sweepVars
<1>9. QED BY <1>1, <1>2, <1>3, <1>4, <1>5, <1>6, <1>7, <1>8 DEF RecoveryStep

\* A step of the sweep keeps the types.
LEMMA SweepStepType ==
  TypeOK /\ WorkerHasSlot /\ SweepStep => TypeOK' /\ WorkerHasSlot'
<1> SUFFICES ASSUME TypeOK, WorkerHasSlot, SweepStep
             PROVE  TypeOK' /\ WorkerHasSlot'
  OBVIOUS
<1> USE DEF TypeOK, WorkerHasSlot, hostVars, sweepVars
<1>1. CASE SelectExpiredReservations
  BY <1>1 DEF SelectExpiredReservations
<1>2. CASE ListActiveDispatchesByHost
  BY <1>2 DEF ListActiveDispatchesByHost
<1>3. ASSUME NEW s \in Slots, ExpireReservation(s)
      PROVE  TypeOK' /\ WorkerHasSlot'
  BY <1>3, CloseSlotType DEF ExpireReservation, ClosedSlot
<1>4. ASSUME NEW s \in Slots, FinalizeOfflineDispatch(s)
      PROVE  TypeOK' /\ WorkerHasSlot'
  <2>1. Outdated(s) \in [Workers -> WorkerState] /\ \A w \in Workers :
          Outdated(s)[w].pc = worker[w].pc /\ Outdated(s)[w].slot = worker[w].slot
    BY OutdatedType
  <2>2. dispatch' \in [Slots -> DispatchRow]
    <3>1. "orphaned" \in DispatchStates
      BY DEF DispatchStates, Outcomes
    <3>2. [dispatch EXCEPT ![s].state = "orphaned", ![s].claim = "none"] \in [Slots -> DispatchRow]
      BY <3>1 DEF DispatchRow
    <3>3. QED BY <1>4, <3>2 DEF FinalizeOfflineDispatch
  <2>3. QED BY <1>4, <2>1, <2>2, CloseSlotType DEF FinalizeOfflineDispatch, ClosedSlot
<1>5. CASE AbandonSweep
  BY <1>5 DEF AbandonSweep
<1>6. CASE ListOfflineHosts
  BY <1>6 DEF ListOfflineHosts
<1>7. QED BY <1>1, <1>2, <1>3, <1>4, <1>5, <1>6 DEF SweepStep

\* The types, with the Dispatch a busy worker has, are an inductive invariant.
LEMMA TypingAlways == Spec => [](TypeOK /\ WorkerHasSlot)
<1>1. Init => TypeOK /\ WorkerHasSlot
  BY DEF Init, TypeOK, WorkerHasSlot, HostRow, HostStates, SlotRow, SlotStates, UnusedSlot,
         DispatchRow, DispatchStates, NoDispatch, RecordRow, OwnerStates, WorkerState, Idle
<1>2. TypeOK /\ WorkerHasSlot /\ [Next]_vars => TypeOK' /\ WorkerHasSlot'
  <2>1. CASE UNCHANGED vars
    BY <2>1 DEF vars, TypeOK, WorkerHasSlot
  <2>2. QED BY <2>1, HostStepType, DispatcherStepType, EventStepType, RecoveryStepType, SweepStepType DEF Next
<1>3. QED BY <1>1, <1>2, PTL DEF Spec

\* Every row keeps its type: the counters, which the code decrements only
\* when they are positive, never become negative, and a worker in the middle
\* of a recovery always has a Dispatch.
THEOREM TypeCorrect == Spec => []TypeOK
BY TypingAlways, PTL

-------------------------------------------------------------------------------
(* Slots and counters *)

\* An active Slot is on a Host and in a scope.
SlotPlaced ==
  \A s \in Slots : slot[s].state \in ActiveSlot => slot[s].host \in Hosts /\ slot[s].scope \in Scopes

\* What admission compares: the counters stay below the registered limits.
CountersWithinLimits ==
  \A h \in Hosts, d \in Dims : active[h][d] + reserved[h][d] <= host[h].max[d]

\* A Host heard of registered limits above zero.
LimitsRegistered ==
  \A h \in Hosts : host[h].status # "absent" => \A d \in Dims : host[h].max[d] > 0

\* The inductive invariant of the counters, with LimitsRegistered.
CountersInv == CountersMatch /\ SlotPlaced /\ CountersWithinLimits

\* The ways a step can touch a Slot, its Host and the counters.
LEMMA SlotSteps ==
  ASSUME WorkerHasSlot, Next
  PROVE  \/ UNCHANGED <<host, reserved, active, slot>>
         \/ HostStep
         \/ \E s \in Slots, r \in Runs, h \in Hosts, scope \in Scopes : TryReserveSlot(s, r, h, scope)
         \/ \E s \in Slots : UNCHANGED host /\ AcceptSlot(s)
         \/ \E s \in Slots, state \in ClosedSlot : UNCHANGED host /\ CloseSlot(s, state)
         \/ \E s \in Slots : SlotLeaseExpires(s)
<1> USE DEF hostVars, ClosedSlot
<1>1. CASE HostStep
  BY <1>1
<1>2. CASE DispatcherStep
  BY <1>2 DEF DispatcherStep, CreateDispatch, MarkDispatchSent, ConfirmDispatchAccepted,
       MarkDispatchSubmitUnknown, MarkDispatchTerminal, ReleaseReservation, RenewReservation, MarkDispatchLeaseLost
<1>3. CASE EventStep
  BY <1>3 DEF EventStep, AppendRunEventAndAdvanceCursor, ConvergeTerminal
<1>4. CASE RecoveryStep
  BY <1>4 DEF RecoveryStep, WorkerHasSlot, ListDispatchRecoveryCandidate, AcquireRecoveryLease,
       ClaimDispatchRecovery, AdvanceDispatchRecovery, RecoverDispatchAccepted, FinalizeClaimedDispatch,
       AbandonRecovery, RecoveryClaimLapses, ClaimHeld
<1>5. CASE SweepStep
  BY <1>5 DEF SweepStep, SelectExpiredReservations, ListOfflineHosts, ListActiveDispatchesByHost, ExpireReservation,
       FinalizeOfflineDispatch, AbandonSweep
<1>6. QED BY <1>1, <1>2, <1>3, <1>4, <1>5 DEF Next

\* What an increment leaves in each counter.
LEMMA IncrementedAt ==
  ASSUME NEW c \in [Hosts -> [Dims -> Nat]], NEW h \in Hosts, NEW scope, NEW g \in Hosts, NEW d \in Dims
  PROVE  Incremented(c, h, scope)[g][d] =
           IF g = h /\ d \in Touched(scope) THEN c[g][d] + 1 ELSE c[g][d]
<1> DEFINE row == [e \in Dims |-> IF e \in Touched(scope) THEN c[h][e] + 1 ELSE c[h][e]]
<1>1. Incremented(c, h, scope) = [c EXCEPT ![h] = row]
  BY DEF Incremented
<1>2. row[d] = IF d \in Touched(scope) THEN c[h][d] + 1 ELSE c[h][d]
  OBVIOUS
<1> HIDE DEF row
<1>3. QED BY <1>1, <1>2

\* What a decrement leaves in each counter.
LEMMA DecrementedAt ==
  ASSUME NEW c \in [Hosts -> [Dims -> Nat]], NEW h \in Hosts, NEW scope, NEW g \in Hosts, NEW d \in Dims
  PROVE  Decremented(c, h, scope)[g][d] =
           IF g = h /\ d \in Touched(scope) THEN c[g][d] - 1 ELSE c[g][d]
<1> DEFINE row == [e \in Dims |-> IF e \in Touched(scope) THEN c[h][e] - 1 ELSE c[h][e]]
<1>1. Decremented(c, h, scope) = [c EXCEPT ![h] = row]
  BY DEF Decremented
<1>2. row[d] = IF d \in Touched(scope) THEN c[h][d] - 1 ELSE c[h][d]
  OBVIOUS
<1> HIDE DEF row
<1>3. QED BY <1>1, <1>2

\* The Slots counted on a Host are finitely many.
LEMMA CountedFinite ==
  ASSUME NEW h, NEW states, NEW d
  PROVE  IsFiniteSet(Counted(h, states, d)) /\ Cardinality(Counted(h, states, d)) \in Nat
BY ConstantsAssumption, FS_Subset, FS_CardinalityType DEF Counted

\* How many Slots of Host h are in a state and counted in dimension d.
Number(h, state, d) == Cardinality(Counted(h, {state}, d))

\* Slot s goes to a new state.
SlotMoves(s, new) == slot' = [slot EXCEPT ![s].state = new]

\* Slot s leaves the number it is counted in and enters that of its new state.
LEMMA NumberMoves ==
  ASSUME TypeOK, NEW s \in Slots, NEW new, SlotMoves(s, new), slot[s].state # new,
         NEW g \in Hosts, NEW state, NEW d \in Dims
  PROVE  Number(g, state, d)' =
           IF g = slot[s].host /\ d \in Touched(slot[s].scope)
           THEN IF new = state THEN Number(g, state, d) + 1
                ELSE IF slot[s].state = state THEN Number(g, state, d) - 1
                ELSE Number(g, state, d)
           ELSE Number(g, state, d)
<1> DEFINE C == Counted(g, {state}, d)
<1>1. \A t \in Slots : /\ slot'[t].host = slot[t].host
                       /\ slot'[t].scope = slot[t].scope
                       /\ slot'[t].state = IF t = s THEN new ELSE slot[t].state
  BY DEF TypeOK, SlotRow, SlotMoves
<1>2. s \in C <=> slot[s].host = g /\ slot[s].state = state /\ d \in Touched(slot[s].scope)
  BY DEF Counted
<1>3. C' = IF g = slot[s].host /\ d \in Touched(slot[s].scope)
           THEN IF new = state THEN C \cup {s} ELSE C \ {s}
           ELSE C
  BY <1>1 DEF Counted
<1>4. IsFiniteSet(C) /\ Cardinality(C) \in Nat
  BY CountedFinite
<1>5. /\ Cardinality(C \cup {s}) = IF s \in C THEN Cardinality(C) ELSE Cardinality(C) + 1
      /\ Cardinality(C \ {s}) = IF s \in C THEN Cardinality(C) - 1 ELSE Cardinality(C)
  BY <1>4, FS_AddElement, FS_RemoveElement
<1>6. Number(g, state, d) = Cardinality(C) /\ Number(g, state, d)' = Cardinality(C')
  BY DEF Number
<1> HIDE DEF C
<1>7. QED BY <1>2, <1>3, <1>5, <1>6

\* Nothing is counted differently when no Slot changes Host, scope or state.
LEMMA NumberKeeps ==
  ASSUME \A s \in Slots : /\ slot'[s].host = slot[s].host
                          /\ slot'[s].scope = slot[s].scope
                          /\ slot'[s].state = slot[s].state
  PROVE  \A g, state, d : Number(g, state, d)' = Number(g, state, d)
BY DEF Number, Counted

\* The counters match in terms of Number.
LEMMA CountersAreNumbers ==
  CountersMatch <=> \A h \in Hosts, d \in Dims :
                      reserved[h][d] = Number(h, "reserved", d) /\ active[h][d] = Number(h, "accepted", d)
BY DEF CountersMatch, Number

\* The counters still match when no Slot changes Host, scope or state.
LEMMA CountersKeep ==
  ASSUME CountersMatch, UNCHANGED <<reserved, active>>,
         \A s \in Slots : /\ slot'[s].host = slot[s].host
                          /\ slot'[s].scope = slot[s].scope
                          /\ slot'[s].state = slot[s].state
  PROVE  CountersMatch'
<1> SUFFICES ASSUME NEW h \in Hosts, NEW d \in Dims
             PROVE  /\ reserved'[h][d] = Number(h, "reserved", d)'
                    /\ active'[h][d] = Number(h, "accepted", d)'
  BY DEF CountersMatch, Number
<1>1. reserved[h][d] = Number(h, "reserved", d) /\ active[h][d] = Number(h, "accepted", d)
  BY CountersAreNumbers
<1>2. QED BY <1>1, NumberKeeps

\* Acceptance moves one Run from the reserved to the active counters.
LEMMA AcceptSlotCounts ==
  ASSUME TypeOK, CountersInv, NEW s \in Slots, AcceptSlot(s), UNCHANGED host
  PROVE  CountersInv'
<1> DEFINE h == slot[s].host
           scope == slot[s].scope
<1>1. /\ slot[s].state = "reserved" /\ h \in Hosts /\ scope \in Scopes
      /\ reserved' = Decremented(reserved, h, scope)
      /\ active' = Incremented(active, h, scope)
      /\ slot' = [slot EXCEPT ![s].state = "accepted"]
  BY DEF AcceptSlot, CountersInv, SlotPlaced, ActiveSlot
<1>2. ASSUME NEW g \in Hosts, NEW d \in Dims
      PROVE  /\ reserved'[g][d] = IF g = h /\ d \in Touched(scope) THEN reserved[g][d] - 1 ELSE reserved[g][d]
             /\ active'[g][d] = IF g = h /\ d \in Touched(scope) THEN active[g][d] + 1 ELSE active[g][d]
  BY <1>1, IncrementedAt, DecrementedAt DEF TypeOK
<1>3. CountersMatch'
  <2> SUFFICES ASSUME NEW g \in Hosts, NEW d \in Dims
               PROVE  /\ reserved'[g][d] = Number(g, "reserved", d)'
                      /\ active'[g][d] = Number(g, "accepted", d)'
    BY DEF CountersMatch, Number
  <2>1. reserved[g][d] = Number(g, "reserved", d) /\ active[g][d] = Number(g, "accepted", d)
    BY CountersAreNumbers DEF CountersInv
  <2>2. SlotMoves(s, "accepted")
    BY <1>1 DEF SlotMoves
  <2>3. QED BY <1>1, <1>2, <2>1, <2>2, NumberMoves
<1>4. SlotPlaced'
  BY <1>1 DEF CountersInv, SlotPlaced, TypeOK, SlotRow, ActiveSlot
<1>5. CountersWithinLimits'
  <2> SUFFICES ASSUME NEW g \in Hosts, NEW d \in Dims
               PROVE  active'[g][d] + reserved'[g][d] <= host'[g].max[d]
    BY DEF CountersWithinLimits
  <2>1. active[g][d] \in Nat /\ reserved[g][d] \in Nat /\ host[g].max[d] \in Nat
    BY DEF TypeOK, HostRow
  <2>2. active[g][d] + reserved[g][d] <= host[g].max[d]
    BY DEF CountersInv, CountersWithinLimits
  <2>3. QED BY <1>2, <2>1, <2>2
<1>6. QED BY <1>3, <1>4, <1>5 DEF CountersInv

\* Closing a Slot takes its Run out of the counters once.
LEMMA CloseSlotCounts ==
  ASSUME TypeOK, CountersInv, NEW s \in Slots, NEW state \in ClosedSlot, CloseSlot(s, state), UNCHANGED host
  PROVE  CountersInv'
<1> DEFINE h == slot[s].host
           scope == slot[s].scope
<1>1. CASE slot[s].state \in ClosedSlot
  <2>1. UNCHANGED <<slot, reserved, active>>
    BY <1>1 DEF CloseSlot, ClosedSlot
  <2>2. CountersMatch'
    BY <2>1, CountersKeep DEF CountersInv
  <2>3. QED BY <2>1, <2>2 DEF CountersInv, SlotPlaced, CountersWithinLimits
<1>2. CASE slot[s].state \in ActiveSlot
  <2>1. /\ h \in Hosts /\ scope \in Scopes
        /\ slot' = [slot EXCEPT ![s].state = state]
        /\ state \notin ActiveSlot
    BY <1>2 DEF CloseSlot, CountersInv, SlotPlaced, ActiveSlot, ClosedSlot
  <2>2. SlotMoves(s, state)
    BY <2>1 DEF SlotMoves
  <2>3. /\ slot[s].state = "reserved" => reserved' = Decremented(reserved, h, scope) /\ active' = active
        /\ slot[s].state = "accepted" => active' = Decremented(active, h, scope) /\ reserved' = reserved
    BY DEF CloseSlot, ClosedSlot
  <2>4. ASSUME NEW g \in Hosts, NEW d \in Dims
        PROVE  /\ reserved'[g][d] = IF g = h /\ d \in Touched(scope) /\ slot[s].state = "reserved"
                                    THEN reserved[g][d] - 1 ELSE reserved[g][d]
               /\ active'[g][d] = IF g = h /\ d \in Touched(scope) /\ slot[s].state = "accepted"
                                  THEN active[g][d] - 1 ELSE active[g][d]
    <3>1. CASE slot[s].state = "reserved"
      BY <2>1, <2>3, <3>1, DecrementedAt DEF TypeOK
    <3>2. CASE slot[s].state = "accepted"
      BY <2>1, <2>3, <3>2, DecrementedAt DEF TypeOK
    <3>3. QED BY <1>2, <3>1, <3>2 DEF ActiveSlot
  <2>5. CountersMatch'
    <3> SUFFICES ASSUME NEW g \in Hosts, NEW d \in Dims
                 PROVE  /\ reserved'[g][d] = Number(g, "reserved", d)'
                        /\ active'[g][d] = Number(g, "accepted", d)'
      BY DEF CountersMatch, Number
    <3>1. reserved[g][d] = Number(g, "reserved", d) /\ active[g][d] = Number(g, "accepted", d)
      BY CountersAreNumbers DEF CountersInv
    <3>2. state \notin {"reserved", "accepted"} /\ slot[s].state # state
      BY <1>2, <2>1 DEF ActiveSlot
    <3>3. QED BY <2>2, <2>4, <3>1, <3>2, NumberMoves
  <2>6. SlotPlaced'
    BY <2>1 DEF CountersInv, SlotPlaced, TypeOK, SlotRow
  <2>7. CountersWithinLimits'
    <3> SUFFICES ASSUME NEW g \in Hosts, NEW d \in Dims
                 PROVE  active'[g][d] + reserved'[g][d] <= host'[g].max[d]
      BY DEF CountersWithinLimits
    <3>1. active[g][d] \in Nat /\ reserved[g][d] \in Nat /\ host[g].max[d] \in Nat
      BY DEF TypeOK, HostRow
    <3>2. active[g][d] + reserved[g][d] <= host[g].max[d]
      BY DEF CountersInv, CountersWithinLimits
    <3>3. QED BY <2>4, <3>1, <3>2
  <2>8. QED BY <2>5, <2>6, <2>7 DEF CountersInv
<1>3. QED BY <1>1, <1>2 DEF CloseSlot, ActiveSlot

\* Three quarters of a limit, rounded, is within the limit.
LEMMA TargetWithinLimit ==
  ASSUME NEW max \in Nat, NEW n \in Nat, n < Target(max), n > 0 \/ max > 0
  PROVE  n + 1 <= max
<1>1. CASE (max * 3 + 3) \div 4 < 1
  BY <1>1 DEF Target
<1>2. CASE ~ ((max * 3 + 3) \div 4 < 1)
  BY <1>2 DEF Target
<1>3. QED BY <1>1, <1>2

\* A reservation is counted and stays within the limits.
LEMMA TryReserveSlotCounts ==
  ASSUME TypeOK, CountersInv, NEW s \in Slots, NEW r \in Runs, NEW h \in Hosts, NEW scope \in Scopes,
         LimitsRegistered, TryReserveSlot(s, r, h, scope)
  PROVE  CountersInv'
<1>1. /\ slot[s].state = "none" /\ host[h].status = "ready" /\ host' = host /\ active' = active
      /\ HasRoom(h, scope)
      /\ reserved' = Incremented(reserved, h, scope)
      /\ slot' = [slot EXCEPT ![s] = [state |-> "reserved", run |-> r, host |-> h, scope |-> scope, live |-> TRUE]]
  BY DEF TryReserveSlot
<1>2. ASSUME NEW g \in Hosts, NEW d \in Dims
      PROVE  reserved'[g][d] = IF g = h /\ d \in Touched(scope) THEN reserved[g][d] + 1 ELSE reserved[g][d]
  BY <1>1, IncrementedAt DEF TypeOK
<1>3. CountersMatch'
  <2> SUFFICES ASSUME NEW g \in Hosts, NEW d \in Dims
               PROVE  /\ reserved'[g][d] = Number(g, "reserved", d)'
                      /\ active'[g][d] = Number(g, "accepted", d)'
    BY DEF CountersMatch, Number
  <2> DEFINE R == Counted(g, {"reserved"}, d)
             A == Counted(g, {"accepted"}, d)
  <2>1. reserved[g][d] = Cardinality(R) /\ active[g][d] = Cardinality(A)
    BY DEF CountersInv, CountersMatch
  <2>2. A' = A /\ R' = IF g = h /\ d \in Touched(scope) THEN R \cup {s} ELSE R
    BY <1>1 DEF Counted, TypeOK, SlotRow
  <2>a. s \notin R
    BY <1>1 DEF Counted
  <2>3. IsFiniteSet(R) /\ s \notin R
    BY <2>a, CountedFinite
  <2>4. Cardinality(R \cup {s}) = Cardinality(R) + 1
    BY <2>3, FS_AddElement
  <2>5. Number(g, "reserved", d)' = Cardinality(R') /\ Number(g, "accepted", d)' = Cardinality(A')
    BY DEF Number
  <2> HIDE DEF R, A
  <2>6. QED BY <1>1, <1>2, <2>1, <2>2, <2>4, <2>5
<1>4. SlotPlaced'
  <2> SUFFICES ASSUME NEW t \in Slots, slot'[t].state \in ActiveSlot
               PROVE  slot'[t].host \in Hosts /\ slot'[t].scope \in Scopes
    BY DEF SlotPlaced
  <2>1. CASE t = s
    <3>1. slot'[s].host = h /\ slot'[s].scope = scope
      BY <1>1 DEF TypeOK
    <3>2. QED BY <2>1, <3>1
  <2>2. CASE t # s
    BY <1>1, <2>2 DEF CountersInv, SlotPlaced, TypeOK
  <2>3. QED BY <2>1, <2>2
<1>5. CountersWithinLimits'
  <2> SUFFICES ASSUME NEW g \in Hosts, NEW d \in Dims
               PROVE  active'[g][d] + reserved'[g][d] <= host'[g].max[d]
    BY DEF CountersWithinLimits
  <2>1. active[g][d] \in Nat /\ reserved[g][d] \in Nat /\ host[g].max[d] \in Nat
    BY DEF TypeOK, HostRow
  <2>2. active[g][d] + reserved[g][d] <= host[g].max[d]
    BY DEF CountersInv, CountersWithinLimits
  <2>3. CASE g = h /\ d \in Touched(scope)
    <3>1. active[g][d] + reserved[g][d] < Target(host[g].max[d])
      BY <1>1, <2>3 DEF HasRoom
    <3>2. host[g].max[d] > 0
      BY <1>1, <2>1, <2>3 DEF LimitsRegistered
    <3>3. active[g][d] + reserved[g][d] + 1 <= host[g].max[d]
      BY <2>1, <3>1, <3>2, TargetWithinLimit
    <3>4. QED BY <1>1, <1>2, <2>1, <2>3, <3>3
  <2>4. CASE ~ (g = h /\ d \in Touched(scope))
    BY <1>1, <1>2, <2>2, <2>4
  <2>5. QED BY <2>3, <2>4
<1>6. QED BY <1>3, <1>4, <1>5 DEF CountersInv

\* A change of status leaves the limits of every Host alone.
LEMMA StatusStepKeepsLimits ==
  ASSUME TypeOK, NEW h \in Hosts, HeartbeatHost(h) \/ DrainHost(h) \/ HostFoundLate(h)
  PROVE  \A g \in Hosts : host'[g].max = host[g].max /\ (host[g].status = "absent" => host'[g].status = "absent")
<1>1. CASE HeartbeatHost(h)
  BY <1>1 DEF HeartbeatHost, TypeOK, HostRow
<1>2. CASE DrainHost(h)
  BY <1>2 DEF DrainHost, TypeOK, HostRow
<1>3. CASE HostFoundLate(h)
  <2>1. host[h].status # "absent"
    BY <1>3 DEF HostFoundLate
  <2>2. CASE host' = [host EXCEPT ![h].status = "offline"]
    BY <2>1, <2>2 DEF TypeOK, HostRow
  <2>3. CASE host' = [host EXCEPT ![h].status = "unhealthy"]
    BY <2>1, <2>3 DEF TypeOK, HostRow
  <2>4. QED BY <1>3, <2>2, <2>3 DEF HostFoundLate
<1>4. QED BY <1>1, <1>2, <1>3

\* A Host step keeps the counters: the recount finds what is there, and a
\* registration refuses limits below the load.
LEMMA HostStepCounts ==
  ASSUME TypeOK, CountersInv, HostStep
  PROVE  CountersInv'
<1>1. slot' = slot
  BY DEF HostStep, RegisterHost, HeartbeatHost, DrainHost, HostFoundLate, RecalculateHostCounters
<1>2. SlotPlaced'
  BY <1>1 DEF CountersInv, SlotPlaced
<1>3. reserved' = reserved /\ active' = active
  <2>1. CASE RecalculateHostCounters
    <3>1. \A h \in Hosts : reserved[h] = [d \in Dims |-> Cardinality(Counted(h, {"reserved"}, d))]
      BY DEF CountersInv, CountersMatch, TypeOK
    <3>2. \A h \in Hosts : active[h] = [d \in Dims |-> Cardinality(Counted(h, {"accepted"}, d))]
      BY DEF CountersInv, CountersMatch, TypeOK
    <3>3. reserved' = reserved
      BY <2>1, <3>1 DEF RecalculateHostCounters, TypeOK
    <3>4. active' = active
      BY <2>1, <3>2 DEF RecalculateHostCounters, TypeOK
    <3>5. QED BY <3>3, <3>4
  <2>2. QED BY <2>1 DEF HostStep, RegisterHost, HeartbeatHost, DrainHost, HostFoundLate
<1>4. CountersMatch'
  BY <1>1, <1>3, CountersKeep DEF CountersInv
<1>5. CountersWithinLimits'
  <2>1. ASSUME NEW h \in Hosts, RegisterHost(h), NEW g \in Hosts, NEW d \in Dims
        PROVE  active[g][d] + reserved[g][d] <= host'[g].max[d]
    <3>1. PICK max \in Limits :
            /\ \A e \in Dims : active[h][e] + reserved[h][e] <= max[e]
            /\ host'[h].max = max
            /\ \A f \in Hosts \ {h} : host'[f] = host[f]
      BY <2>1 DEF RegisterHost, TypeOK
    <3>2. CASE g = h
      BY <3>1, <3>2 DEF TypeOK
    <3>3. CASE g # h
      BY <3>1, <3>3 DEF CountersInv, CountersWithinLimits, TypeOK
    <3>4. QED BY <3>2, <3>3
  <2>2. CASE \E h \in Hosts : HeartbeatHost(h) \/ DrainHost(h) \/ HostFoundLate(h)
    <3>1. \A g \in Hosts : host'[g].max = host[g].max
      BY <2>2, StatusStepKeepsLimits
    <3>2. QED BY <1>3, <3>1 DEF CountersInv, CountersWithinLimits
  <2>3. CASE RecalculateHostCounters
    <3>1. \A g \in Hosts : host'[g].max = host[g].max
      BY <2>3 DEF RecalculateHostCounters, TypeOK, HostRow
    <3>2. QED BY <1>3, <3>1 DEF CountersInv, CountersWithinLimits
  <2>4. QED BY <1>3, <2>1, <2>2, <2>3 DEF HostStep, CountersWithinLimits
<1>6. QED BY <1>2, <1>4, <1>5 DEF CountersInv

\* Only a registration writes limits, and it writes positive ones.
LEMMA LimitsRegisteredKept ==
  ASSUME TypeOK, LimitsRegistered, WorkerHasSlot, Next
  PROVE  LimitsRegistered'
<1>1. CASE \E h \in Hosts : RegisterHost(h)
  <2>1. PICK h \in Hosts, max \in Limits :
          \E recovery : host' = [host EXCEPT ![h] = [status |-> "registering", max |-> max, recovery |-> recovery]]
    BY <1>1 DEF RegisterHost
  <2>2. \A d \in Dims : max[d] > 0
    BY ConstantsAssumption
  <2>3. QED BY <2>1, <2>2 DEF LimitsRegistered, TypeOK
<1>2. CASE \E h \in Hosts : HeartbeatHost(h) \/ DrainHost(h) \/ HostFoundLate(h)
  <2>1. \A g \in Hosts : host'[g].max = host[g].max /\ (host[g].status = "absent" => host'[g].status = "absent")
    BY <1>2, StatusStepKeepsLimits
  <2>2. QED BY <2>1 DEF LimitsRegistered
<1>3. CASE RecalculateHostCounters
  BY <1>3 DEF RecalculateHostCounters, LimitsRegistered, TypeOK, HostRow
<1>4. CASE host' = host
  BY <1>4 DEF LimitsRegistered
<1>5. QED BY <1>1, <1>2, <1>3, <1>4, SlotSteps DEF HostStep, TryReserveSlot, SlotLeaseExpires, hostVars

\* Every step keeps the counters.
LEMMA CountersInvKept ==
  ASSUME TypeOK, WorkerHasSlot, LimitsRegistered, CountersInv, [Next]_vars
  PROVE  CountersInv'
<1>1. CASE UNCHANGED <<host, reserved, active, slot>>
  BY <1>1, CountersKeep DEF CountersInv, SlotPlaced, CountersWithinLimits
<1>2. CASE \E s \in Slots : SlotLeaseExpires(s)
  <2>1. UNCHANGED <<host, reserved, active>>
    BY <1>2 DEF SlotLeaseExpires, hostVars
  <2>2. \A s \in Slots : /\ slot'[s].host = slot[s].host
                         /\ slot'[s].scope = slot[s].scope
                         /\ slot'[s].state = slot[s].state
    BY <1>2 DEF SlotLeaseExpires, TypeOK, SlotRow
  <2>3. QED BY <2>1, <2>2, CountersKeep DEF CountersInv, SlotPlaced, CountersWithinLimits
<1>3. QED BY <1>1, <1>2, SlotSteps, HostStepCounts, TryReserveSlotCounts, AcceptSlotCounts, CloseSlotCounts
          DEF vars

\* The counters, with the limits they respect, are an inductive invariant.
LEMMA CountersInvAlways == Spec => [](CountersInv /\ LimitsRegistered)
<1>1. Init => CountersInv /\ LimitsRegistered
  <2> SUFFICES ASSUME Init PROVE CountersInv /\ LimitsRegistered
    OBVIOUS
  <2>1. \A h \in Hosts, d \in Dims : Counted(h, {"reserved"}, d) = {} /\ Counted(h, {"accepted"}, d) = {}
    BY DEF Init, Counted, UnusedSlot
  <2>2. CountersMatch
    BY <2>1, FS_EmptySet DEF Init, CountersMatch
  <2>3. QED BY <2>2 DEF Init, CountersInv, SlotPlaced, CountersWithinLimits, LimitsRegistered, UnusedSlot, ActiveSlot
<1>2. TypeOK /\ WorkerHasSlot /\ CountersInv /\ LimitsRegistered /\ [Next]_vars => CountersInv' /\ LimitsRegistered'
  BY CountersInvKept, LimitsRegisteredKept DEF vars, LimitsRegistered
<1>3. Spec => [](TypeOK /\ WorkerHasSlot)
  BY TypingAlways
<1>4. QED BY <1>1, <1>2, <1>3, PTL DEF Spec

\* The counters of every Host are the number of its Slots, whatever order
\* acceptance, release, expiry, recovery and convergence come in.
THEOREM CountersAlwaysMatch == Spec => []CountersMatch
<1>1. CountersInv => CountersMatch
  BY DEF CountersInv
<1>2. QED BY <1>1, CountersInvAlways, PTL

\* The active Slots of a Host are as many as both counters say.
LEMMA ActiveAreCounted ==
  ASSUME TypeOK, CountersInv, NEW h \in Hosts, NEW d \in Dims
  PROVE  Cardinality(Counted(h, ActiveSlot, d)) = active[h][d] + reserved[h][d]
<1> DEFINE R == Counted(h, {"reserved"}, d)
           A == Counted(h, {"accepted"}, d)
<1>1. Counted(h, ActiveSlot, d) = R \cup A /\ R \cap A = {}
  BY DEF Counted, ActiveSlot
<1>2. IsFiniteSet(R) /\ IsFiniteSet(A)
  BY CountedFinite
<1>3. reserved[h][d] = Cardinality(R) /\ active[h][d] = Cardinality(A)
  BY DEF CountersInv, CountersMatch
<1>4. reserved[h][d] \in Nat /\ active[h][d] \in Nat
  BY DEF TypeOK
<1> HIDE DEF R, A
<1>5. Cardinality(R \cup A) = Cardinality(R) + Cardinality(A) - Cardinality({})
  BY <1>1, <1>2, FS_Union
<1>6. QED BY <1>1, <1>3, <1>4, <1>5, FS_EmptySet

\* A Host is never given more Runs than the limits it registered: the
\* counters are within them and count every active Slot.
THEOREM HostAlwaysWithinLimits == Spec => []HostWithinLimits
<1>1. CountersInv /\ TypeOK => HostWithinLimits
  BY ActiveAreCounted DEF CountersInv, CountersWithinLimits, HostWithinLimits
<1>2. Spec => []CountersInv
  BY CountersInvAlways, PTL
<1>3. QED BY <1>1, <1>2, TypingAlways, PTL

\* No step writes a closed Slot.
LEMMA ClosedSlotStays ==
  ASSUME TypeOK, WorkerHasSlot, [Next]_vars, NEW s \in Slots, slot[s].state \in ClosedSlot
  PROVE  slot'[s] = slot[s]
<1>1. slot[s].state \notin {"none", "reserved", "accepted"}
  BY DEF ClosedSlot
<1>2. CASE \E t \in Slots, r \in Runs, h \in Hosts, scope \in Scopes : TryReserveSlot(t, r, h, scope)
  BY <1>1, <1>2 DEF TryReserveSlot, TypeOK
<1>3. CASE \E t \in Slots : AcceptSlot(t)
  BY <1>1, <1>3 DEF AcceptSlot, TypeOK
<1>4. CASE \E t \in Slots, state \in ClosedSlot : CloseSlot(t, state)
  <2>1. PICK t \in Slots, state \in ClosedSlot : CloseSlot(t, state)
    BY <1>4
  <2>2. slot' = slot \/ (slot[t].state \in {"reserved", "accepted"} /\ slot' = [slot EXCEPT ![t].state = state])
    BY <2>1 DEF CloseSlot
  <2>3. CASE slot[t].state \in {"reserved", "accepted"} /\ slot' = [slot EXCEPT ![t].state = state]
    <3>1. s # t
      BY <1>1, <2>3
    <3>2. QED BY <2>3, <3>1 DEF TypeOK
  <2>4. QED BY <2>2, <2>3
<1>5. CASE \E t \in Slots : SlotLeaseExpires(t)
  BY <1>1, <1>5 DEF SlotLeaseExpires, ActiveSlot, TypeOK
<1>6. CASE HostStep
  BY <1>6 DEF HostStep, RegisterHost, HeartbeatHost, DrainHost, HostFoundLate, RecalculateHostCounters
<1>7. CASE UNCHANGED slot
  BY <1>7
<1>8. QED BY <1>2, <1>3, <1>4, <1>5, <1>6, <1>7, SlotSteps DEF vars

\* A Slot once released or expired is never used again: acceptance wants a
\* reserved Slot, release leaves a closed one alone, and a reservation is a
\* new row.
THEOREM ClosedSlotAlwaysFinal == Spec => ClosedSlotIsFinal
<1>1. TypeOK /\ WorkerHasSlot /\ [Next]_vars
        => [\A s \in Slots : slot[s].state \in ClosedSlot => slot'[s] = slot[s]]_vars
  BY ClosedSlotStays
<1>2. QED BY <1>1, TypingAlways, PTL DEF Spec, ClosedSlotIsFinal

-------------------------------------------------------------------------------
(* Fencing tokens *)

\* Tokens are issued in order, and a worker whose reading of the row is still
\* current holds a token newer than the one on the row.
FenceInv ==
  /\ \A s \in Slots : dispatch[s].fence <= leases[s]
  /\ \A w \in Workers :
       worker[w].pc \in {"leased", "claimed"} => worker[w].fence <= leases[worker[w].slot]
  /\ \A w \in Workers :
       worker[w].pc = "leased" /\ worker[w].fresh => dispatch[worker[w].slot].fence < worker[w].fence

\* A step that issues no token and writes none to a Dispatch, and at most
\* sends workers home or outdates what they read.
NoTokenMoves ==
  /\ leases' = leases
  /\ \A s \in Slots : dispatch'[s].fence = dispatch[s].fence /\ dispatch'[s].by = dispatch[s].by
  /\ \A w \in Workers :
       \/ worker'[w].pc \in {"idle", "listed"}
       \/ /\ worker'[w].pc = worker[w].pc
          /\ worker'[w].slot = worker[w].slot
          /\ worker'[w].fence = worker[w].fence
          /\ worker'[w].fresh => worker[w].fresh

\* An outdated worker keeps its place and its token and cannot claim.
LEMMA OutdatedKeeps ==
  ASSUME TypeOK, NEW s, NEW w \in Workers
  PROVE  /\ Outdated(s)[w].pc = worker[w].pc
         /\ Outdated(s)[w].slot = worker[w].slot
         /\ Outdated(s)[w].fence = worker[w].fence
         /\ Outdated(s)[w].fresh => worker[w].fresh
         /\ worker[w].slot = s => ~ Outdated(s)[w].fresh
BY DEF TypeOK, Outdated, WorkerState

\* A change of state leaves the claim of every Dispatch alone.
LEMMA SetDispatchKeeps ==
  ASSUME TypeOK, NEW s, NEW state, SetDispatch(s, state)
  PROVE  \A t \in Slots : dispatch'[t].fence = dispatch[t].fence /\ dispatch'[t].by = dispatch[t].by
BY DEF TypeOK, SetDispatch, DispatchRow

\* Only the recovery lock issues a token and only a claim writes one.
LEMMA TokenSteps ==
  ASSUME TypeOK, WorkerHasSlot, [Next]_vars
  PROVE  \/ NoTokenMoves
         \/ \E w \in Workers : AcquireRecoveryLease(w) \/ ClaimDispatchRecovery(w)
<1>a. ASSUME NEW s, worker' = Outdated(s) \/ worker' = worker
      PROVE  \A w \in Workers : /\ worker'[w].pc = worker[w].pc
                                /\ worker'[w].slot = worker[w].slot
                                /\ worker'[w].fence = worker[w].fence
                                /\ worker'[w].fresh => worker[w].fresh
  BY <1>a, OutdatedKeeps
<1>b. ASSUME NEW s \in Slots, NEW w \in Workers, worker' = [Outdated(s) EXCEPT ![w] = Idle]
      PROVE  \A v \in Workers : \/ worker'[v].pc \in {"idle", "listed"}
                                \/ /\ worker'[v].pc = worker[v].pc
                                   /\ worker'[v].slot = worker[v].slot
                                   /\ worker'[v].fence = worker[v].fence
                                   /\ worker'[v].fresh => worker[v].fresh
  BY <1>b, OutdatedKeeps, OutdatedType DEF Idle
<1>c. ASSUME NEW s \in Slots, NEW state, NEW claim, dispatch' = [dispatch EXCEPT ![s].state = state, ![s].claim = claim]
      PROVE  \A t \in Slots : dispatch'[t].fence = dispatch[t].fence /\ dispatch'[t].by = dispatch[t].by
  BY <1>c DEF TypeOK, DispatchRow
<1>1. CASE UNCHANGED <<dispatch, worker, leases>>
  BY <1>1 DEF NoTokenMoves
<1>2. CASE HostStep
  BY <1>2 DEF HostStep, RegisterHost, HeartbeatHost, DrainHost, HostFoundLate, RecalculateHostCounters, NoTokenMoves
<1>3. CASE DispatcherStep
  <2>1. PICK s \in Slots : /\ leases' = leases
                           /\ worker' = Outdated(s) \/ worker' = worker
                           /\ dispatch' = dispatch \/ \E state : SetDispatch(s, state)
    BY <1>3 DEF DispatcherStep, TryReserveSlot, CreateDispatch, MarkDispatchSent, ConfirmDispatchAccepted,
         MarkDispatchSubmitUnknown, MarkDispatchTerminal, ReleaseReservation, RenewReservation,
         MarkDispatchLeaseLost, SlotLeaseExpires
  <2>2. QED BY <2>1, <1>a, SetDispatchKeeps DEF NoTokenMoves
<1>4. CASE EventStep
  <2>1. PICK s \in Slots : /\ leases' = leases
                           /\ worker' = Outdated(s) \/ worker' = worker
                           /\ dispatch' = dispatch \/ \E state : SetDispatch(s, state)
    BY <1>4 DEF EventStep, AppendRunEventAndAdvanceCursor, ConvergeTerminal
  <2>2. QED BY <2>1, <1>a, SetDispatchKeeps DEF NoTokenMoves
<1>5. CASE RecoveryStep
  <2>1. CASE \E w \in Workers, s \in Slots : ListDispatchRecoveryCandidate(w, s)
    BY <2>1 DEF ListDispatchRecoveryCandidate, NoTokenMoves, TypeOK
  <2>2. ASSUME NEW w \in Workers,
               \/ \E state \in {"recovering", "accepted"} : AdvanceDispatchRecovery(w, state)
               \/ RecoverDispatchAccepted(w)
               \/ \E outcome \in {"orphaned", "rejected"} : FinalizeClaimedDispatch(w, outcome)
        PROVE  NoTokenMoves
    <3> DEFINE s == worker[w].slot
    <3>1. /\ leases' = leases
          /\ worker' = [Outdated(s) EXCEPT ![w] = Idle]
          /\ \E state : dispatch' = [dispatch EXCEPT ![s].state = state, ![s].claim = "none"]
      BY <2>2 DEF AdvanceDispatchRecovery, RecoverDispatchAccepted, FinalizeClaimedDispatch
    <3>2. s \in Slots
      BY <2>2 DEF AdvanceDispatchRecovery, RecoverDispatchAccepted, FinalizeClaimedDispatch, ClaimHeld, WorkerHasSlot
    <3> HIDE DEF s
    <3>3. \A t \in Slots : dispatch'[t].fence = dispatch[t].fence /\ dispatch'[t].by = dispatch[t].by
      BY <3>1, <3>2, <1>c
    <3>4. \A v \in Workers :
            \/ worker'[v].pc \in {"idle", "listed"}
            \/ /\ worker'[v].pc = worker[v].pc
               /\ worker'[v].slot = worker[v].slot
               /\ worker'[v].fence = worker[v].fence
               /\ worker'[v].fresh => worker[v].fresh
      BY <3>1, <3>2, <1>b
    <3>5. leases' = leases
      BY <3>1
    <3>6. QED BY <3>3, <3>4, <3>5 DEF NoTokenMoves
  <2>3. CASE \E w \in Workers : AbandonRecovery(w)
    BY <2>3 DEF AbandonRecovery, NoTokenMoves, TypeOK, Idle
  <2>4. CASE \E s \in Slots : RecoveryClaimLapses(s)
    BY <2>4 DEF RecoveryClaimLapses, NoTokenMoves, TypeOK, DispatchRow
  <2>5. QED BY <1>5, <2>1, <2>2, <2>3, <2>4 DEF RecoveryStep
<1>6. CASE SweepStep
  <2>1. CASE \E s \in Slots : FinalizeOfflineDispatch(s)
    <3>1. PICK s \in Slots : FinalizeOfflineDispatch(s)
      BY <2>1
    <3>2. /\ leases' = leases
          /\ worker' = Outdated(s) \/ worker' = worker
          /\ dispatch' = dispatch \/ dispatch' = [dispatch EXCEPT ![s].state = "orphaned", ![s].claim = "none"]
      BY <3>1 DEF FinalizeOfflineDispatch
    <3>3. \A t \in Slots : dispatch'[t].fence = dispatch[t].fence /\ dispatch'[t].by = dispatch[t].by
      BY <3>2, <1>c
    <3>4. \A w \in Workers :
            /\ worker'[w].pc = worker[w].pc
            /\ worker'[w].slot = worker[w].slot
            /\ worker'[w].fence = worker[w].fence
            /\ worker'[w].fresh => worker[w].fresh
      BY <3>2, <1>a
    <3>5. leases' = leases
      BY <3>2
    <3>6. QED BY <3>3, <3>4, <3>5 DEF NoTokenMoves
  <2>2. QED BY <1>6, <1>1, <2>1 DEF SweepStep, SelectExpiredReservations, ListOfflineHosts, ListActiveDispatchesByHost,
             ExpireReservation, AbandonSweep
<1>7. QED BY <1>1, <1>2, <1>3, <1>4, <1>5, <1>6 DEF Next, vars

\* A new lease carries a token newer than any before it.
LEMMA AcquireKeepsFenceInv ==
  ASSUME TypeOK, WorkerHasSlot, FenceInv, NEW w \in Workers, AcquireRecoveryLease(w)
  PROVE  FenceInv'
<1> DEFINE s == worker[w].slot
<1>1. /\ s \in Slots /\ leases[s] \in Nat
      /\ leases' = [leases EXCEPT ![s] = leases[s] + 1]
      /\ dispatch' = dispatch
  BY DEF AcquireRecoveryLease, WorkerHasSlot, TypeOK
<1>2. /\ worker'[w].pc = "leased" /\ worker'[w].slot = s /\ worker'[w].fence = leases[s] + 1
      /\ \A v \in Workers \ {w} : worker'[v] = worker[v]
  BY DEF AcquireRecoveryLease, TypeOK, WorkerState
<1> HIDE DEF s
<1>3. \A t \in Slots : leases[t] \in Nat /\ leases'[t] = IF t = s THEN leases[s] + 1 ELSE leases[t]
  BY <1>1 DEF TypeOK
<1>4. \A t \in Slots : dispatch[t].fence \in Nat
  BY DEF TypeOK, DispatchRow
<1>5. \A v \in Workers : worker[v].fence \in Nat
  BY DEF TypeOK, WorkerState
<1>6. \A t \in Slots : dispatch'[t].fence <= leases'[t]
  BY <1>1, <1>3, <1>4 DEF FenceInv
<1>7. ASSUME NEW v \in Workers, worker'[v].pc \in {"leased", "claimed"}
      PROVE  worker'[v].fence <= leases'[worker'[v].slot]
  <2>1. CASE v = w
    BY <1>1, <1>2, <1>3, <2>1
  <2>2. CASE v # w
    <3>1. worker[v].slot \in Slots
      BY <1>2, <1>7, <2>2 DEF WorkerHasSlot
    <3>2. worker[v].fence <= leases[worker[v].slot]
      BY <1>2, <1>7, <2>2 DEF FenceInv
    <3>3. QED BY <1>2, <1>3, <1>5, <2>2, <3>1, <3>2
  <2>3. QED BY <2>1, <2>2
<1>8. ASSUME NEW v \in Workers, worker'[v].pc = "leased", worker'[v].fresh
      PROVE  dispatch'[worker'[v].slot].fence < worker'[v].fence
  <2>1. CASE v = w
    <3>1. dispatch[s].fence <= leases[s] /\ dispatch[s].fence \in Nat
      BY <1>1, <1>4 DEF FenceInv
    <3>2. QED BY <1>1, <1>2, <2>1, <3>1
  <2>2. CASE v # w
    BY <1>1, <1>2, <1>8, <2>2 DEF FenceInv
  <2>3. QED BY <2>1, <2>2
<1>9. QED BY <1>6, <1>7, <1>8 DEF FenceInv

\* What a claim writes.
LEMMA ClaimWrites ==
  ASSUME TypeOK, WorkerHasSlot, NEW w \in Workers, ClaimDispatchRecovery(w)
  PROVE  /\ worker[w].slot \in Slots /\ worker[w].pc = "leased" /\ worker[w].fresh
         /\ leases' = leases
         /\ dispatch'[worker[w].slot].fence = worker[w].fence
         /\ \A t \in Slots \ {worker[w].slot} : dispatch'[t] = dispatch[t]
         /\ \A v \in Workers :
              /\ v # w => worker'[v].pc = worker[v].pc
              /\ v = w => worker'[v].pc = "claimed"
              /\ worker'[v].slot = worker[v].slot
              /\ worker'[v].fence = worker[v].fence
              /\ worker'[v].fresh => worker[v].fresh /\ worker[v].slot # worker[w].slot
<1> DEFINE s == worker[w].slot
<1>1. s \in Slots /\ worker[w].pc = "leased" /\ worker[w].fresh /\ leases' = leases
  BY DEF ClaimDispatchRecovery, WorkerHasSlot
<1>2. worker' = [Outdated(s) EXCEPT ![w].pc = "claimed"]
  BY DEF ClaimDispatchRecovery
<1>3. dispatch'[s].fence = worker[w].fence /\ \A t \in Slots \ {s} : dispatch'[t] = dispatch[t]
  BY <1>1 DEF ClaimDispatchRecovery, TypeOK
<1> HIDE DEF s
<1>4. \A v \in Workers :
        /\ v # w => worker'[v].pc = worker[v].pc
        /\ v = w => worker'[v].pc = "claimed"
        /\ worker'[v].slot = worker[v].slot
        /\ worker'[v].fence = worker[v].fence
        /\ worker'[v].fresh => worker[v].fresh /\ worker[v].slot # s
  BY <1>2, OutdatedKeeps, OutdatedType DEF WorkerState
<1>5. QED BY <1>1, <1>3, <1>4 DEF s

\* A claim outdates every other worker on its Dispatch.
LEMMA ClaimKeepsFenceInv ==
  ASSUME TypeOK, WorkerHasSlot, FenceInv, NEW w \in Workers, ClaimDispatchRecovery(w)
  PROVE  FenceInv'
<1>1. \A t \in Slots : dispatch'[t].fence <= leases'[t]
  <2>1. worker[w].fence <= leases[worker[w].slot]
    BY ClaimWrites DEF FenceInv
  <2>2. QED BY <2>1, ClaimWrites DEF FenceInv
<1>2. ASSUME NEW v \in Workers, worker'[v].pc \in {"leased", "claimed"}
      PROVE  worker'[v].fence <= leases'[worker'[v].slot]
  BY <1>2, ClaimWrites DEF FenceInv
<1>3. ASSUME NEW v \in Workers, worker'[v].pc = "leased", worker'[v].fresh
      PROVE  dispatch'[worker'[v].slot].fence < worker'[v].fence
  <2>1. v # w /\ worker[v].pc = "leased" /\ worker[v].fresh /\ worker[v].slot \in Slots \ {worker[w].slot}
    BY <1>3, ClaimWrites DEF WorkerHasSlot
  <2>2. QED BY <2>1, ClaimWrites DEF FenceInv
<1>4. QED BY <1>1, <1>2, <1>3 DEF FenceInv

\* The order of the fencing tokens is an inductive invariant.
LEMMA FenceInvAlways == Spec => []FenceInv
<1>1. Init => FenceInv
  BY DEF Init, FenceInv, NoDispatch, Idle
<1>2. TypeOK /\ WorkerHasSlot /\ FenceInv /\ [Next]_vars => FenceInv'
  <2> SUFFICES ASSUME TypeOK, WorkerHasSlot, FenceInv, [Next]_vars PROVE FenceInv'
    OBVIOUS
  <2>1. CASE NoTokenMoves
    BY <2>1 DEF NoTokenMoves, FenceInv, WorkerHasSlot
  <2>2. QED BY <2>1, TokenSteps, AcquireKeepsFenceInv, ClaimKeepsFenceInv
<1>3. QED BY <1>1, <1>2, TypingAlways, PTL DEF Spec

\* No step takes a claim to an older token.
LEMMA FenceGrows ==
  ASSUME TypeOK, WorkerHasSlot, FenceInv, [Next]_vars, NEW s \in Slots
  PROVE  /\ dispatch'[s].fence >= dispatch[s].fence
         /\ dispatch'[s].by # dispatch[s].by => dispatch'[s].fence > dispatch[s].fence
<1>1. dispatch[s].fence \in Nat
  BY DEF TypeOK, DispatchRow
<1>2. CASE NoTokenMoves
  BY <1>1, <1>2 DEF NoTokenMoves
<1>3. ASSUME NEW w \in Workers, AcquireRecoveryLease(w)
      PROVE  dispatch' = dispatch
  BY <1>3 DEF AcquireRecoveryLease
<1>4. ASSUME NEW w \in Workers, ClaimDispatchRecovery(w)
      PROVE  dispatch'[s] = dispatch[s] \/ (dispatch'[s].fence \in Nat /\ dispatch'[s].fence > dispatch[s].fence)
  <2>1. dispatch[worker[w].slot].fence < worker[w].fence
    BY <1>4, ClaimWrites DEF FenceInv
  <2>2. worker[w].fence \in Nat
    BY DEF TypeOK, WorkerState
  <2>3. QED BY <1>1, <1>4, <2>1, <2>2, ClaimWrites
<1>5. CASE ~ NoTokenMoves
  <2>1. PICK w \in Workers : AcquireRecoveryLease(w) \/ ClaimDispatchRecovery(w)
    BY <1>5, TokenSteps
  <2>2. dispatch'[s] = dispatch[s] \/ (dispatch'[s].fence \in Nat /\ dispatch'[s].fence > dispatch[s].fence)
    BY <2>1, <1>3, <1>4
  <2>3. QED BY <1>1, <2>2
<1>6. QED BY <1>2, <1>5

\* A recovery claim is only ever succeeded by one with a newer fencing token:
\* a worker that paused between its lease and its claim is refused by the
\* version it read, whatever its lock thinks.
THEOREM RecoveryFenceAlwaysNewest == Spec => RecoveryFenceIsNewest
<1>1. TypeOK /\ WorkerHasSlot /\ FenceInv /\ [Next]_vars
        => [\A s \in Slots :
              /\ dispatch'[s].fence >= dispatch[s].fence
              /\ dispatch'[s].by # dispatch[s].by => dispatch'[s].fence > dispatch[s].fence]_vars
  BY FenceGrows
<1>2. QED BY <1>1, TypingAlways, FenceInvAlways, PTL DEF Spec, RecoveryFenceIsNewest

-------------------------------------------------------------------------------
(* States of a Dispatch *)

\* A Dispatch exists only after its dispatcher created it, and the recovery
\* workers and the sweep only ever hold Dispatches that exist.
OwnerInv ==
  /\ \A s \in Slots : slot[s].state = "none" => owner[s] = "none"
  /\ \A s \in Slots : owner[s] \in {"none", "reserved"} => dispatch[s].state = "none"
  /\ \A s \in orphaning : dispatch[s].state # "none"
  /\ \A w \in Workers : worker[w].pc # "idle" => dispatch[worker[w].slot].state # "none"

\* Who writes the state of Dispatch s, and from which states.
DispatchWrite(s, state) ==
  dispatch' = [dispatch EXCEPT ![s].state = state, ![s].claim = "none"]

DispatcherWrites(s) ==
  \/ /\ owner[s] = "reserved" /\ owner'[s] = "created"
     /\ SetDispatch(s, "created")
  \/ /\ owner[s] \in {"created", "sent", "settled"}
     /\ \E state \in ActiveDispatch \cup Outcomes :
          /\ SetDispatch(s, state)
          /\ dispatch[s].state \in Outcomes => state = dispatch[s].state
          /\ state \in PreAccept => dispatch[s].state \in PreAccept

RecoveryWrites(s) ==
  \/ \E w \in Workers : ClaimDispatchRecovery(w) /\ worker[w].slot = s
  \/ /\ dispatch[s].claim = "live"
     /\ dispatch[s].state # "none"
     /\ \E state \in {"recovering", "accepted"} \cup Outcomes : DispatchWrite(s, state)

SweepWrites(s) ==
  /\ s \in orphaning
  /\ dispatch[s].state \notin Outcomes
  /\ DispatchWrite(s, "orphaned")

\* Every change of a Dispatch is one of those writes.
LEMMA DispatchSteps ==
  ASSUME TypeOK, WorkerHasSlot, OwnerInv, [Next]_vars
  PROVE  \/ UNCHANGED dispatch
         \/ \E s \in Slots : DispatcherWrites(s) \/ RecoveryWrites(s) \/ SweepWrites(s)
         \/ \E s \in Slots : RecoveryClaimLapses(s)
<1>a. /\ {"created", "sent", "submit_unknown", "accepted", "recovering"} \subseteq ActiveDispatch
      /\ {"rejected", "orphaned"} \subseteq Outcomes
      /\ ActiveDispatch \cap Outcomes = {}
      /\ {"created", "sent", "submit_unknown"} = PreAccept
      /\ {"accepted", "recovering"} \cap PreAccept = {} /\ Outcomes \cap PreAccept = {}
  BY DEF ActiveDispatch, PreAccept, Outcomes
<1>1. CASE HostStep
  BY <1>1 DEF HostStep, RegisterHost, HeartbeatHost, DrainHost, HostFoundLate, RecalculateHostCounters
<1>2. CASE DispatcherStep
  <2> SUFFICES ASSUME NEW s \in Slots,
                 \/ \E r \in Runs, h \in Hosts, scope \in Scopes : TryReserveSlot(s, r, h, scope)
                 \/ CreateDispatch(s) \/ MarkDispatchSent(s) \/ ConfirmDispatchAccepted(s)
                 \/ MarkDispatchSubmitUnknown(s) \/ MarkDispatchTerminal(s) \/ ReleaseReservation(s)
                 \/ RenewReservation(s) \/ MarkDispatchLeaseLost(s) \/ SlotLeaseExpires(s)
               PROVE  UNCHANGED dispatch \/ DispatcherWrites(s)
    BY <1>2 DEF DispatcherStep
  <2>1. CASE CreateDispatch(s)
    BY <2>1 DEF CreateDispatch, DispatcherWrites, TypeOK
  <2>2. CASE MarkDispatchSent(s)
    BY <2>2, <1>a DEF MarkDispatchSent, DispatcherWrites, Outcomes
  <2>3. CASE ConfirmDispatchAccepted(s)
    BY <2>3, <1>a DEF ConfirmDispatchAccepted, DispatcherWrites, PreAccept
  <2>4. CASE MarkDispatchSubmitUnknown(s)
    BY <2>4, <1>a DEF MarkDispatchSubmitUnknown, DispatcherWrites, PreAccept
  <2>5. CASE MarkDispatchTerminal(s)
    BY <2>5, <1>a DEF MarkDispatchTerminal, DispatcherWrites
  <2>6. CASE MarkDispatchLeaseLost(s)
    BY <2>6, <1>a DEF MarkDispatchLeaseLost, DispatcherWrites
  <2>7. QED BY <2>1, <2>2, <2>3, <2>4, <2>5, <2>6
            DEF TryReserveSlot, ReleaseReservation, RenewReservation, SlotLeaseExpires
<1>3. CASE EventStep
  <2>1. PICK s \in Slots : AppendRunEventAndAdvanceCursor(s) \/ \E outcome \in Reported : ConvergeTerminal(s, outcome)
    BY <1>3 DEF EventStep
  <2>2. CASE AppendRunEventAndAdvanceCursor(s)
    BY <2>2, <1>a DEF AppendRunEventAndAdvanceCursor, Submitted, DispatcherWrites
  <2>3. ASSUME NEW outcome \in Reported, ConvergeTerminal(s, outcome)
        PROVE  DispatcherWrites(s)
    <3>1. outcome \in Outcomes
      BY ConstantsAssumption
    <3>2. QED BY <2>3, <3>1, <1>a DEF ConvergeTerminal, Submitted, DispatcherWrites
  <2>4. QED BY <2>1, <2>2, <2>3
<1>4. CASE RecoveryStep
  <2>1. ASSUME NEW w \in Workers, ClaimDispatchRecovery(w)
        PROVE  \E s \in Slots : RecoveryWrites(s)
    BY <2>1, ClaimWrites DEF RecoveryWrites
  <2>2. ASSUME NEW w \in Workers,
               \/ \E state \in {"recovering", "accepted"} : AdvanceDispatchRecovery(w, state)
               \/ RecoverDispatchAccepted(w)
               \/ \E outcome \in {"orphaned", "rejected"} : FinalizeClaimedDispatch(w, outcome)
        PROVE  \E s \in Slots : RecoveryWrites(s)
    <3>1. /\ worker[w].slot \in Slots
          /\ dispatch[worker[w].slot].claim = "live" /\ dispatch[worker[w].slot].state # "none"
      BY <2>2 DEF AdvanceDispatchRecovery, RecoverDispatchAccepted, FinalizeClaimedDispatch, ClaimHeld,
                  WorkerHasSlot, OwnerInv
    <3>2. \E state \in {"recovering", "accepted"} \cup Outcomes : DispatchWrite(worker[w].slot, state)
      BY <2>2, <1>a DEF AdvanceDispatchRecovery, RecoverDispatchAccepted, FinalizeClaimedDispatch, DispatchWrite
    <3>3. QED BY <3>1, <3>2 DEF RecoveryWrites
  <2>3. CASE \E w \in Workers : AbandonRecovery(w) \/ AcquireRecoveryLease(w) \/ \E s \in Slots : ListDispatchRecoveryCandidate(w, s)
    BY <2>3 DEF AbandonRecovery, AcquireRecoveryLease, ListDispatchRecoveryCandidate
  <2>4. QED BY <1>4, <2>1, <2>2, <2>3 DEF RecoveryStep
<1>5. CASE SweepStep
  <2>1. ASSUME NEW s \in Slots, FinalizeOfflineDispatch(s)
        PROVE  UNCHANGED dispatch \/ SweepWrites(s)
    BY <2>1 DEF FinalizeOfflineDispatch, SweepWrites, DispatchWrite
  <2>2. QED BY <1>5, <2>1 DEF SweepStep, SelectExpiredReservations, ListOfflineHosts, ListActiveDispatchesByHost,
             ExpireReservation, AbandonSweep
<1>6. QED BY <1>1, <1>2, <1>3, <1>4, <1>5 DEF Next, vars

\* A Dispatch that exists goes on existing.
LEMMA DispatchStays ==
  ASSUME TypeOK, WorkerHasSlot, OwnerInv, [Next]_vars, NEW s \in Slots, dispatch[s].state # "none"
  PROVE  dispatch'[s].state # "none"
<1>1. CASE UNCHANGED dispatch
  BY <1>1
<1>2. ASSUME NEW t \in Slots, DispatcherWrites(t)
      PROVE  dispatch'[s].state # "none"
  BY <1>2 DEF DispatcherWrites, SetDispatch, TypeOK, DispatchRow, ActiveDispatch, PreAccept, Outcomes
<1>3. ASSUME NEW t \in Slots, RecoveryWrites(t)
      PROVE  dispatch'[s].state # "none"
  <2>1. CASE \E w \in Workers : ClaimDispatchRecovery(w)
    BY <2>1 DEF ClaimDispatchRecovery, TypeOK, DispatchRow
  <2>2. CASE \E state \in {"recovering", "accepted"} \cup Outcomes : DispatchWrite(t, state)
    BY <2>2 DEF DispatchWrite, TypeOK, DispatchRow, Outcomes
  <2>3. QED BY <1>3, <2>1, <2>2 DEF RecoveryWrites
<1>4. ASSUME NEW t \in Slots, SweepWrites(t)
      PROVE  dispatch'[s].state # "none"
  BY <1>4 DEF SweepWrites, DispatchWrite, TypeOK, DispatchRow
<1>5. ASSUME NEW t \in Slots, RecoveryClaimLapses(t)
      PROVE  dispatch'[s].state # "none"
  BY <1>5 DEF RecoveryClaimLapses, TypeOK, DispatchRow
<1>6. QED BY <1>1, <1>2, <1>3, <1>4, <1>5, DispatchSteps

\* A dispatcher starts with a new reservation and never starts over.
LEMMA OwnerSteps ==
  ASSUME TypeOK, [Next]_vars, NEW s \in Slots
  PROVE  \/ owner'[s] = owner[s]
         \/ owner[s] # "none" /\ owner'[s] \notin {"none", "reserved"}
         \/ /\ slot[s].state = "none" /\ slot'[s].state = "reserved"
            /\ owner'[s] = "reserved" /\ dispatch' = dispatch
<1>1. CASE UNCHANGED owner
  BY <1>1
<1>2. ASSUME NEW t \in Slots, NEW r \in Runs, NEW h \in Hosts, NEW scope \in Scopes, TryReserveSlot(t, r, h, scope)
      PROVE  \/ owner'[s] = owner[s]
             \/ /\ slot[s].state = "none" /\ slot'[s].state = "reserved"
                /\ owner'[s] = "reserved" /\ dispatch' = dispatch
  BY <1>2 DEF TryReserveSlot, TypeOK
<1>3. ASSUME NEW t \in Slots,
             \/ CreateDispatch(t) \/ MarkDispatchSent(t) \/ ConfirmDispatchAccepted(t)
             \/ MarkDispatchSubmitUnknown(t) \/ MarkDispatchTerminal(t) \/ ReleaseReservation(t)
      PROVE  owner'[s] = owner[s] \/ (owner[s] # "none" /\ owner'[s] \notin {"none", "reserved"})
  <2>1. /\ owner[t] # "none"
        /\ \E state \in {"created", "sent", "settled", "captured", "closed"} : owner' = [owner EXCEPT ![t] = state]
    BY <1>3 DEF CreateDispatch, MarkDispatchSent, ConfirmDispatchAccepted, MarkDispatchSubmitUnknown,
                MarkDispatchTerminal, ReleaseReservation
  <2>2. QED BY <2>1 DEF TypeOK
<1>4. CASE DispatcherStep
  BY <1>1, <1>2, <1>3, <1>4 DEF DispatcherStep, RenewReservation, MarkDispatchLeaseLost, SlotLeaseExpires
<1>5. CASE HostStep
  BY <1>5 DEF HostStep, RegisterHost, HeartbeatHost, DrainHost, HostFoundLate, RecalculateHostCounters
<1>6. CASE EventStep
  BY <1>6 DEF EventStep, AppendRunEventAndAdvanceCursor, ConvergeTerminal
<1>7. CASE RecoveryStep
  BY <1>7 DEF RecoveryStep, ListDispatchRecoveryCandidate, AcquireRecoveryLease, ClaimDispatchRecovery,
       AdvanceDispatchRecovery, RecoverDispatchAccepted, FinalizeClaimedDispatch, AbandonRecovery, RecoveryClaimLapses
<1>8. CASE SweepStep
  BY <1>8 DEF SweepStep, SelectExpiredReservations, ListOfflineHosts, ListActiveDispatchesByHost, ExpireReservation,
       FinalizeOfflineDispatch, AbandonSweep
<1>9. QED BY <1>1, <1>4, <1>5, <1>6, <1>7, <1>8 DEF Next, vars

\* A Slot that is in use goes on being in use.
LEMMA SlotStays ==
  ASSUME TypeOK, WorkerHasSlot, [Next]_vars, NEW s \in Slots, slot'[s].state = "none"
  PROVE  slot[s].state = "none"
<1>1. ASSUME NEW t \in Slots, NEW r \in Runs, NEW h \in Hosts, NEW scope \in Scopes, TryReserveSlot(t, r, h, scope)
      PROVE  slot[s].state = "none"
  BY <1>1 DEF TryReserveSlot, TypeOK
<1>2. ASSUME NEW t \in Slots, AcceptSlot(t)
      PROVE  slot[s].state = "none"
  BY <1>2 DEF AcceptSlot, TypeOK, SlotRow
<1>3. ASSUME NEW t \in Slots, NEW state \in ClosedSlot, CloseSlot(t, state)
      PROVE  slot[s].state = "none"
  <2>1. slot' = slot \/ slot' = [slot EXCEPT ![t].state = state]
    BY <1>3 DEF CloseSlot
  <2>2. QED BY <2>1 DEF TypeOK, SlotRow, ClosedSlot
<1>4. ASSUME NEW t \in Slots, SlotLeaseExpires(t)
      PROVE  slot[s].state = "none"
  BY <1>4 DEF SlotLeaseExpires, TypeOK, SlotRow
<1>5. CASE HostStep
  BY <1>5 DEF HostStep, RegisterHost, HeartbeatHost, DrainHost, HostFoundLate, RecalculateHostCounters
<1>6. QED BY <1>1, <1>2, <1>3, <1>4, <1>5, SlotSteps DEF vars

\* A worker keeps its Dispatch or picks up an active one.
LEMMA WorkerSteps ==
  ASSUME TypeOK, WorkerHasSlot, [Next]_vars, NEW v \in Workers
  PROVE  \/ worker'[v].pc = "idle"
         \/ worker[v].pc # "idle" /\ worker'[v].slot = worker[v].slot
         \/ worker'[v].slot \in Slots /\ dispatch[worker'[v].slot].state \in ActiveDispatch
<1>1. CASE UNCHANGED worker
  BY <1>1
<1>2. CASE \E s : worker' = Outdated(s)
  BY <1>2, OutdatedKeeps
<1>3. ASSUME NEW w \in Workers, NEW s, worker' = [Outdated(s) EXCEPT ![w] = Idle]
      PROVE  worker'[v].pc = "idle" \/ (worker[v].pc # "idle" /\ worker'[v].slot = worker[v].slot)
  <2>1. Outdated(s) \in [Workers -> WorkerState]
    BY OutdatedType
  <2>2. CASE v = w
    BY <1>3, <2>1, <2>2 DEF Idle
  <2>3. CASE v # w
    <3>1. worker'[v] = Outdated(s)[v]
      BY <1>3, <2>1, <2>3
    <3>2. QED BY <3>1, OutdatedKeeps
  <2>4. QED BY <2>2, <2>3
<1>4. CASE HostStep
  BY <1>1, <1>4 DEF HostStep, RegisterHost, HeartbeatHost, DrainHost, HostFoundLate, RecalculateHostCounters
<1>5. CASE DispatcherStep
  BY <1>1, <1>2, <1>5 DEF DispatcherStep, TryReserveSlot, CreateDispatch, MarkDispatchSent, ConfirmDispatchAccepted,
       MarkDispatchSubmitUnknown, MarkDispatchTerminal, ReleaseReservation, RenewReservation,
       MarkDispatchLeaseLost, SlotLeaseExpires
<1>6. CASE EventStep
  BY <1>1, <1>2, <1>6 DEF EventStep, AppendRunEventAndAdvanceCursor, ConvergeTerminal
<1>7. CASE RecoveryStep
  <2>1. ASSUME NEW w \in Workers, NEW s \in Slots, ListDispatchRecoveryCandidate(w, s)
        PROVE  \/ worker[v].pc # "idle" /\ worker'[v].slot = worker[v].slot
               \/ worker'[v].pc = "idle"
               \/ worker'[v].slot \in Slots /\ dispatch[worker'[v].slot].state \in ActiveDispatch
    BY <2>1 DEF ListDispatchRecoveryCandidate, TypeOK
  <2>2. ASSUME NEW w \in Workers, AcquireRecoveryLease(w)
        PROVE  worker'[v].pc = "idle" \/ (worker[v].pc # "idle" /\ worker'[v].slot = worker[v].slot)
    BY <2>2 DEF AcquireRecoveryLease, TypeOK, WorkerState
  <2>3. ASSUME NEW w \in Workers, ClaimDispatchRecovery(w)
        PROVE  worker'[v].pc = "idle" \/ (worker[v].pc # "idle" /\ worker'[v].slot = worker[v].slot)
    BY <2>3, ClaimWrites
  <2>4. ASSUME NEW w \in Workers,
               \/ \E state \in {"recovering", "accepted"} : AdvanceDispatchRecovery(w, state)
               \/ RecoverDispatchAccepted(w)
               \/ \E outcome \in {"orphaned", "rejected"} : FinalizeClaimedDispatch(w, outcome)
        PROVE  worker'[v].pc = "idle" \/ (worker[v].pc # "idle" /\ worker'[v].slot = worker[v].slot)
    <3>1. \E s : worker' = [Outdated(s) EXCEPT ![w] = Idle]
      BY <2>4 DEF AdvanceDispatchRecovery, RecoverDispatchAccepted, FinalizeClaimedDispatch
    <3>2. QED BY <1>3, <3>1
  <2>5. ASSUME NEW w \in Workers, AbandonRecovery(w)
        PROVE  worker'[v].pc = "idle" \/ worker'[v] = worker[v]
    BY <2>5 DEF AbandonRecovery, TypeOK, Idle
  <2>6. CASE \E s \in Slots : RecoveryClaimLapses(s)
    BY <2>6 DEF RecoveryClaimLapses
  <2>7. QED BY <1>7, <2>1, <2>2, <2>3, <2>4, <2>5, <2>6 DEF RecoveryStep
<1>8. CASE SweepStep
  BY <1>1, <1>2, <1>8 DEF SweepStep, SelectExpiredReservations, ListOfflineHosts, ListActiveDispatchesByHost, ExpireReservation,
       FinalizeOfflineDispatch, AbandonSweep
<1>9. QED BY <1>1, <1>4, <1>5, <1>6, <1>7, <1>8 DEF Next, vars

\* The sweep holds Dispatches that were active when it read them.
LEMMA OrphaningSteps ==
  ASSUME [Next]_vars, NEW s \in orphaning'
  PROVE  s \in orphaning \/ (s \in Slots /\ dispatch[s].state \in ActiveDispatch)
<1> USE DEF sweepVars
<1>1. CASE HostStep
  BY <1>1 DEF HostStep, RegisterHost, HeartbeatHost, DrainHost, HostFoundLate, RecalculateHostCounters
<1>2. CASE DispatcherStep
  BY <1>2 DEF DispatcherStep, TryReserveSlot, CreateDispatch, MarkDispatchSent, ConfirmDispatchAccepted,
       MarkDispatchSubmitUnknown, MarkDispatchTerminal, ReleaseReservation, RenewReservation,
       MarkDispatchLeaseLost, SlotLeaseExpires
<1>3. CASE EventStep
  BY <1>3 DEF EventStep, AppendRunEventAndAdvanceCursor, ConvergeTerminal
<1>4. CASE RecoveryStep
  BY <1>4 DEF RecoveryStep, ListDispatchRecoveryCandidate, AcquireRecoveryLease, ClaimDispatchRecovery,
       AdvanceDispatchRecovery, RecoverDispatchAccepted, FinalizeClaimedDispatch, AbandonRecovery, RecoveryClaimLapses
<1>5. CASE SweepStep
  BY <1>5 DEF SweepStep, SelectExpiredReservations, ListOfflineHosts, ListActiveDispatchesByHost, ExpireReservation,
       FinalizeOfflineDispatch, AbandonSweep
<1>6. CASE UNCHANGED vars
  BY <1>6 DEF vars
<1>7. QED BY <1>1, <1>2, <1>3, <1>4, <1>5, <1>6 DEF Next

\* That Dispatches exist before anyone works on them is an inductive invariant.
LEMMA OwnerInvAlways == Spec => []OwnerInv
<1>1. Init => OwnerInv
  BY DEF Init, OwnerInv, NoDispatch, Idle, UnusedSlot
<1>2. TypeOK /\ WorkerHasSlot /\ OwnerInv /\ [Next]_vars => OwnerInv'
  <2> SUFFICES ASSUME TypeOK, WorkerHasSlot, OwnerInv, [Next]_vars PROVE OwnerInv'
    OBVIOUS
  <2>1. ASSUME NEW s \in Slots, slot'[s].state = "none"
        PROVE  owner'[s] = "none"
    BY <2>1, SlotStays, OwnerSteps DEF OwnerInv
  <2>2. ASSUME NEW s \in Slots, owner'[s] \in {"none", "reserved"}
        PROVE  dispatch'[s].state = "none"
    <3>1. dispatch[s].state = "none" /\ (dispatch' = dispatch \/ owner'[s] = owner[s])
      BY <2>2, OwnerSteps DEF OwnerInv
    <3>2. CASE owner'[s] = owner[s]
      <4>1. ~ DispatcherWrites(s)
        BY <2>2, <3>2 DEF DispatcherWrites
      <4>2. ~ RecoveryWrites(s)
        BY <3>1 DEF RecoveryWrites, ClaimDispatchRecovery, ActiveDispatch, PreAccept
      <4>3. ~ SweepWrites(s)
        BY <3>1 DEF SweepWrites, OwnerInv
      <4>4. ASSUME NEW t \in Slots, t # s, DispatcherWrites(t) \/ RecoveryWrites(t) \/ SweepWrites(t)
            PROVE  dispatch'[s] = dispatch[s]
        <5>1. CASE DispatcherWrites(t)
          BY <4>4, <5>1 DEF DispatcherWrites, SetDispatch, TypeOK
        <5>2. CASE RecoveryWrites(t)
          <6>1. CASE \E w \in Workers : ClaimDispatchRecovery(w) /\ worker[w].slot = t
            BY <4>4, <6>1, ClaimWrites
          <6>2. CASE \E state : DispatchWrite(t, state)
            BY <4>4, <6>2 DEF DispatchWrite, TypeOK
          <6>3. QED BY <5>2, <6>1, <6>2 DEF RecoveryWrites
        <5>3. CASE SweepWrites(t)
          BY <4>4, <5>3 DEF SweepWrites, DispatchWrite, TypeOK
        <5>4. QED BY <4>4, <5>1, <5>2, <5>3
      <4>5. ASSUME NEW t \in Slots, RecoveryClaimLapses(t)
            PROVE  dispatch'[s].state = dispatch[s].state
        BY <4>5 DEF RecoveryClaimLapses, TypeOK, DispatchRow
      <4>6. QED BY <3>1, <4>1, <4>2, <4>3, <4>4, <4>5, DispatchSteps
    <3>3. QED BY <3>1, <3>2
  <2>3. ASSUME NEW s \in orphaning'
        PROVE  dispatch'[s].state # "none"
    <3>1. s \in Slots /\ dispatch[s].state # "none"
      <4>1. s \in orphaning \/ (s \in Slots /\ dispatch[s].state \in ActiveDispatch)
        BY <2>3, OrphaningSteps
      <4>2. QED BY <4>1 DEF OwnerInv, TypeOK, ActiveDispatch, PreAccept
    <3>2. QED BY <3>1, DispatchStays
  <2>4. ASSUME NEW w \in Workers, worker'[w].pc # "idle"
        PROVE  dispatch'[worker'[w].slot].state # "none"
    <3>1. worker'[w].slot \in Slots /\ dispatch[worker'[w].slot].state # "none"
      BY <2>4, WorkerSteps DEF OwnerInv, WorkerHasSlot, ActiveDispatch, PreAccept
    <3>2. QED BY <3>1, DispatchStays
  <2>5. QED BY <2>1, <2>2, <2>3, <2>4 DEF OwnerInv
<1>3. QED BY <1>1, <1>2, TypingAlways, PTL DEF Spec

\* No step changes a terminal Dispatch no claim is live on.
LEMMA UnclaimedTerminalStays ==
  ASSUME TypeOK, WorkerHasSlot, OwnerInv, [Next]_vars, NEW s \in Slots,
         dispatch[s].state \in Outcomes, dispatch[s].claim # "live"
  PROVE  dispatch'[s].state = dispatch[s].state /\ dispatch'[s].claim # "live"
<1>1. dispatch[s].state \notin ActiveDispatch \cup {"none"}
  BY DEF Outcomes, ActiveDispatch, PreAccept
<1>2. ASSUME NEW t \in Slots, DispatcherWrites(t)
      PROVE  dispatch'[s].state = dispatch[s].state /\ dispatch'[s].claim = dispatch[s].claim
  <2>1. CASE t = s
    <3>1. owner[s] # "reserved"
      BY <1>1 DEF OwnerInv
    <3>2. PICK state : SetDispatch(s, state) /\ state = dispatch[s].state
      BY <1>2, <2>1, <3>1 DEF DispatcherWrites
    <3>3. QED BY <3>2 DEF SetDispatch, TypeOK, DispatchRow
  <2>2. CASE t # s
    BY <1>2, <2>2 DEF DispatcherWrites, SetDispatch, TypeOK
  <2>3. QED BY <2>1, <2>2
<1>3. ASSUME NEW t \in Slots, RecoveryWrites(t)
      PROVE  dispatch'[s] = dispatch[s]
  <2>1. CASE \E w \in Workers : ClaimDispatchRecovery(w) /\ worker[w].slot = t
    <3>1. t # s
      BY <1>1, <2>1 DEF ClaimDispatchRecovery
    <3>2. QED BY <2>1, <3>1, ClaimWrites
  <2>2. CASE dispatch[t].claim = "live" /\ \E state : DispatchWrite(t, state)
    <3>1. t # s
      BY <2>2
    <3>2. QED BY <2>2, <3>1 DEF DispatchWrite, TypeOK
  <2>3. QED BY <1>3, <2>1, <2>2 DEF RecoveryWrites
<1>4. ASSUME NEW t \in Slots, SweepWrites(t)
      PROVE  dispatch'[s] = dispatch[s]
  <2>1. t # s
    BY <1>4 DEF SweepWrites
  <2>2. QED BY <1>4, <2>1 DEF SweepWrites, DispatchWrite, TypeOK
<1>5. ASSUME NEW t \in Slots, RecoveryClaimLapses(t)
      PROVE  dispatch'[s].state = dispatch[s].state /\ dispatch'[s].claim # "live"
  BY <1>5 DEF RecoveryClaimLapses, TypeOK, DispatchRow
<1>6. QED BY <1>2, <1>3, <1>4, <1>5, DispatchSteps

\* A terminal Dispatch no recovery claim is live on never changes state: every
\* other writer looks at the state it overwrites.
THEOREM UnclaimedTerminalAlwaysFinal == Spec => UnclaimedTerminalIsFinal
<1>1. TypeOK /\ WorkerHasSlot /\ OwnerInv /\ [Next]_vars
        => [\A s \in Slots : dispatch[s].state \in Outcomes /\ dispatch[s].claim # "live" =>
              dispatch'[s].state = dispatch[s].state /\ dispatch'[s].claim # "live"]_vars
  BY UnclaimedTerminalStays
<1>2. QED BY <1>1, TypingAlways, OwnerInvAlways, PTL DEF Spec, UnclaimedTerminalIsFinal

\* A Slot becomes accepted together with its Dispatch.
LEMMA AcceptSteps ==
  ASSUME TypeOK, WorkerHasSlot, [Next]_vars, NEW s \in Slots, slot'[s].state = "accepted"
  PROVE  slot[s].state = "accepted" \/ dispatch'[s].state = "accepted"
<1>a. ASSUME NEW t \in Slots, NEW state \in ClosedSlot, CloseSlot(t, state)
      PROVE  slot[s].state = "accepted"
  <2>1. slot' = slot \/ slot' = [slot EXCEPT ![t].state = state]
    BY <1>a DEF CloseSlot
  <2>2. QED BY <2>1 DEF TypeOK, SlotRow, ClosedSlot
<1>b. ASSUME NEW t \in Slots, AcceptSlot(t), dispatch'[t].state = "accepted"
      PROVE  slot[s].state = "accepted" \/ dispatch'[s].state = "accepted"
  BY <1>b DEF AcceptSlot, TypeOK
<1>1. CASE HostStep
  BY <1>1 DEF HostStep, RegisterHost, HeartbeatHost, DrainHost, HostFoundLate, RecalculateHostCounters
<1>2. CASE DispatcherStep
  <2>1. PICK t \in Slots :
          \/ \E r \in Runs, h \in Hosts, scope \in Scopes : TryReserveSlot(t, r, h, scope)
          \/ CreateDispatch(t) \/ MarkDispatchSent(t) \/ ConfirmDispatchAccepted(t)
          \/ MarkDispatchSubmitUnknown(t) \/ MarkDispatchTerminal(t) \/ ReleaseReservation(t)
          \/ RenewReservation(t) \/ MarkDispatchLeaseLost(t) \/ SlotLeaseExpires(t)
    BY <1>2 DEF DispatcherStep
  <2>2. CASE \E r \in Runs, h \in Hosts, scope \in Scopes : TryReserveSlot(t, r, h, scope)
    BY <2>2 DEF TryReserveSlot, TypeOK
  <2>3. CASE ConfirmDispatchAccepted(t)
    <3>1. dispatch'[t].state = "accepted"
      BY <2>3 DEF ConfirmDispatchAccepted, SetDispatch, TypeOK, DispatchRow
    <3>2. QED BY <2>3, <3>1, <1>b DEF ConfirmDispatchAccepted
  <2>4. CASE ReleaseReservation(t)
    BY <2>4, <1>a DEF ReleaseReservation, ClosedSlot
  <2>5. CASE SlotLeaseExpires(t)
    BY <2>5 DEF SlotLeaseExpires, TypeOK, SlotRow
  <2>6. QED BY <2>1, <2>2, <2>3, <2>4, <2>5 DEF CreateDispatch, MarkDispatchSent, MarkDispatchSubmitUnknown,
             MarkDispatchTerminal, RenewReservation, MarkDispatchLeaseLost
<1>3. CASE EventStep
  BY <1>3, <1>a DEF EventStep, AppendRunEventAndAdvanceCursor, ConvergeTerminal, ClosedSlot
<1>4. CASE RecoveryStep
  <2>1. ASSUME NEW w \in Workers, RecoverDispatchAccepted(w)
        PROVE  slot[s].state = "accepted" \/ dispatch'[s].state = "accepted"
    <3>1. worker[w].slot \in Slots
      BY <2>1 DEF RecoverDispatchAccepted, ClaimHeld, WorkerHasSlot
    <3>2. dispatch'[worker[w].slot].state = "accepted"
      BY <2>1, <3>1 DEF RecoverDispatchAccepted, TypeOK, DispatchRow
    <3>3. AcceptSlot(worker[w].slot) \/ slot' = slot
      BY <2>1 DEF RecoverDispatchAccepted
    <3>4. QED BY <3>1, <3>2, <3>3, <1>b
  <2>2. ASSUME NEW w \in Workers, NEW outcome, FinalizeClaimedDispatch(w, outcome)
        PROVE  slot[s].state = "accepted"
    <3>1. worker[w].slot \in Slots /\ CloseSlot(worker[w].slot, "released")
      BY <2>2 DEF FinalizeClaimedDispatch, ClaimHeld, WorkerHasSlot
    <3>2. QED BY <3>1, <1>a DEF ClosedSlot
  <2>3. QED BY <1>4, <2>1, <2>2 DEF RecoveryStep, ListDispatchRecoveryCandidate, AcquireRecoveryLease,
             ClaimDispatchRecovery, AdvanceDispatchRecovery, AbandonRecovery, RecoveryClaimLapses
<1>5. CASE SweepStep
  BY <1>5, <1>a DEF SweepStep, SelectExpiredReservations, ListOfflineHosts, ListActiveDispatchesByHost, ExpireReservation,
       FinalizeOfflineDispatch, AbandonSweep, ClosedSlot
<1>6. QED BY <1>1, <1>2, <1>3, <1>4, <1>5 DEF Next, vars

\* The Dispatch of an accepted Slot never goes back to before acceptance, so
\* no second acceptance can move the counters again.
THEOREM AcceptedAlwaysOnce == Spec => []AcceptedOnce
<1>1. Init => AcceptedOnce
  BY DEF Init, AcceptedOnce, UnusedSlot
<1>2. TypeOK /\ WorkerHasSlot /\ OwnerInv /\ AcceptedOnce /\ [Next]_vars => AcceptedOnce'
  <2> SUFFICES ASSUME TypeOK, WorkerHasSlot, OwnerInv, AcceptedOnce, [Next]_vars,
                      NEW s \in Slots, slot'[s].state = "accepted"
               PROVE  dispatch'[s].state \notin {"none"} \cup PreAccept
    BY DEF AcceptedOnce
  <2>1. CASE dispatch'[s].state = "accepted"
    BY <2>1 DEF PreAccept
  <2>2. CASE slot[s].state = "accepted"
    <3>1. dispatch[s].state \notin {"none"} \cup PreAccept
      BY <2>2 DEF AcceptedOnce
    <3>2. dispatch'[s].state \notin PreAccept
      <4>1. ASSUME NEW t \in Slots, DispatcherWrites(t)
            PROVE  dispatch'[s].state \notin PreAccept
        <5>1. CASE t = s
          <6>1. owner[s] # "reserved"
            BY <3>1 DEF OwnerInv
          <6>2. PICK state : SetDispatch(s, state) /\ state \notin PreAccept
            BY <3>1, <4>1, <5>1, <6>1 DEF DispatcherWrites
          <6>3. QED BY <6>2 DEF SetDispatch, TypeOK, DispatchRow
        <5>2. CASE t # s
          BY <3>1, <4>1, <5>2 DEF DispatcherWrites, SetDispatch, TypeOK
        <5>3. QED BY <5>1, <5>2
      <4>2. ASSUME NEW t \in Slots, RecoveryWrites(t)
            PROVE  dispatch'[s].state \notin PreAccept
        <5>1. CASE \E w \in Workers : ClaimDispatchRecovery(w)
          BY <3>1, <5>1 DEF ClaimDispatchRecovery, TypeOK, DispatchRow, PreAccept
        <5>2. CASE \E state \in {"recovering", "accepted"} \cup Outcomes : DispatchWrite(t, state)
          BY <3>1, <5>2 DEF DispatchWrite, TypeOK, DispatchRow, PreAccept, Outcomes
        <5>3. QED BY <4>2, <5>1, <5>2 DEF RecoveryWrites
      <4>3. ASSUME NEW t \in Slots, SweepWrites(t)
            PROVE  dispatch'[s].state \notin PreAccept
        BY <3>1, <4>3 DEF SweepWrites, DispatchWrite, TypeOK, DispatchRow, PreAccept
      <4>4. ASSUME NEW t \in Slots, RecoveryClaimLapses(t)
            PROVE  dispatch'[s].state = dispatch[s].state
        BY <4>4 DEF RecoveryClaimLapses, TypeOK, DispatchRow
      <4>5. QED BY <3>1, <4>1, <4>2, <4>3, <4>4, DispatchSteps
    <3>3. QED BY <3>1, <3>2, DispatchStays
  <2>3. QED BY <2>1, <2>2, AcceptSteps
<1>3. QED BY <1>1, <1>2, TypingAlways, OwnerInvAlways, PTL DEF Spec

-------------------------------------------------------------------------------
(* Run records *)

\* Only creation, acceptance and convergence write a Run record.
LEMMA RecordSteps ==
  ASSUME [Next]_vars
  PROVE  \/ UNCHANGED record
         \/ \E s \in Slots : CreateDispatch(s) \/ ConfirmDispatchAccepted(s)
         \/ \E s \in Slots, outcome \in Reported : ConvergeTerminal(s, outcome)
<1>1. CASE HostStep
  BY <1>1 DEF HostStep, RegisterHost, HeartbeatHost, DrainHost, HostFoundLate, RecalculateHostCounters
<1>2. CASE DispatcherStep
  BY <1>2 DEF DispatcherStep, TryReserveSlot, MarkDispatchSent, MarkDispatchSubmitUnknown, MarkDispatchTerminal,
       ReleaseReservation, RenewReservation, MarkDispatchLeaseLost, SlotLeaseExpires
<1>3. CASE EventStep
  BY <1>3 DEF EventStep, AppendRunEventAndAdvanceCursor
<1>4. CASE RecoveryStep
  BY <1>4 DEF RecoveryStep, ListDispatchRecoveryCandidate, AcquireRecoveryLease, ClaimDispatchRecovery,
       AdvanceDispatchRecovery, RecoverDispatchAccepted, FinalizeClaimedDispatch, AbandonRecovery, RecoveryClaimLapses
<1>5. CASE SweepStep
  BY <1>5 DEF SweepStep, SelectExpiredReservations, ListOfflineHosts, ListActiveDispatchesByHost, ExpireReservation,
       FinalizeOfflineDispatch, AbandonSweep
<1>6. QED BY <1>1, <1>2, <1>3, <1>4, <1>5 DEF Next, vars

\* No step changes a Run record that ended.
LEMMA EndedRecordStays ==
  ASSUME TypeOK, [Next]_vars, NEW r \in Runs, record[r].status \in Outcomes
  PROVE  record'[r] = record[r]
<1>1. record[r].status \notin {"none", "created", "running"}
  BY DEF Outcomes
<1>2. ASSUME NEW s \in Slots, CreateDispatch(s)
      PROVE  record'[r] = record[r]
  BY <1>2 DEF CreateDispatch, TypeOK
<1>3. ASSUME NEW s \in Slots, ConfirmDispatchAccepted(s)
      PROVE  record'[r] = record[r]
  BY <1>1, <1>3 DEF ConfirmDispatchAccepted, TypeOK
<1>4. ASSUME NEW s \in Slots, NEW outcome \in Reported, ConvergeTerminal(s, outcome)
      PROVE  record'[r] = record[r]
  <2>1. CASE slot[s].run = r
    <3>1. record[r].status = outcome
      BY <1>1, <1>4, <2>1 DEF ConvergeTerminal
    <3>2. record' = [record EXCEPT ![r].status = record[r].status]
      BY <1>4, <2>1, <3>1 DEF ConvergeTerminal
    <3>3. QED BY <3>2 DEF TypeOK, RecordRow
  <2>2. CASE slot[s].run # r
    BY <1>4, <2>2 DEF ConvergeTerminal, TypeOK
  <2>3. QED BY <2>1, <2>2
<1>5. QED BY <1>2, <1>3, <1>4, RecordSteps

\* The outcome of a Run is recorded once: a terminal Run record is never
\* reopened, given another outcome or bound to another reservation.
THEOREM ConvergedRecordAlwaysFinal == Spec => ConvergedRecordIsFinal
<1>1. TypeOK /\ [Next]_vars => [\A r \in Runs : record[r].status \in Outcomes => record'[r] = record[r]]_vars
  BY EndedRecordStays
<1>2. QED BY <1>1, TypeCorrect, PTL DEF Spec, ConvergedRecordIsFinal

\* A Run whose outcome is recorded occupies no Host: convergence closes the
\* Slot in the transaction that records the outcome, and nothing reopens it.
THEOREM ConvergedRunNeverHoldsSlot == Spec => []ConvergedRunHoldsNoSlot
<1>1. Init => ConvergedRunHoldsNoSlot
  BY DEF Init, ConvergedRunHoldsNoSlot, Outcomes
<1>2. TypeOK /\ WorkerHasSlot /\ ConvergedRunHoldsNoSlot /\ [Next]_vars => ConvergedRunHoldsNoSlot'
  <2> SUFFICES ASSUME TypeOK, WorkerHasSlot, ConvergedRunHoldsNoSlot, [Next]_vars,
                      NEW r \in Runs, record'[r].status \in Outcomes
               PROVE  \E s \in Slots : record'[r].slot = s /\ slot'[s].state \in ClosedSlot
    BY DEF ConvergedRunHoldsNoSlot
  <2>1. CASE record[r].status \in Outcomes
    <3>1. PICK s \in Slots : record[r].slot = s /\ slot[s].state \in ClosedSlot
      BY <2>1 DEF ConvergedRunHoldsNoSlot
    <3>2. record'[r] = record[r]
      BY <2>1, EndedRecordStays
    <3>3. slot'[s] = slot[s]
      BY <3>1, ClosedSlotStays
    <3>4. QED BY <3>1, <3>2, <3>3
  <2>2. CASE record[r].status \notin Outcomes
    <3>1. ASSUME NEW s \in Slots, CreateDispatch(s)
          PROVE  FALSE
      BY <2>2, <3>1 DEF CreateDispatch, TypeOK, RecordRow, Outcomes
    <3>2. ASSUME NEW s \in Slots, ConfirmDispatchAccepted(s)
          PROVE  FALSE
      BY <2>2, <3>2 DEF ConfirmDispatchAccepted, TypeOK, RecordRow, Outcomes
    <3>3. ASSUME NEW s \in Slots, NEW outcome \in Reported, ConvergeTerminal(s, outcome)
          PROVE  record'[r].slot = s /\ slot'[s].state \in ClosedSlot
      <4>1. slot[s].run = r /\ record'[r].slot = s
        BY <2>2, <3>3 DEF ConvergeTerminal, TypeOK, RecordRow
      <4>2. CloseSlot(s, "released")
        BY <3>3 DEF ConvergeTerminal
      <4>3. slot' = [slot EXCEPT ![s].state = "released"] \/ (slot' = slot /\ slot[s].state \in ClosedSlot)
        BY <4>2 DEF CloseSlot
      <4>4. slot'[s].state \in ClosedSlot
        BY <4>3 DEF TypeOK, SlotRow, ClosedSlot
      <4>5. QED BY <4>1, <4>4
    <3>4. record' # record
      BY <2>2
    <3>5. QED BY <3>1, <3>2, <3>3, <3>4, RecordSteps
  <2>3. QED BY <2>1, <2>2
<1>3. QED BY <1>1, <1>2, TypingAlways, PTL DEF Spec

-------------------------------------------------------------------------------
(* The refinement *)

\* A Slot's place follows its row.
LEMMA PlaceIs ==
  \A s \in Slots : /\ Place[s].state = PlaceOf(slot[s].state) /\ Place[s].run = slot[s].run
                   /\ Place[s].host = slot[s].host /\ Place[s].scope = slot[s].scope
BY DEF Place

\* A place is taken exactly while its Slot is active, and free before.
LEMMA PlaceTells ==
  \A state : /\ PlaceOf(state) = "held" <=> state \in ActiveSlot
             /\ PlaceOf(state) = "unused" <=> state = "none"
BY DEF PlaceOf, ActiveSlot

\* The pool counts as the code does.
LEMMA PoolCounts == \A S : Pool!Cardinality(S) = Cardinality(S)
BY DEF Pool!Cardinality, Cardinality

\* What the pool has given out on a Host is what the Host's counters count.
LEMMA OutIsCounted ==
  ASSUME TypeOK, CountersInv, NEW h \in Hosts, NEW d \in Dims
  PROVE  Pool!Cardinality(Pool!Out(h, d)) = active[h][d] + reserved[h][d]
<1>1. Pool!Out(h, d) = Counted(h, ActiveSlot, d)
  BY PlaceIs, PlaceTells DEF Pool!Out, Counted, Touched
<1> QED BY <1>1, ActiveAreCounted, PoolCounts

\* The pool rests while no Slot changes but in its lease and no limit changes.
LEMMA PoolRests ==
  ASSUME \A h \in Hosts : host'[h].max = host[h].max,
         \A s \in Slots : /\ slot'[s].run = slot[s].run /\ slot'[s].host = slot[s].host
                          /\ slot'[s].scope = slot[s].scope
                          /\ PlaceOf(slot'[s].state) = PlaceOf(slot[s].state)
  PROVE  UNCHANGED <<Limit, Place>>
BY DEF Limit, Place, PlaceOf

\* A reservation takes a place: the counters that admission reads count what the
\* pool has given out, and its target is below the limit.
LEMMA ReserveTakes ==
  ASSUME TypeOK, CountersInv, LimitsRegistered, NEW s \in Slots, NEW r \in Runs, NEW h \in Hosts,
         NEW scope \in Scopes, TryReserveSlot(s, r, h, scope)
  PROVE  Pool!Take(s)
<1>1. /\ slot[s].state = "none" /\ host[h].status = "ready" /\ host' = host /\ HasRoom(h, scope) /\ ~ RunHasSlot(r)
      /\ slot' = [slot EXCEPT ![s] = [state |-> "reserved", run |-> r, host |-> h, scope |-> scope, live |-> TRUE]]
  BY DEF TryReserveSlot
<1>2. Place[s].state = "unused"
  BY <1>1, PlaceIs, PlaceTells
<1>3. Place' = [Place EXCEPT ![s] = [state |-> "held", run |-> r, host |-> h, scope |-> scope]]
  BY <1>1 DEF Place, PlaceOf, ActiveSlot, TypeOK
<1>4. \A t \in Slots : Place[t].state = "held" => Place[t].run # r
  BY <1>1, PlaceIs, PlaceTells DEF RunHasSlot
<1>5. ASSUME NEW d \in {"total", scope} PROVE Pool!Cardinality(Pool!Out(h, d)) < Limit[h][d]
  <2>1. d \in Dims /\ d \in Touched(scope)
    BY DEF Dims, Scopes, Touched
  <2>2. active[h][d] \in Nat /\ reserved[h][d] \in Nat /\ host[h].max[d] \in Nat /\ host[h].max[d] > 0
    BY <1>1, <2>1 DEF TypeOK, HostRow, LimitsRegistered
  <2>3. active[h][d] + reserved[h][d] < Target(host[h].max[d])
    BY <1>1, <2>1 DEF HasRoom
  <2>4. active[h][d] + reserved[h][d] + 1 <= host[h].max[d]
    BY <2>2, <2>3, TargetWithinLimit
  <2>5. Limit[h][d] = host[h].max[d]
    BY DEF Limit
  <2> QED BY <2>1, <2>2, <2>4, <2>5, OutIsCounted
<1>6. UNCHANGED Limit
  BY <1>1 DEF Limit
<1>7. Pool!Scopes = Scopes
  BY DEF Pool!Scopes, Scopes
<1> QED BY <1>2, <1>3, <1>4, <1>5, <1>6, <1>7 DEF Pool!Take

\* Acceptance leaves the place where it is.
LEMMA AcceptRests ==
  ASSUME TypeOK, NEW s \in Slots, AcceptSlot(s), UNCHANGED host
  PROVE  UNCHANGED <<Limit, Place>>
<1>1. slot[s].state = "reserved" /\ slot' = [slot EXCEPT ![s].state = "accepted"]
  BY DEF AcceptSlot
<1> QED BY <1>1, PoolRests DEF TypeOK, SlotRow, PlaceOf, ActiveSlot

\* Whoever closes a Slot gives its place back, the first time.
LEMMA CloseGivesBack ==
  ASSUME TypeOK, NEW s \in Slots, NEW state \in ClosedSlot, CloseSlot(s, state), UNCHANGED host
  PROVE  Pool!GiveBack(s) \/ UNCHANGED <<Limit, Place>>
<1>1. UNCHANGED Limit
  BY DEF Limit
<1>2. CASE slot[s].state \in ActiveSlot /\ slot' = [slot EXCEPT ![s].state = state]
  <2>1. Place[s].state = "held"
    BY <1>2, PlaceIs, PlaceTells
  <2>2. PlaceOf(state) = "closed"
    BY DEF PlaceOf, ActiveSlot, ClosedSlot
  <2>3. \A t \in Slots : slot'[t] = IF t = s THEN [slot[s] EXCEPT !.state = state] ELSE slot[t]
    BY <1>2 DEF TypeOK
  <2>4. Place'[s] = [Place[s] EXCEPT !.state = "closed"]
    BY <2>2, <2>3 DEF Place, TypeOK, SlotRow
  <2>5. \A t \in Slots : t # s => Place'[t] = Place[t]
    BY <2>3 DEF Place
  <2>6. Place' = [Place EXCEPT ![s].state = "closed"]
    BY <2>4, <2>5 DEF Place
  <2> QED BY <1>1, <2>1, <2>6 DEF Pool!GiveBack
<1>3. CASE UNCHANGED slot
  BY <1>1, <1>3 DEF Place
<1> QED BY <1>2, <1>3 DEF CloseSlot, ActiveSlot

\* Of the steps of a Host only a registration changes limits, and it is refused
\* below what the counters say.
LEMMA HostStepSets ==
  ASSUME TypeOK, CountersInv, HostStep
  PROVE  (\E h \in Hosts, max \in Limits : Pool!SetLimit(h, max)) \/ UNCHANGED <<Limit, Place>>
<1>1. UNCHANGED slot
  BY DEF HostStep, RegisterHost, HeartbeatHost, DrainHost, HostFoundLate, RecalculateHostCounters
<1>2. UNCHANGED Place
  BY <1>1 DEF Place
<1>3. ASSUME NEW h \in Hosts, RegisterHost(h)
      PROVE  \E max \in Limits : Pool!SetLimit(h, max)
  <2>1. PICK max \in Limits :
          /\ \A d \in Dims : active[h][d] + reserved[h][d] <= max[d]
          /\ \E recovery : host' = [host EXCEPT ![h] = [status |-> "registering", max |-> max, recovery |-> recovery]]
    BY <1>3 DEF RegisterHost
  <2>2. \A g \in Hosts : host'[g].max = IF g = h THEN max ELSE host[g].max
    BY <2>1 DEF TypeOK, HostRow
  <2>3. Limit' = [Limit EXCEPT ![h] = max]
    BY <2>2 DEF Limit
  <2>4. \A d \in Dims : Pool!Cardinality(Pool!Out(h, d)) <= max[d]
    BY <2>1, OutIsCounted
  <2> QED BY <1>2, <2>3, <2>4 DEF Pool!SetLimit, Pool!Dims, Pool!Scopes, Dims, Scopes
<1>4. CASE \E h \in Hosts : HeartbeatHost(h) \/ DrainHost(h) \/ HostFoundLate(h)
  BY <1>2, <1>4, StatusStepKeepsLimits DEF Limit
<1>5. CASE RecalculateHostCounters
  <2>1. \A g \in Hosts : host'[g].max = host[g].max
    BY <1>5 DEF RecalculateHostCounters, TypeOK, HostRow
  <2> QED BY <1>2, <2>1 DEF Limit
<1> QED BY <1>3, <1>4, <1>5 DEF HostStep

\* Every step is a step of the pool, or none.
LEMMA StepRefines ==
  ASSUME TypeOK, WorkerHasSlot, CountersInv, LimitsRegistered, [Next]_vars
  PROVE  [Pool!Next]_<<Limit, Place>>
<1>1. CASE UNCHANGED <<host, reserved, active, slot>>
  BY <1>1 DEF Limit, Place
<1>2. CASE HostStep
  BY <1>2, HostStepSets DEF Pool!Next
<1>3. CASE \E s \in Slots, r \in Runs, h \in Hosts, scope \in Scopes : TryReserveSlot(s, r, h, scope)
  BY <1>3, ReserveTakes DEF Pool!Next
<1>4. CASE \E s \in Slots : UNCHANGED host /\ AcceptSlot(s)
  BY <1>4, AcceptRests
<1>5. CASE \E s \in Slots, state \in ClosedSlot : UNCHANGED host /\ CloseSlot(s, state)
  BY <1>5, CloseGivesBack DEF Pool!Next
<1>6. CASE \E s \in Slots : SlotLeaseExpires(s)
  <2>1. \A t \in Slots : /\ slot'[t].run = slot[t].run /\ slot'[t].host = slot[t].host
                         /\ slot'[t].scope = slot[t].scope /\ slot'[t].state = slot[t].state
    BY <1>6 DEF SlotLeaseExpires, TypeOK, SlotRow
  <2>2. UNCHANGED host
    BY <1>6 DEF SlotLeaseExpires, hostVars
  <2> QED BY <2>1, <2>2, PoolRests
<1> QED BY <1>1, <1>2, <1>3, <1>4, <1>5, <1>6, SlotSteps DEF vars

\* For any number of Hosts, Runs, Slots and workers: counters, leases, acceptance,
\* recovery, convergence and sweeps do only what a pool does that counts the Slots
\* it gave out.
THEOREM SlotsImplementPool == Spec => ImplementsSlotPool
<1>1. Init => Pool!Init
  BY DEF Init, Limit, Place, PlaceOf, UnusedSlot, Pool!Init, Pool!Dims, Pool!Scopes, Dims, Scopes
<1> QED BY <1>1, StepRefines, TypingAlways, CountersInvAlways, PTL DEF Spec, ImplementsSlotPool, Pool!Spec, Pool!vars
===============================================================================
