------------------------ MODULE OrderAllocationSaga ------------------------
(***************************************************************************)
(* The event-sourced OrderAllocationSaga aggregate                         *)
(* (internal/warehouses/domain/order_allocation_saga.go), as operators on  *)
(* the state its stream replays to.                                        *)
(*                                                                         *)
(* A saga is a record [status, rows]: rows gives the state of every row of *)
(* the order, in the order of the order's lines.  The data of a row (beer, *)
(* quantity) never changes after OrderAllocationStarted, so it stays in    *)
(* lines, a sequence of [beer, quantity] records.  The rejection reason is *)
(* text and is left out.                                                   *)
(*                                                                         *)
(* Every Record* operator returns the saga unchanged where the method      *)
(* returns false; a recorded transition always changes a row.              *)
(***************************************************************************)
EXTENDS Naturals, Sequences

SagaStatus == {"none", "running", "compensating", "completed", "rejected"}

SagaRowState == {"pending", "allocated", "failed", "compensated"}

\* NewOrderAllocationSaga: the empty stream.
NoSaga(lines) == [status |-> "none", rows |-> [i \in DOMAIN lines |-> "pending"]]

Settled(s) == s.status \in {"completed", "rejected"}

\* What inFlight keeps of the listed streams.
InFlight(s) == s.status \in {"running", "compensating"}

rowInState(s, lines, beer, state) ==
  \E i \in DOMAIN lines : lines[i].beer = beer /\ s.rows[i] = state

allRowsIn(s, state) == \A i \in DOMAIN s.rows : s.rows[i] = state

\* Every row of the beer takes the state, not only the row that was sent.
setRowState(s, lines, beer, state) ==
  [i \in DOMAIN lines |-> IF lines[i].beer = beer THEN state ELSE s.rows[i]]

RowsToCompensate(s) ==
  {i \in DOMAIN s.rows : s.status = "compensating" /\ s.rows[i] = "allocated"}

\* Mutant: takes the rows from the last to the first.
LastPendingRow(s) ==
  CHOOSE i \in DOMAIN s.rows :
    /\ s.rows[i] = "pending"
    /\ \A j \in DOMAIN s.rows : s.rows[j] = "pending" => i >= j

NextPendingRow(s) ==
  CHOOSE i \in DOMAIN s.rows :
    /\ s.rows[i] = "pending"
    /\ \A j \in DOMAIN s.rows : s.rows[j] = "pending" => i <= j

\* An order without rows completes in the transition that starts it.
StartOrderAllocation(lines) ==
  [NoSaga(lines) EXCEPT !.status = IF lines = << >> THEN "completed" ELSE "running"]

\* The guard RecordAllocationSucceeded and RecordQuantityNotFound share.
AwaitsStep(s, lines, beer) ==
  s.status = "running" /\ rowInState(s, lines, beer, "pending")

\* Mutant: completes on the first allocated row.
EagerAllocationSucceeded(s, lines, beer) ==
  IF AwaitsStep(s, lines, beer)
    THEN [status |-> "completed", rows |-> setRowState(s, lines, beer, "allocated")]
    ELSE s

RecordAllocationSucceeded(s, lines, beer) ==
  LET t == [s EXCEPT !.rows = setRowState(s, lines, beer, "allocated")]
  IN  IF ~AwaitsStep(s, lines, beer) THEN s
      ELSE IF allRowsIn(t, "allocated") THEN [t EXCEPT !.status = "completed"]
      ELSE t

\* Mutant: forgets that the saga may already be compensating or settled.
UnguardedQuantityNotFound(s, lines, beer) ==
  LET t == [status |-> "compensating", rows |-> setRowState(s, lines, beer, "failed")]
  IN  IF s.status = "none" THEN s
      ELSE IF RowsToCompensate(t) = {} THEN [t EXCEPT !.status = "rejected"]
      ELSE t

\* Mutant: rejects at once, whatever is already allocated.
AbandonedQuantityNotFound(s, lines, beer) ==
  IF AwaitsStep(s, lines, beer)
    THEN [status |-> "rejected", rows |-> setRowState(s, lines, beer, "failed")]
    ELSE s

RecordQuantityNotFound(s, lines, beer) ==
  LET t == [status |-> "compensating", rows |-> setRowState(s, lines, beer, "failed")]
  IN  IF ~AwaitsStep(s, lines, beer) THEN s
      ELSE IF RowsToCompensate(t) = {} THEN [t EXCEPT !.status = "rejected"]
      ELSE t

\* Mutant: records the last undone row without rejecting.
UnfinishedCompensated(s, lines, beer) ==
  IF s.status = "compensating" /\ rowInState(s, lines, beer, "allocated")
    THEN [s EXCEPT !.rows = setRowState(s, lines, beer, "compensated")]
    ELSE s

RecordCompensated(s, lines, beer) ==
  LET t == [s EXCEPT !.rows = setRowState(s, lines, beer, "compensated")]
  IN  IF ~(s.status = "compensating" /\ rowInState(s, lines, beer, "allocated")) THEN s
      ELSE IF RowsToCompensate(t) = {} THEN [t EXCEPT !.status = "rejected"]
      ELSE t
=============================================================================
