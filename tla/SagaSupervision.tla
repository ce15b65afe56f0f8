-------------------------- MODULE SagaSupervision --------------------------
(***************************************************************************)
(* The sweeps over the sagas in flight, ResumeInFlight and TimeoutInFlight,*)
(* one step per database access, of one process, while sagas go on: their  *)
(* answers are handled here or by another replica.  Module Allocation has  *)
(* each sweep act on one saga in one step; here a sweep lists the streams, *)
(* loads them all, then acts on what it loaded, one after the other, and   *)
(* ends at the first error.                                                *)
(*                                                                         *)
(* awaited[o] says whether anything that will move saga o on is under way: *)
(* a command, its answer or the event that carries it.  A lost send leaves *)
(* it FALSE.  overdue[o] says whether the last event of o is older than    *)
(* SAGA_STEP_TIMEOUT: time makes it TRUE, an event makes it FALSE.         *)
(***************************************************************************)
EXTENDS OrderAllocationSaga

CONSTANTS Listing,      \* the orders, in the order ListStreams sorts their streams
          Lines,        \* Lines[o]: the rows of order o
          MaxFaults     \* bound on the number of faults

Orders == {Listing[i] : i \in DOMAIN Listing}

ASSUME SupervisionAssumption ==
  /\ \A o \in Orders : Lines[o] # << >>
  /\ MaxFaults \in Nat

VARIABLES saga,      \* saga[o]: what the stream of o replays to
          version,   \* version[o]: how often it was saved
          overdue,   \* overdue[o]
          awaited,   \* awaited[o]
          sweep,     \* progress of the sweep
          faults     \* faults so far

sagaVars == <<saga, version, overdue, awaited>>

supervisionVars == <<saga, version, overdue, awaited, sweep, faults>>

NoSweep == [kind |-> "none", todo |-> {}, loaded |-> << >>, checked |-> FALSE]

Sweeping(kind) == sweep.kind = kind

Fault ==
  /\ faults < MaxFaults
  /\ faults' = faults + 1

-----------------------------------------------------------------------------
(* The sagas, as far as the sweeps see them.                               *)

\* An event is appended to the stream of o; what follows it is sent, or lost.
Recorded(o, s, sent) ==
  /\ saga' = [saga EXCEPT ![o] = s]
  /\ version' = [version EXCEPT ![o] = @ + 1]
  /\ overdue' = [overdue EXCEPT ![o] = FALSE]
  /\ awaited' = [awaited EXCEPT ![o] = sent /\ InFlight(s)]

RecordedOrLost(o, s) ==
  \/ Recorded(o, s, TRUE) /\ UNCHANGED faults
  \/ Recorded(o, s, FALSE) /\ Fault

\* OnSalesOrderCreated.
Start(o) ==
  /\ saga[o].status = "none"
  /\ RecordedOrLost(o, StartOrderAllocation(Lines[o]))
  /\ UNCHANGED sweep

\* What the next answer makes of saga s of order o.
Answers(o, s) ==
  LET beer(i) == Lines[o][i].beer
  IN  IF s.status = "running"
        THEN {RecordAllocationSucceeded(s, Lines[o], beer(NextPendingRow(s))),
              RecordQuantityNotFound(s, Lines[o], beer(NextPendingRow(s)))}
        ELSE {RecordCompensated(s, Lines[o], beer(i)) : i \in RowsToCompensate(s)}

\* A handler of the saga, in this process or in another replica, records a step.
Progress(o) ==
  /\ awaited[o]
  /\ InFlight(saga[o])
  /\ \E s \in Answers(o, saga[o]) : RecordedOrLost(o, s)
  /\ UNCHANGED sweep

\* The watchdog of another replica is faster.
TimedOutElsewhere(o) ==
  /\ overdue[o]
  /\ saga[o].status = "running"
  /\ RecordedOrLost(o, RecordQuantityNotFound(saga[o], Lines[o],
                         Lines[o][NextPendingRow(saga[o])].beer))
  /\ UNCHANGED sweep

\* Time passes and nothing happens to o.
TimePasses(o) ==
  /\ InFlight(saga[o])
  /\ ~overdue[o]
  /\ overdue' = [overdue EXCEPT ![o] = TRUE]
  /\ UNCHANGED <<saga, version, awaited, sweep, faults>>

-----------------------------------------------------------------------------
(* A sweep.                                                                *)

ListStreams(kind) ==
  /\ sweep = NoSweep
  /\ sweep' = [NoSweep EXCEPT !.kind = kind,
                 !.todo = {i \in DOMAIN Listing : saga[Listing[i]].status # "none"}]
  /\ UNCHANGED <<sagaVars, faults>>

\* The streams are loaded in the order in which they are listed.
IsNext(i) == \A j \in sweep.todo : i <= j

\* The loop of inFlight: loads the next saga, and keeps it if it is in flight.
\* unreadable has the orders whose stream cannot be decoded.
inFlight(unreadable) ==
  /\ \E i \in sweep.todo :
       LET o == Listing[i]
       IN  /\ IsNext(i)
           /\ o \notin unreadable
           /\ sweep' = [sweep EXCEPT !.todo = @ \ {i},
                !.loaded = IF InFlight(saga[o])
                  THEN Append(@, [order |-> o, saga |-> saga[o], version |-> version[o]])
                  ELSE @]
  /\ UNCHANGED <<sagaVars, faults>>

Acting == sweep.todo = {} /\ sweep.loaded # << >>

Current == Head(sweep.loaded)

NextSaga == sweep' = [sweep EXCEPT !.loaded = Tail(@), !.checked = FALSE]

\* Commands are sent for the saga as it was loaded: they only move it on if it
\* is still there, and are repetitions without effect otherwise.
Resent(heard) ==
  LET o == Current.order
  IN  awaited' = [awaited EXCEPT
        ![o] = @ \/ (heard /\ InFlight(saga[o]) /\ Current.version = version[o])]

\* ResumeInFlight drives a saga; heard says whether the bus has subscribers.
drive(heard) ==
  /\ Sweeping("resume")
  /\ Acting
  /\ Resent(heard)
  /\ NextSaga
  /\ UNCHANGED <<saga, version, overdue, faults>>

\* TimeoutInFlight looks up the last activity; it leaves a recent one alone and
\* sends the compensations of an overdue one again.
lastActivityOf(heard) ==
  /\ Sweeping("timeout")
  /\ Acting
  /\ ~sweep.checked
  /\ \/ /\ ~overdue[Current.order]
        /\ NextSaga
        /\ UNCHANGED awaited
     \/ /\ overdue[Current.order]
        /\ Current.saga.status = "compensating"
        /\ NextSaga
        /\ Resent(heard)
     \/ /\ overdue[Current.order]
        /\ Current.saga.status = "running"
        /\ sweep' = [sweep EXCEPT !.checked = TRUE]
        /\ UNCHANGED awaited
  /\ UNCHANGED <<saga, version, overdue, faults>>

TimedOut(c) ==
  RecordQuantityNotFound(c.saga, Lines[c.order],
                         Lines[c.order][NextPendingRow(c.saga)].beer)

\* Mutant: the save does not compare the version.
SaveBlindly(heard) ==
  /\ sweep.checked
  /\ Recorded(Current.order, TimedOut(Current), heard)
  /\ NextSaga
  /\ UNCHANGED faults

\* It fails the pending step of an overdue one that runs; the save goes through
\* if the stream is as it was loaded.
SaveTimedOut(heard) ==
  /\ sweep.checked
  /\ Current.version = version[Current.order]
  /\ Recorded(Current.order, TimedOut(Current), heard)
  /\ NextSaga
  /\ UNCHANGED faults

SweepEnds ==
  /\ sweep # NoSweep
  /\ sweep.todo = {} /\ sweep.loaded = << >>
  /\ sweep' = NoSweep
  /\ UNCHANGED <<sagaVars, faults>>

\* The sweep returns the error of the saga at hand, and the rest is left out: a
\* stream that cannot be decoded, a conflict with a handler that was faster.
SweepRefused(unreadable) ==
  /\ \/ \E i \in sweep.todo : IsNext(i) /\ Listing[i] \in unreadable
     \/ sweep.checked /\ Current.version # version[Current.order]
  /\ sweep' = NoSweep
  /\ UNCHANGED <<sagaVars, faults>>

\* Or a query or a send fails; the latter possibly after the save.
SweepFails ==
  /\ sweep # NoSweep
  /\ Fault
  /\ sweep' = NoSweep
  /\ \/ UNCHANGED sagaVars
     \/ /\ sweep.checked
        /\ Current.version = version[Current.order]
        /\ Recorded(Current.order, TimedOut(Current), FALSE)

-----------------------------------------------------------------------------
\* Sagas that an earlier process started, their first command under way or lost.
SupervisionInit(orders) ==
  /\ saga = [o \in Orders |-> IF o \in orders THEN StartOrderAllocation(Lines[o])
                                              ELSE NoSaga(Lines[o])]
  /\ version = [o \in Orders |-> IF o \in orders THEN 1 ELSE 0]
  /\ overdue = [o \in Orders |-> FALSE]
  /\ awaited \in [Orders -> BOOLEAN]
  /\ \A o \in Orders \ orders : ~awaited[o]
  /\ sweep = NoSweep

-----------------------------------------------------------------------------
\* Streams and sweep hold what they may hold; a sweep's copy of a saga is of
\* the stream as it is or was, and a copy of the same version is the same saga.
SupervisionTypeOK ==
  /\ \A o \in Orders :
       /\ saga[o].status \in SagaStatus
       /\ DOMAIN saga[o].rows = DOMAIN Lines[o]
       /\ version[o] \in Nat
       /\ overdue[o] \in BOOLEAN /\ awaited[o] \in BOOLEAN
       /\ awaited[o] \/ overdue[o] => InFlight(saga[o])
  /\ sweep.kind \in {"none", "resume", "timeout"}
  /\ sweep.todo \subseteq DOMAIN Listing
  /\ \A i \in DOMAIN sweep.loaded :
       LET c == sweep.loaded[i]
       IN  /\ InFlight(c.saga)
           /\ c.version <= version[c.order]
           /\ c.version = version[c.order] => c.saga = saga[c.order]

\* "Fails the pending step of every saga whose last recorded event is older
\* than the cutoff", and of no other: a saga that an answer has reached since it
\* was loaded, or since its last activity was read, is left to the answer.
OnlyOverdueStepsFail ==
  [][\A o \in Orders :
       saga'[o] # saga[o] /\ sweep' # sweep
         => overdue[o] /\ saga[o].status = "running"]_supervisionVars
=============================================================================
