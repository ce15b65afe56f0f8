----------------------- MODULE SagaSupervisionProofs -----------------------
(***************************************************************************)
(* What the sweeps of SagaSupervision keep true, step by step.  Module     *)
(* AppProofs concludes from it what holds of a process.                    *)
(***************************************************************************)
EXTENDS SagaSupervision, TLAPS

SagaOf(o) == [status : SagaStatus, rows : [DOMAIN Lines[o] -> SagaRowState]]

AnySaga == UNION {SagaOf(o) : o \in Orders}

Copy == [order : Orders, saga : AnySaga, version : Nat]

\* Streams.
SagasOK ==
  /\ saga \in [Orders -> AnySaga]
  /\ \A o \in Orders : saga[o] \in SagaOf(o)
  /\ version \in [Orders -> Nat]
  /\ overdue \in [Orders -> BOOLEAN]
  /\ awaited \in [Orders -> BOOLEAN]
  /\ \A o \in Orders : awaited[o] \/ overdue[o] => InFlight(saga[o])

\* A loaded saga is the stream as it is or was.
CopyOK(c) ==
  /\ c.saga \in SagaOf(c.order)
  /\ InFlight(c.saga)
  /\ c.version <= version[c.order]
  /\ c.version = version[c.order] => c.saga = saga[c.order]

SweepOK ==
  /\ sweep \in [kind : {"none", "resume", "timeout"}, todo : SUBSET DOMAIN Listing,
                loaded : Seq(Copy), checked : BOOLEAN]
  /\ \A i \in DOMAIN sweep.loaded : CopyOK(sweep.loaded[i])

\* What the watchdog has found overdue still is, unless the stream has moved on.
CheckedOK ==
  sweep.checked =>
    /\ sweep.todo = {} /\ sweep.loaded # << >>
    /\ Current.saga.status = "running"
    /\ Current.version = version[Current.order] => overdue[Current.order]

SInv == SagasOK /\ SweepOK /\ CheckedOK

-----------------------------------------------------------------------------
(* The aggregate.                                                          *)

\* A transition of the aggregate yields a saga of the same order.
LEMMA SagaTransitions ==
  ASSUME NEW o \in Orders, NEW s \in SagaOf(o), NEW beer
  PROVE  /\ RecordAllocationSucceeded(s, Lines[o], beer) \in SagaOf(o)
         /\ RecordQuantityNotFound(s, Lines[o], beer) \in SagaOf(o)
         /\ RecordCompensated(s, Lines[o], beer) \in SagaOf(o)
<1>1. \A state \in SagaRowState :
        setRowState(s, Lines[o], beer, state) \in [DOMAIN Lines[o] -> SagaRowState]
  BY DEF setRowState, SagaOf
<1>2. "allocated" \in SagaRowState /\ "failed" \in SagaRowState
        /\ "compensated" \in SagaRowState
  BY DEF SagaRowState
<1>3. {"completed", "rejected", "compensating"} \subseteq SagaStatus
  BY DEF SagaStatus
<1>4. RecordAllocationSucceeded(s, Lines[o], beer) \in SagaOf(o)
  BY <1>1, <1>2, <1>3 DEF RecordAllocationSucceeded, SagaOf
<1>5. RecordQuantityNotFound(s, Lines[o], beer) \in SagaOf(o)
  BY <1>1, <1>2, <1>3 DEF RecordQuantityNotFound, SagaOf
<1>6. RecordCompensated(s, Lines[o], beer) \in SagaOf(o)
  BY <1>1, <1>2, <1>3 DEF RecordCompensated, SagaOf
<1> QED
  BY <1>4, <1>5, <1>6

\* A stream begins empty or with a started saga.
LEMMA SagaBeginnings ==
  ASSUME NEW o \in Orders
  PROVE  /\ NoSaga(Lines[o]) \in SagaOf(o)
         /\ StartOrderAllocation(Lines[o]) \in SagaOf(o)
         /\ InFlight(StartOrderAllocation(Lines[o]))
<1>1. Lines[o] # << >>
  BY SupervisionAssumption
<1>2. NoSaga(Lines[o]) \in SagaOf(o)
  BY DEF NoSaga, SagaOf, SagaStatus, SagaRowState
<1>3. StartOrderAllocation(Lines[o]) = [NoSaga(Lines[o]) EXCEPT !.status = "running"]
  BY <1>1 DEF StartOrderAllocation
<1> QED
  BY <1>2, <1>3 DEF SagaOf, SagaStatus, InFlight, NoSaga

\* Every answer yields a saga of the same order.
LEMMA AnswersAreSagas ==
  ASSUME NEW o \in Orders, NEW s \in SagaOf(o), NEW t \in Answers(o, s)
  PROVE  t \in SagaOf(o)
BY SagaTransitions DEF Answers

-----------------------------------------------------------------------------
(* What a save does to the streams and to the copies of them.              *)

\* A save keeps the streams well-formed, turns every copy of the stream into an
\* old one, and leaves the other streams alone.
LEMMA RecordedOK ==
  ASSUME SagasOK, NEW o \in Orders, NEW s \in SagaOf(o), NEW sent \in BOOLEAN,
         Recorded(o, s, sent)
  PROVE  /\ SagasOK'
         /\ \A c \in Copy : CopyOK(c) => CopyOK(c)'
         /\ \A c \in Copy : CopyOK(c) /\ c.version = version'[c.order]
              => /\ c.version = version[c.order]
                 /\ overdue'[c.order] = overdue[c.order]
<1>1. /\ saga \in [Orders -> AnySaga] /\ version \in [Orders -> Nat]
      /\ overdue \in [Orders -> BOOLEAN] /\ awaited \in [Orders -> BOOLEAN]
  BY DEF SagasOK
<1>2. /\ saga' = [saga EXCEPT ![o] = s]
      /\ version' = [version EXCEPT ![o] = version[o] + 1]
      /\ overdue' = [overdue EXCEPT ![o] = FALSE]
      /\ awaited' = [awaited EXCEPT ![o] = sent /\ InFlight(s)]
  BY DEF Recorded
<1>3. s \in AnySaga
  BY DEF AnySaga
<1>4. /\ saga' \in [Orders -> AnySaga] /\ version' \in [Orders -> Nat]
      /\ overdue' \in [Orders -> BOOLEAN] /\ awaited' \in [Orders -> BOOLEAN]
  <2>1. (sent /\ InFlight(s)) \in BOOLEAN
    OBVIOUS
  <2> QED
    BY <1>1, <1>2, <1>3, <2>1
<1>5. \A p \in Orders : IF p = o
        THEN /\ saga'[p] = s /\ version'[p] = version[p] + 1
             /\ overdue'[p] = FALSE /\ awaited'[p] = (sent /\ InFlight(s))
        ELSE /\ saga'[p] = saga[p] /\ version'[p] = version[p]
             /\ overdue'[p] = overdue[p] /\ awaited'[p] = awaited[p]
  BY <1>1, <1>2
<1>6. SagasOK'
  <2>1. \A p \in Orders : saga'[p] \in SagaOf(p)
    BY <1>5 DEF SagasOK
  <2>2. \A p \in Orders : awaited'[p] \/ overdue'[p] => InFlight(saga'[p])
    BY <1>5 DEF SagasOK
  <2>3. (\A p \in Orders : awaited[p] \/ overdue[p] => InFlight(saga[p]))'
    BY <2>2 DEF InFlight
  <2> QED
    BY <1>4, <2>1, <2>3 DEF SagasOK, SagaOf
<1>7. ASSUME NEW c \in Copy, CopyOK(c)
      PROVE  /\ CopyOK(c)'
             /\ c.version = version'[c.order]
                  => c.version = version[c.order] /\ overdue'[c.order] = overdue[c.order]
  <2>1. c.order \in Orders /\ c.version \in Nat /\ version[c.order] \in Nat
    BY <1>1 DEF Copy
  <2>2. c.version <= version[c.order]
    BY <1>7 DEF CopyOK
  <2>3. CASE c.order = o
    <3>1. c.version < version'[c.order]
      BY <1>5, <2>1, <2>2, <2>3
    <3> QED
      BY <1>7, <1>4, <2>1, <3>1 DEF CopyOK, InFlight, SagaOf
  <2>4. CASE c.order # o
    BY <1>5, <1>7, <2>1, <2>4 DEF CopyOK, InFlight, SagaOf
  <2> QED
    BY <2>3, <2>4
<1> QED
  BY <1>6, <1>7

\* Sends after a save, and nothing else.
LEMMA RecordedOrLostOK ==
  ASSUME SInv, NEW o \in Orders, NEW s \in SagaOf(o), RecordedOrLost(o, s), UNCHANGED sweep
  PROVE  SInv'
<1>1. PICK sent \in BOOLEAN : Recorded(o, s, sent)
  BY DEF RecordedOrLost
<1>2. /\ SagasOK'
      /\ \A c \in Copy : CopyOK(c) => CopyOK(c)'
      /\ \A c \in Copy : CopyOK(c) /\ c.version = version'[c.order]
           => c.version = version[c.order] /\ overdue'[c.order] = overdue[c.order]
  BY <1>1, RecordedOK DEF SInv
<1>3. SweepOK'
  BY <1>2 DEF SInv, SweepOK
<1>4. CheckedOK'
  <2> SUFFICES ASSUME sweep'.checked
               PROVE  /\ sweep'.todo = {} /\ sweep'.loaded # << >>
                      /\ Current'.saga.status = "running"
                      /\ Current'.version = version'[Current'.order] => overdue'[Current'.order]
    BY DEF CheckedOK
  <2>1. sweep' = sweep /\ Current' = Current
    BY DEF Current
  <2>2. /\ sweep.todo = {} /\ sweep.loaded # << >> /\ Current.saga.status = "running"
        /\ Current.version = version[Current.order] => overdue[Current.order]
    BY <2>1 DEF SInv, CheckedOK
  <2>3. Current \in Copy /\ CopyOK(Current)
    BY <2>2 DEF SInv, SweepOK, Current
  <2> QED
    BY <1>2, <2>1, <2>2, <2>3
<1> QED
  BY <1>2, <1>3, <1>4 DEF SInv

-----------------------------------------------------------------------------
(* What a sweep does to its copies.                                        *)

\* The sweep has finished with the saga at hand.
LEMMA NextSagaOK ==
  ASSUME SInv, SagasOK', sweep.loaded # << >>, NextSaga,
         \A c \in Copy : CopyOK(c) => CopyOK(c)'
  PROVE  SInv'
<1>1. /\ sweep \in [kind : {"none", "resume", "timeout"}, todo : SUBSET DOMAIN Listing,
                    loaded : Seq(Copy), checked : BOOLEAN]
      /\ \A i \in DOMAIN sweep.loaded : CopyOK(sweep.loaded[i])
  BY DEF SInv, SweepOK
<1>2. sweep' = [sweep EXCEPT !.loaded = Tail(sweep.loaded), !.checked = FALSE]
  BY DEF NextSaga
<1>3. sweep.loaded \in Seq(Copy) /\ Tail(sweep.loaded) \in Seq(Copy)
  BY <1>1
<1>4. sweep' \in [kind : {"none", "resume", "timeout"}, todo : SUBSET DOMAIN Listing,
                  loaded : Seq(Copy), checked : BOOLEAN]
  BY <1>1, <1>2, <1>3
<1>5. sweep'.loaded = Tail(sweep.loaded) /\ sweep'.checked = FALSE
  BY <1>1, <1>2
<1>6. ASSUME NEW i \in DOMAIN Tail(sweep.loaded)
      PROVE  /\ Tail(sweep.loaded)[i] \in Copy
             /\ CopyOK(Tail(sweep.loaded)[i])
  <2>1. i + 1 \in DOMAIN sweep.loaded /\ Tail(sweep.loaded)[i] = sweep.loaded[i + 1]
    BY <1>3
  <2> QED
    BY <1>1, <1>3, <2>1
<1>7. SweepOK'
  BY <1>4, <1>5, <1>6 DEF SweepOK
<1>8. CheckedOK'
  BY <1>5 DEF CheckedOK
<1> QED
  BY <1>7, <1>8 DEF SInv

\* The saga at hand is a copy of a stream.
LEMMA CurrentOK ==
  ASSUME SInv, sweep.loaded # << >>
  PROVE  /\ Current \in Copy /\ CopyOK(Current)
         /\ Current.order \in Orders /\ Current.saga \in SagaOf(Current.order)
<1>1. sweep.loaded \in Seq(Copy) /\ \A i \in DOMAIN sweep.loaded : CopyOK(sweep.loaded[i])
  BY DEF SInv, SweepOK
<1>2. Current \in Copy /\ CopyOK(Current)
  BY <1>1 DEF Current
<1> QED
  BY <1>2 DEF Copy, CopyOK

\* Sending again changes nothing but what is under way.
LEMMA ResentOK ==
  ASSUME SInv, sweep.loaded # << >>, NEW heard \in BOOLEAN, Resent(heard),
         UNCHANGED <<saga, version, overdue>>
  PROVE  SagasOK' /\ \A c \in Copy : CopyOK(c) => CopyOK(c)'
<1>1. Current.order \in Orders
  BY CurrentOK
<1> DEFINE p == Current.order
           a == awaited[p] \/ (heard /\ InFlight(saga[p]) /\ Current.version = version[p])
<1>2. awaited' = [awaited EXCEPT ![p] = a] /\ a \in BOOLEAN
  BY DEF Resent
<1>3. a => InFlight(saga[p])
  BY <1>1 DEF SInv, SagasOK
<1> HIDE DEF p, a
<1>4. awaited' \in [Orders -> BOOLEAN]
  BY <1>2 DEF SInv, SagasOK
<1>5. \A o \in Orders : awaited'[o] => InFlight(saga[o])
  BY <1>2, <1>3 DEF SInv, SagasOK
<1>6. SagasOK'
  BY <1>4, <1>5 DEF SInv, SagasOK, InFlight, SagaOf
<1>7. \A c \in Copy : CopyOK(c) => CopyOK(c)'
  BY DEF CopyOK, InFlight, SagaOf
<1> QED
  BY <1>6, <1>7

\* The sweep is over.
LEMMA NoSweepOK ==
  ASSUME SagasOK', sweep' = NoSweep
  PROVE  SInv'
<1>1. sweep'.loaded = << >> /\ sweep'.checked = FALSE
  BY DEF NoSweep
<1>2. sweep' \in [kind : {"none", "resume", "timeout"}, todo : SUBSET DOMAIN Listing,
                  loaded : Seq(Copy), checked : BOOLEAN]
  BY DEF NoSweep
<1> QED
  BY <1>1, <1>2 DEF SInv, SweepOK, CheckedOK

\* Nothing happens to the streams.
LEMMA StreamsUnchanged ==
  ASSUME SagasOK, UNCHANGED sagaVars
  PROVE  SagasOK' /\ \A c \in Copy : CopyOK(c) => CopyOK(c)'
BY DEF SagasOK, CopyOK, sagaVars, InFlight, SagaOf

-----------------------------------------------------------------------------
(* The steps.                                                              *)

\* The beginning of a process.
LEMMA SupervisionStarts == ASSUME NEW orders, SupervisionInit(orders) PROVE SInv
<1>1. \A o \in Orders : saga[o] \in SagaOf(o) /\ (o \in orders => InFlight(saga[o]))
  BY SagaBeginnings DEF SupervisionInit
<1>2. saga \in [Orders -> AnySaga]
  BY <1>1 DEF SupervisionInit, AnySaga
<1>3. /\ version \in [Orders -> Nat] /\ overdue \in [Orders -> BOOLEAN]
      /\ awaited \in [Orders -> BOOLEAN]
  BY DEF SupervisionInit
<1>4. \A o \in Orders : awaited[o] \/ overdue[o] => InFlight(saga[o])
  BY <1>1 DEF SupervisionInit
<1>5. SweepOK /\ CheckedOK
  <2>1. sweep = NoSweep
    BY DEF SupervisionInit
  <2>2. sweep.loaded = << >> /\ sweep.checked = FALSE
    BY <2>1 DEF NoSweep
  <2>3. sweep \in [kind : {"none", "resume", "timeout"}, todo : SUBSET DOMAIN Listing,
                   loaded : Seq(Copy), checked : BOOLEAN]
    BY <2>1 DEF NoSweep
  <2> QED
    BY <2>2, <2>3 DEF SweepOK, CheckedOK
<1> QED
  BY <1>1, <1>2, <1>3, <1>4, <1>5 DEF SInv, SagasOK

\* The sagas go on.
LEMMA SagaStepsOK ==
  ASSUME SInv, NEW o \in Orders, Start(o) \/ Progress(o) \/ TimedOutElsewhere(o)
  PROVE  SInv'
<1>1. saga[o] \in SagaOf(o)
  BY DEF SInv, SagasOK
<1>2. CASE Start(o)
  BY <1>2, SagaBeginnings, RecordedOrLostOK DEF Start
<1>3. CASE Progress(o)
  BY <1>1, <1>3, AnswersAreSagas, RecordedOrLostOK DEF Progress
<1>4. CASE TimedOutElsewhere(o)
  BY <1>1, <1>4, SagaTransitions, RecordedOrLostOK DEF TimedOutElsewhere
<1> QED
  BY <1>2, <1>3, <1>4

\* Time passes.
LEMMA TimePassesOK == ASSUME SInv, NEW o \in Orders, TimePasses(o) PROVE SInv'
<1>1. /\ overdue' = [overdue EXCEPT ![o] = TRUE] /\ InFlight(saga[o])
      /\ UNCHANGED <<saga, version, awaited, sweep>>
  BY DEF TimePasses
<1>2. overdue' \in [Orders -> BOOLEAN] /\ \A p \in Orders : overdue'[p] => p = o \/ overdue[p]
  BY <1>1 DEF SInv, SagasOK
<1>3. SagasOK'
  BY <1>1, <1>2 DEF SInv, SagasOK, InFlight, SagaOf
<1>4. SweepOK'
  BY <1>1 DEF SInv, SweepOK, CopyOK, InFlight, SagaOf
<1>5. CheckedOK'
  <2>1. \A p \in Orders : overdue[p] => overdue'[p]
    BY <1>1 DEF SInv, SagasOK
  <2>2. sweep.loaded # << >> => Current.order \in Orders
    BY CurrentOK
  <2> QED
    BY <1>1, <2>1, <2>2 DEF SInv, CheckedOK, Current
<1> QED
  BY <1>3, <1>4, <1>5 DEF SInv

\* A sweep lists the streams.
LEMMA ListStreamsOK ==
  ASSUME SInv, NEW kind \in {"resume", "timeout"}, ListStreams(kind) PROVE SInv'
<1>1. SagasOK'
  BY StreamsUnchanged DEF SInv, ListStreams
<1> DEFINE listed == {i \in DOMAIN Listing : saga[Listing[i]].status # "none"}
<1>2. sweep' = [NoSweep EXCEPT !.kind = kind, !.todo = listed]
  BY DEF ListStreams
<1>3. listed \in SUBSET DOMAIN Listing
  OBVIOUS
<1> HIDE DEF listed
<1>4. sweep' = [kind |-> kind, todo |-> listed, loaded |-> << >>, checked |-> FALSE]
  BY <1>2 DEF NoSweep
<1>5. /\ sweep' \in [kind : {"none", "resume", "timeout"}, todo : SUBSET DOMAIN Listing,
                     loaded : Seq(Copy), checked : BOOLEAN]
      /\ sweep'.loaded = << >> /\ sweep'.checked = FALSE
  BY <1>3, <1>4
<1> QED
  BY <1>1, <1>5 DEF SInv, SweepOK, CheckedOK

\* A sweep loads a saga.
LEMMA inFlightOK ==
  ASSUME SInv, NEW unreadable, inFlight(unreadable) PROVE SInv'
<1>1. SagasOK' /\ \A c \in Copy : CopyOK(c) => CopyOK(c)'
  BY StreamsUnchanged DEF SInv, inFlight
<1>2. PICK i \in sweep.todo :
        sweep' = [sweep EXCEPT !.todo = sweep.todo \ {i},
          !.loaded = IF InFlight(saga[Listing[i]])
            THEN Append(sweep.loaded, [order |-> Listing[i], saga |-> saga[Listing[i]],
                                       version |-> version[Listing[i]]])
            ELSE sweep.loaded]
  BY DEF inFlight
<1> DEFINE o == Listing[i]
           c == [order |-> o, saga |-> saga[o], version |-> version[o]]
<1>3. /\ sweep \in [kind : {"none", "resume", "timeout"}, todo : SUBSET DOMAIN Listing,
                    loaded : Seq(Copy), checked : BOOLEAN]
      /\ \A j \in DOMAIN sweep.loaded : CopyOK(sweep.loaded[j])
  BY DEF SInv, SweepOK
<1>4. o \in Orders
  BY <1>3 DEF Orders
<1>5. /\ saga[o] \in SagaOf(o) /\ saga[o] \in AnySaga /\ version[o] \in Nat
  BY <1>4 DEF SInv, SagasOK
<1>6. c \in Copy /\ c.order = o /\ c.saga = saga[o] /\ c.version = version[o]
  BY <1>4, <1>5 DEF Copy
<1>7. InFlight(saga[o]) => CopyOK(c)
  BY <1>5, <1>6 DEF CopyOK
<1>8. sweep'.checked = sweep.checked /\ ~sweep.checked
  BY <1>2, <1>3 DEF SInv, CheckedOK
<1>9. CASE InFlight(saga[o])
  <2>1. sweep' = [sweep EXCEPT !.todo = sweep.todo \ {i}, !.loaded = Append(sweep.loaded, c)]
    BY <1>2, <1>9
  <2> HIDE DEF c
  <2>2. sweep.loaded \in Seq(Copy) /\ Append(sweep.loaded, c) \in Seq(Copy)
    BY <1>3, <1>6
  <2>3. /\ sweep' \in [kind : {"none", "resume", "timeout"}, todo : SUBSET DOMAIN Listing,
                       loaded : Seq(Copy), checked : BOOLEAN]
        /\ sweep'.loaded = Append(sweep.loaded, c)
    BY <1>3, <2>1, <2>2
  <2>4. ASSUME NEW j \in DOMAIN Append(sweep.loaded, c)
        PROVE  CopyOK(Append(sweep.loaded, c)[j]) /\ Append(sweep.loaded, c)[j] \in Copy
    <3>1. CASE j \in DOMAIN sweep.loaded
      BY <1>3, <2>2, <3>1
    <3>2. CASE j = Len(sweep.loaded) + 1
      BY <1>6, <1>7, <1>9, <2>2, <3>2
    <3> QED
      BY <2>2, <3>1, <3>2
  <2>5. SweepOK'
    BY <1>1, <2>3, <2>4 DEF SweepOK
  <2> QED
    BY <1>1, <1>8, <2>5 DEF SInv, CheckedOK
<1>10. CASE ~InFlight(saga[o])
  <2>1. sweep' = [sweep EXCEPT !.todo = sweep.todo \ {i}, !.loaded = sweep.loaded]
    BY <1>2, <1>10
  <2>2. /\ sweep' \in [kind : {"none", "resume", "timeout"}, todo : SUBSET DOMAIN Listing,
                       loaded : Seq(Copy), checked : BOOLEAN]
        /\ sweep'.loaded = sweep.loaded
    BY <1>3, <2>1
  <2>3. SweepOK'
    BY <1>1, <1>3, <2>2 DEF SweepOK
  <2> QED
    BY <1>1, <1>8, <2>3 DEF SInv, CheckedOK
<1> QED
  BY <1>9, <1>10

\* The resumer drives a saga.
LEMMA driveOK == ASSUME SInv, NEW heard \in BOOLEAN, drive(heard) PROVE SInv'
<1>1. /\ sweep.loaded # << >> /\ NextSaga /\ Resent(heard)
      /\ UNCHANGED <<saga, version, overdue>>
  BY DEF drive, Acting
<1> QED
  BY <1>1, ResentOK, NextSagaOK

\* The watchdog looks at the last activity.
LEMMA lastActivityOfOK ==
  ASSUME SInv, NEW heard \in BOOLEAN, lastActivityOf(heard) PROVE SInv'
<1>1. /\ sweep.todo = {} /\ sweep.loaded # << >> /\ UNCHANGED <<saga, version, overdue>>
  BY DEF lastActivityOf, Acting
<1>2. CASE NextSaga /\ UNCHANGED awaited
  <2>1. UNCHANGED sagaVars
    BY <1>1, <1>2 DEF sagaVars
  <2> QED
    BY <1>1, <1>2, <2>1, StreamsUnchanged, NextSagaOK DEF SInv
<1>3. CASE NextSaga /\ Resent(heard)
  BY <1>1, <1>3, ResentOK, NextSagaOK
<1>4. CASE /\ overdue[Current.order] /\ Current.saga.status = "running"
           /\ sweep' = [sweep EXCEPT !.checked = TRUE] /\ UNCHANGED awaited
  <2>1. SagasOK' /\ \A c \in Copy : CopyOK(c) => CopyOK(c)'
    BY <1>1, <1>4, StreamsUnchanged DEF SInv, sagaVars
  <2>2. /\ sweep \in [kind : {"none", "resume", "timeout"}, todo : SUBSET DOMAIN Listing,
                      loaded : Seq(Copy), checked : BOOLEAN]
        /\ \A i \in DOMAIN sweep.loaded : CopyOK(sweep.loaded[i])
    BY DEF SInv, SweepOK
  <2>3. /\ sweep' \in [kind : {"none", "resume", "timeout"}, todo : SUBSET DOMAIN Listing,
                       loaded : Seq(Copy), checked : BOOLEAN]
        /\ sweep'.loaded = sweep.loaded /\ sweep'.todo = sweep.todo
    BY <1>4, <2>2
  <2>4. \A i \in DOMAIN sweep.loaded : sweep.loaded[i] \in Copy
    BY <2>2
  <2>5. SweepOK'
    BY <2>1, <2>2, <2>3, <2>4 DEF SweepOK
  <2>6. CheckedOK'
    BY <1>1, <1>4, <2>3 DEF CheckedOK, Current
  <2> QED
    BY <2>1, <2>5, <2>6 DEF SInv
<1> QED
  BY <1>2, <1>3, <1>4 DEF lastActivityOf

\* What the watchdog saves is of the saga at hand, which was running and overdue
\* if the save goes through.
LEMMA TimedOutOK ==
  ASSUME SInv, sweep.checked
  PROVE  /\ sweep.loaded # << >>
         /\ Current.order \in Orders
         /\ TimedOut(Current) \in SagaOf(Current.order)
         /\ Current.version = version[Current.order]
              => overdue[Current.order] /\ saga[Current.order].status = "running"
<1>1. /\ sweep.loaded # << >> /\ Current.saga.status = "running"
      /\ Current.version = version[Current.order] => overdue[Current.order]
  BY DEF SInv, CheckedOK
<1>2. CopyOK(Current) /\ Current.order \in Orders /\ Current.saga \in SagaOf(Current.order)
  BY <1>1, CurrentOK
<1>3. TimedOut(Current) \in SagaOf(Current.order)
  BY <1>2, SagaTransitions DEF TimedOut
<1> QED
  BY <1>1, <1>2, <1>3 DEF CopyOK

\* The watchdog fails a step.
LEMMA SaveTimedOutOK == ASSUME SInv, NEW heard \in BOOLEAN, SaveTimedOut(heard) PROVE SInv'
<1>1. sweep.checked /\ Recorded(Current.order, TimedOut(Current), heard) /\ NextSaga
  BY DEF SaveTimedOut
<1>2. SagasOK' /\ \A c \in Copy : CopyOK(c) => CopyOK(c)'
  BY <1>1, TimedOutOK, RecordedOK DEF SInv
<1> QED
  BY <1>1, <1>2, TimedOutOK, NextSagaOK

\* A sweep ends, or is refused, or cancelled.
LEMMA SweepOverOK ==
  ASSUME SInv, sweep' = NoSweep, UNCHANGED sagaVars PROVE SInv'
BY StreamsUnchanged, NoSweepOK DEF SInv

\* A sweep fails, perhaps after its save.
LEMMA SweepFailsOK == ASSUME SInv, SweepFails PROVE SInv'
<1>1. sweep' = NoSweep
  BY DEF SweepFails
<1>2. CASE UNCHANGED sagaVars
  BY <1>1, <1>2, SweepOverOK
<1>3. CASE sweep.checked /\ Recorded(Current.order, TimedOut(Current), FALSE)
  <2>1. SagasOK'
    BY <1>3, TimedOutOK, RecordedOK DEF SInv
  <2> QED
    BY <1>1, <2>1, NoSweepOK
<1> QED
  BY <1>2, <1>3 DEF SweepFails

\* Nothing happens to the streams or to the sweep.
LEMMA SupervisionStutters == ASSUME SInv, UNCHANGED <<sagaVars, sweep>> PROVE SInv'
<1>1. SagasOK' /\ \A c \in Copy : CopyOK(c) => CopyOK(c)'
  BY StreamsUnchanged DEF SInv
<1>2. SweepOK'
  BY DEF SInv, SweepOK, CopyOK, sagaVars, InFlight, SagaOf
<1>3. CheckedOK'
  BY DEF SInv, CheckedOK, sagaVars, Current
<1> QED
  BY <1>1, <1>2, <1>3 DEF SInv

-----------------------------------------------------------------------------
(* What the invariant says of the sagas.                                   *)

\* Streams and sweeps are well-formed.
LEMMA SupervisionTyped == SInv => SupervisionTypeOK
<1> SUFFICES ASSUME SInv PROVE SupervisionTypeOK
  OBVIOUS
<1>1. ASSUME NEW o \in Orders
      PROVE  /\ saga[o].status \in SagaStatus /\ DOMAIN saga[o].rows = DOMAIN Lines[o]
             /\ version[o] \in Nat /\ overdue[o] \in BOOLEAN /\ awaited[o] \in BOOLEAN
             /\ awaited[o] \/ overdue[o] => InFlight(saga[o])
  <2>1. saga[o] \in SagaOf(o)
    BY DEF SInv, SagasOK
  <2>2. version[o] \in Nat /\ overdue[o] \in BOOLEAN /\ awaited[o] \in BOOLEAN
    BY DEF SInv, SagasOK
  <2> QED
    BY <2>1, <2>2 DEF SInv, SagasOK, SagaOf
<1>2. sweep.kind \in {"none", "resume", "timeout"} /\ sweep.todo \subseteq DOMAIN Listing
  BY DEF SInv, SweepOK
<1>3. \A i \in DOMAIN sweep.loaded : CopyOK(sweep.loaded[i])
  BY DEF SInv, SweepOK
<1> QED
  BY <1>1, <1>2, <1>3 DEF SupervisionTypeOK, CopyOK

\* A save of a sweep is of a saga that is overdue and running.
LEMMA SweepSavesOverdue ==
  ASSUME SInv, NEW o \in Orders, sweep.checked,
         Current.version = version[Current.order],
         NEW sent \in BOOLEAN, Recorded(Current.order, TimedOut(Current), sent),
         saga'[o] # saga[o]
  PROVE  overdue[o] /\ saga[o].status = "running"
<1>1. Current.order = o
  BY DEF Recorded, SInv, SagasOK
<1> QED
  BY <1>1, TimedOutOK
=============================================================================
