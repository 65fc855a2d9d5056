-------------------------- MODULE Replication_proofs --------------------------
(* Proofs of the safety properties of Replication for every set of items,   *)
(* errors and capacities, and for any number of changes and failures.       *)
EXTENDS Replication, SequenceTheorems, TLAPS

-----------------------------------------------------------------------------
(* AddHistoryRecord                                                         *)

(* The history holds no failure twice in a row.                             *)
NoRepetition(h) ==
    \A n \in 1 .. Len(h) - 1 : h[n] = h[n + 1] => h[n].success

(* What AddHistoryRecord keeps of the history.                              *)
Kept(h, max) == IF Len(h) >= max THEN Tail(h) ELSE h

LEMMA KeptProperties ==
    ASSUME NEW S, NEW h \in Seq(S), NEW max \in Nat \ {0}
    PROVE  /\ Kept(h, max) \in Seq(S)
           /\ Len(Kept(h, max)) = IF Len(h) >= max THEN Len(h) - 1 ELSE Len(h)
           /\ \A i \in 1 .. Len(Kept(h, max)) :
                Kept(h, max)[i] = IF Len(h) >= max THEN h[i + 1] ELSE h[i]
           /\ NoRepetition(h) => NoRepetition(Kept(h, max))
<1>0. Len(h) \in Nat
  OBVIOUS
<1>1. CASE Len(h) >= max
  <2>1. h # <<>>
    BY <1>1
  <2>2. /\ Tail(h) \in Seq(S)
        /\ Len(Tail(h)) = Len(h) - 1
        /\ \A i \in 1 .. Len(Tail(h)) : Tail(h)[i] = h[i + 1]
    BY <2>1, HeadTailProperties
  <2>3. Kept(h, max) = Tail(h)
    BY <1>1 DEF Kept
  <2>4. ASSUME NoRepetition(h), NEW n \in 1 .. Len(Tail(h)) - 1, Tail(h)[n] = Tail(h)[n + 1]
        PROVE  Tail(h)[n].success
    <3>1. n + 1 \in 1 .. Len(h) - 1 /\ n \in 1 .. Len(Tail(h)) /\ n + 1 \in 1 .. Len(Tail(h))
      BY <1>0, <2>2, <2>4
    <3>2. Tail(h)[n] = h[n + 1] /\ Tail(h)[n + 1] = h[(n + 1) + 1]
      BY <2>2, <3>1
    <3> QED
      BY <2>4, <3>1, <3>2 DEF NoRepetition
  <2>5. NoRepetition(h) => NoRepetition(Tail(h))
    BY <2>4 DEF NoRepetition
  <2> QED
    BY <1>1, <2>2, <2>3, <2>5
<1>2. CASE ~(Len(h) >= max)
  BY <1>0, <1>2 DEF Kept
<1> QED
  BY <1>1, <1>2

(* AddHistoryRecord returns a history of the old records and the new one,   *)
(* within the capacity if the old history was, without repetitions if the   *)
(* old one had none.                                                        *)
LEMMA AddHistoryRecordProperties ==
    ASSUME NEW S, NEW h \in Seq(S), NEW rec \in S, NEW max \in Nat \ {0}
    PROVE  LET new == AddHistoryRecord(h, rec, max) IN
           /\ new \in Seq(S)
           /\ Len(new) <= Len(h) \/ Len(new) <= max
           /\ \A i \in 1 .. Len(new) : new[i] = rec \/ \E j \in 1 .. Len(h) : new[i] = h[j]
           /\ NoRepetition(h) => NoRepetition(new)
<1> DEFINE k == Kept(h, max)
           repeated == k # <<>> /\ ~rec.success /\ k[Len(k)] = rec
<1>1. /\ k \in Seq(S)
      /\ Len(k) = IF Len(h) >= max THEN Len(h) - 1 ELSE Len(h)
      /\ \A i \in 1 .. Len(k) : k[i] = IF Len(h) >= max THEN h[i + 1] ELSE h[i]
      /\ NoRepetition(h) => NoRepetition(k)
  BY KeptProperties
<1>2. AddHistoryRecord(h, rec, max) = IF repeated THEN k ELSE Append(k, rec)
  BY DEF AddHistoryRecord, Kept
<1>3. Len(h) \in Nat /\ Len(k) \in Nat
  BY <1>1
<1>4. \A i \in 1 .. Len(k) : \E j \in 1 .. Len(h) : k[i] = h[j]
  <2> TAKE i \in 1 .. Len(k)
  <2>1. CASE Len(h) >= max
    <3>1. i + 1 \in 1 .. Len(h) /\ k[i] = h[i + 1]
      BY <1>1, <1>3, <2>1
    <3> QED
      BY <3>1
  <2>2. CASE ~(Len(h) >= max)
    BY <1>1, <2>2
  <2> QED
    BY <2>1, <2>2
<1> HIDE DEF k
<1>5. CASE repeated
  BY <1>1, <1>2, <1>3, <1>4, <1>5
<1>6. CASE ~repeated
  <2> DEFINE new == Append(k, rec)
  <2>1. /\ new \in Seq(S)
        /\ Len(new) = Len(k) + 1
        /\ \A i \in 1 .. Len(k) : new[i] = k[i]
        /\ new[Len(k) + 1] = rec
    BY <1>1, AppendProperties
  <2>2. Len(new) <= Len(h) \/ Len(new) <= max
    BY <1>1, <1>3, <2>1
  <2> HIDE DEF new
  <2>3. \A i \in 1 .. Len(new) : new[i] = rec \/ \E j \in 1 .. Len(h) : new[i] = h[j]
    <3> TAKE i \in 1 .. Len(new)
    <3>1. i \in 1 .. Len(k) \/ i = Len(k) + 1
      BY <1>3, <2>1
    <3> QED
      BY <1>4, <2>1, <3>1
  <2>4. ASSUME NoRepetition(h), NEW n \in 1 .. Len(new) - 1, new[n] = new[n + 1]
        PROVE  new[n].success
    <3>1. n \in 1 .. Len(k) /\ new[n] = k[n]
      BY <1>3, <2>1
    <3>2. CASE n = Len(k)
      <4>1. k[Len(k)] = rec
        BY <2>1, <2>4, <3>1, <3>2
      <4>2. k # <<>>
        BY <1>3, <3>1
      <4> QED
        BY <1>6, <3>1, <3>2, <4>1, <4>2
    <3>3. CASE n # Len(k)
      <4>1. n \in 1 .. Len(k) - 1 /\ n + 1 \in 1 .. Len(k)
        BY <1>3, <3>1, <3>3
      <4>2. k[n] = k[n + 1]
        BY <2>1, <2>4, <3>1, <4>1
      <4> QED
        BY <1>1, <2>4, <3>1, <4>1, <4>2 DEF NoRepetition
    <3> QED
      BY <3>2, <3>3
  <2>5. NoRepetition(h) => NoRepetition(new)
    BY <2>4 DEF NoRepetition
  <2>6. AddHistoryRecord(h, rec, max) = new
    BY <1>2, <1>6 DEF new
  <2> QED
    BY <2>1, <2>2, <2>3, <2>5, <2>6
<1> QED
  BY <1>5, <1>6

-----------------------------------------------------------------------------
(* The inductive invariant.  The statuses that the cache shows and that a   *)
(* run has read will be written back, so that what holds of the status must *)
(* hold of them; and a run that no change has overtaken transfers the item  *)
(* that is asked for.                                                       *)

(* A history that is true of the target repository and has no repetition.   *)
GoodHistory(h) ==
    /\ \A n \in 1 .. Len(h) : h[n].success => h[n].item \in content
    /\ NoRepetition(h)

IInv ==
    /\ TypeOK
    /\ GoodHistory(status.history)
    /\ GoodHistory(seen.history)
    /\ run.pc = "transfer" => GoodHistory(run.before.history)
    /\ run.pc = "transfer" /\ ~queued => run.item = desired
    /\ SettledIsReplicated

Transfers == [pc: {"transfer"}, item: Items, capacity: Capacities, before: Statuses]

LEMMA RecordTypes ==
    ASSUME NEW i \in Items
    PROVE  Success(i) \in Records /\ \A e \in Errors : Failure(i, e) \in Records
BY ErrorsAssumption DEF Records, Success, Failure, NoError

LEMMA RunType ==
    ASSUME TypeOK
    PROVE  /\ run = Idle \/ run \in Transfers
           /\ run.pc = "idle" <=> run = Idle
           /\ run.pc = "transfer" <=> run \in Transfers
BY DEF TypeOK, Idle, Transfers

(* The end of a run of TransferSucceeds or TransferFails.                   *)
LEMMA FinishStep ==
    ASSUME IInv, run.pc = "transfer", NEW ready \in BOOLEAN, NEW rec \in Records,
           content' \in SUBSET Items, content \subseteq content',
           rec.success => rec.item \in content',
           Finish(ready, rec)
    PROVE  status' \in Statuses /\ GoodHistory(status.history)'
<1>1. run \in Transfers /\ run.before.history \in Seq(Records)
      /\ status.history \in Seq(Records) /\ status.ready \in BOOLEAN
  BY RunType DEF IInv, Transfers, Statuses, TypeOK
<1>2. run.capacity \in Nat
  BY <1>1, CapacitiesAssumption DEF Transfers
<1> DEFINE new == AddHistoryRecord(run.before.history, rec, run.capacity)
<1>3. status'.history = (IF run.capacity = 0 THEN status.history ELSE new)
      /\ status'.ready \in BOOLEAN
      /\ status' = [ready |-> status'.ready, history |-> status'.history]
  BY <1>1 DEF Finish, PatchReady
<1>4. CASE run.capacity = 0
  BY <1>1, <1>3, <1>4 DEF Statuses, IInv, GoodHistory, TypeOK
<1>5. CASE run.capacity # 0
  <2>1. run.capacity \in Nat \ {0}
    BY <1>2, <1>5
  <2>2. /\ new \in Seq(Records)
        /\ \A i \in 1 .. Len(new) :
             new[i] = rec \/ \E j \in 1 .. Len(run.before.history) : new[i] = run.before.history[j]
        /\ NoRepetition(run.before.history) => NoRepetition(new)
    BY <1>1, <2>1, AddHistoryRecordProperties
  <2> HIDE DEF new
  <2>3. \A i \in 1 .. Len(new) : new[i].success => new[i].item \in content'
    BY <2>2 DEF IInv, GoodHistory
  <2>4. NoRepetition(new)
    BY <2>2 DEF IInv, GoodHistory
  <2>5. status'.history = new
    BY <1>3, <1>5
  <2> QED
    BY <1>3, <2>2, <2>3, <2>4, <2>5 DEF Statuses, GoodHistory, NoRepetition
<1> QED
  BY <1>4, <1>5

(* A step that leaves the histories, or replaces them by good ones, and     *)
(* takes nothing from the target repository.                                *)
LEMMA GoodHistoryKept ==
    ASSUME NEW h, content \subseteq content', GoodHistory(h)
    PROVE  /\ \A n \in 1 .. Len(h) : h[n].success => h[n].item \in content'
           /\ NoRepetition(h)
BY DEF GoodHistory

LEMMA InitIInv == Init => IInv
<1> SUFFICES ASSUME Init PROVE IInv
  OBVIOUS
<1>1. <<>> \in Seq(Records) /\ Len(<<>>) = 0
  BY EmptySeq
<1>2. status.history = <<>> /\ seen.history = <<>> /\ status \in Statuses
  BY <1>1 DEF Init, Statuses
<1>3. TypeOK
  BY <1>2, BoundsAssumption DEF Init, TypeOK
<1>4. GoodHistory(<<>>)
  BY <1>1 DEF GoodHistory, NoRepetition
<1> QED
  BY <1>2, <1>3, <1>4 DEF IInv, Init, Idle, SettledIsReplicated

(* Histories that are kept stay good.                                       *)
LEMMA KeptStatus ==
    ASSUME IInv, content \subseteq content', status'.history = status.history
    PROVE  GoodHistory(status.history)'
BY GoodHistoryKept DEF IInv, GoodHistory, NoRepetition

LEMMA KeptSeen ==
    ASSUME IInv, content \subseteq content', seen' = seen
    PROVE  GoodHistory(seen.history)'
BY GoodHistoryKept DEF IInv, GoodHistory, NoRepetition

LEMMA KeptRun ==
    ASSUME IInv, content \subseteq content', run' = run
    PROVE  (run.pc = "transfer" => GoodHistory(run.before.history))'
BY GoodHistoryKept DEF IInv, GoodHistory, NoRepetition

(* Every change of what is asked for is followed by a reconciliation.       *)
LEMMA EnvironmentStep == ASSUME IInv, Environment PROVE IInv'
<1>1. UNCHANGED <<status, seen, content, run>> /\ queued' = TRUE
  BY DEF Environment, Change, ChangeDesired, ChangeReadiness, ChangeCapacity, ToggleSuspend
<1>2. budget' = [budget EXCEPT !.changes = @ - 1] /\ budget.changes > 0
  BY DEF Environment, Change, ChangeDesired, ChangeReadiness, ChangeCapacity, ToggleSuspend
<1>3. budget' \in [changes: Nat, failures: Nat]
  BY <1>2 DEF IInv, TypeOK
<1>4. desired' \in Items /\ available' \in BOOLEAN /\ capacity' \in Capacities
      /\ suspended' \in BOOLEAN
  BY DEF Environment, ChangeDesired, ChangeReadiness, ChangeCapacity, ToggleSuspend, IInv, TypeOK
<1>5. TypeOK'
  BY <1>1, <1>3, <1>4 DEF IInv, TypeOK
<1> QED
  BY <1>1, <1>5, KeptStatus, KeptSeen, KeptRun DEF IInv, SettledIsReplicated

LEMMA ObserveStep == ASSUME IInv, Observe PROVE IInv'
<1>1. seen' = status /\ UNCHANGED <<specVars, status, content, queued, run, budget>>
  BY DEF Observe
<1>2. TypeOK'
  BY <1>1 DEF IInv, TypeOK, specVars
<1>3. GoodHistory(seen.history)'
  BY <1>1 DEF IInv, GoodHistory, NoRepetition
<1> QED
  BY <1>1, <1>2, <1>3, KeptStatus, KeptRun DEF IInv, SettledIsReplicated, specVars

LEMMA RequeueStep == ASSUME IInv, RequeueAfter PROVE IInv'
<1>1. queued' = TRUE /\ UNCHANGED <<specVars, status, seen, content, run, budget>>
  BY DEF RequeueAfter
<1>2. TypeOK'
  BY <1>1 DEF IInv, TypeOK, specVars
<1> QED
  BY <1>1, <1>2, KeptStatus, KeptSeen, KeptRun DEF IInv, SettledIsReplicated, specVars

LEMMA IgnoreStep == ASSUME IInv, Ignore PROVE IInv'
<1>1. queued' = FALSE /\ suspended /\ run.pc = "idle"
      /\ UNCHANGED <<specVars, status, seen, content, run, budget>>
  BY DEF Ignore, Take
<1>2. TypeOK'
  BY <1>1 DEF IInv, TypeOK, specVars
<1> QED
  BY <1>1, <1>2, KeptStatus, KeptSeen, KeptRun DEF IInv, SettledIsReplicated, specVars

(* Writing the condition alone.                                             *)
LEMMA ReadyType ==
    ASSUME IInv, NEW before \in Statuses, NEW ready \in BOOLEAN,
           status' = [status EXCEPT !.ready = PatchReady(before, ready)]
    PROVE  status' \in Statuses /\ status'.history = status.history
BY DEF IInv, TypeOK, Statuses, PatchReady

LEMMA GetReadyObjectFailsStep == ASSUME IInv, GetReadyObjectFails PROVE IInv'
<1>1. UNCHANGED <<specVars, seen, content, queued, run, budget>> /\ run.pc = "idle" /\ queued
  BY DEF GetReadyObjectFails, Take
<1>2. status' \in Statuses /\ status'.history = status.history
  BY ReadyType DEF GetReadyObjectFails, IInv, TypeOK
<1>3. TypeOK'
  BY <1>1, <1>2 DEF IInv, TypeOK, specVars
<1> QED
  BY <1>1, <1>2, <1>3, KeptStatus, KeptSeen, KeptRun DEF IInv, SettledIsReplicated, specVars

(* The history that was read is true, so the item is in the repository.     *)
LEMMA AlreadyReplicatedStep == ASSUME IInv, AlreadyReplicated PROVE IInv'
<1>1. UNCHANGED <<specVars, seen, content, run, budget>> /\ run.pc = "idle" /\ queued' = FALSE
  BY DEF AlreadyReplicated, Take
<1>2. status' \in Statuses /\ status'.history = status.history
  BY ReadyType DEF AlreadyReplicated, IInv, TypeOK
<1>3. TypeOK'
  BY <1>1, <1>2 DEF IInv, TypeOK, specVars
<1>4. desired \in content
  <2>1. seen.history \in Seq(Records) /\ DOMAIN seen.history = 1 .. Len(seen.history)
    BY DEF IInv, TypeOK, Statuses
  <2>2. PICK n \in DOMAIN seen.history :
          seen.history[n].item = desired /\ seen.history[n].success
    BY DEF AlreadyReplicated, IsInHistory
  <2> QED
    BY <2>1, <2>2 DEF IInv, GoodHistory
<1> QED
  BY <1>1, <1>2, <1>3, <1>4, KeptStatus, KeptSeen, KeptRun DEF IInv, SettledIsReplicated, specVars

LEMMA BeginTransferStep == ASSUME IInv, BeginTransfer PROVE IInv'
<1>1. UNCHANGED <<specVars, status, seen, content, budget>> /\ queued' = FALSE
  BY DEF BeginTransfer
<1>2. run' = [pc |-> "transfer", item |-> desired, capacity |-> capacity, before |-> seen]
  BY DEF BeginTransfer
<1>3. run' \in Transfers
  BY <1>2 DEF Transfers, IInv, TypeOK
<1>4. TypeOK'
  BY <1>1, <1>3 DEF IInv, TypeOK, specVars, Transfers
<1>5. GoodHistory(run.before.history)'
  BY <1>1, <1>2 DEF IInv, GoodHistory, NoRepetition
<1> QED
  BY <1>1, <1>2, <1>4, <1>5, KeptStatus, KeptSeen DEF IInv, SettledIsReplicated, specVars

(* The end of a run: the controller is idle, and it has another run before  *)
(* it unless the item asked for has been transferred.                       *)
LEMMA EndOfRun ==
    ASSUME IInv, run.pc = "transfer", run' = Idle,
           UNCHANGED <<specVars, seen>>,
           status' \in Statuses, GoodHistory(status.history)',
           content' \in SUBSET Items, content \subseteq content',
           budget' \in [changes: Nat, failures: Nat], queued' \in BOOLEAN,
           queued' \/ (run.item \in content' /\ ~queued)
    PROVE  IInv'
<1>1. TypeOK'
  BY DEF IInv, TypeOK, specVars
<1>2. run'.pc = "idle" /\ run'.pc # "transfer"
  BY DEF Idle
<1>3. SettledIsReplicated'
  BY DEF IInv, SettledIsReplicated, specVars
<1> QED
  BY <1>1, <1>2, <1>3, KeptSeen DEF IInv

LEMMA BudgetType ==
    ASSUME TypeOK, budget.failures > 0, budget' = [budget EXCEPT !.failures = @ - 1]
    PROVE  budget' \in [changes: Nat, failures: Nat]
BY DEF TypeOK

LEMMA TransferSucceedsStep == ASSUME IInv, TransferSucceeds PROVE IInv'
<1>1. run.pc = "transfer" /\ run \in Transfers
      /\ content' = content \cup {run.item} /\ UNCHANGED <<specVars, seen, queued, budget>>
  BY RunType DEF TransferSucceeds, IInv
<1>2. run.item \in Items /\ content' \in SUBSET Items
  BY <1>1 DEF Transfers, IInv, TypeOK
<1>3. Success(run.item) \in Records /\ Success(run.item).item = run.item
  BY <1>2, RecordTypes DEF Success
<1>4. Finish(TRUE, Success(run.item))
  BY DEF TransferSucceeds
<1>5. status' \in Statuses /\ GoodHistory(status.history)'
  BY <1>1, <1>2, <1>3, <1>4, FinishStep
<1>6. run' = Idle /\ budget' \in [changes: Nat, failures: Nat] /\ queued' \in BOOLEAN
  BY <1>1, <1>4 DEF Finish, IInv, TypeOK
<1>7. queued' \/ (run.item \in content' /\ ~queued)
  BY <1>1 DEF IInv, TypeOK
<1> QED
  BY <1>1, <1>2, <1>5, <1>6, <1>7, EndOfRun

LEMMA TransferFailsStep == ASSUME IInv, TransferFails PROVE IInv'
<1>1. run.pc = "transfer" /\ run \in Transfers /\ queued' = TRUE
      /\ UNCHANGED <<specVars, seen>> /\ content' \in {content, content \cup {run.item}}
  BY RunType DEF TransferFails, IInv
<1>2. run.item \in Items /\ content' \in SUBSET Items /\ content \subseteq content'
  BY <1>1 DEF Transfers, IInv, TypeOK
<1>3. PICK e \in Errors : Finish(FALSE, Failure(run.item, e))
  BY DEF TransferFails
<1>4. Failure(run.item, e) \in Records /\ ~Failure(run.item, e).success
  BY <1>2, RecordTypes DEF Failure
<1>5. status' \in Statuses /\ GoodHistory(status.history)'
  BY <1>1, <1>2, <1>3, <1>4, FinishStep
<1>6. run' = Idle
  BY <1>3 DEF Finish
<1>7. budget' \in [changes: Nat, failures: Nat]
  BY BudgetType DEF TransferFails, IInv
<1> QED
  BY <1>1, <1>2, <1>5, <1>6, <1>7, EndOfRun

LEMMA UpdateStatusFailsStep == ASSUME IInv, UpdateStatusFails PROVE IInv'
<1>1. run.pc = "transfer" /\ run \in Transfers /\ queued' = TRUE /\ run' = Idle
      /\ UNCHANGED <<specVars, status, seen>> /\ content' \in {content, content \cup {run.item}}
  BY RunType DEF UpdateStatusFails, IInv
<1>2. run.item \in Items /\ content' \in SUBSET Items /\ content \subseteq content'
  BY <1>1 DEF Transfers, IInv, TypeOK
<1>3. status' \in Statuses /\ GoodHistory(status.history)'
  BY <1>1, <1>2, KeptStatus DEF IInv, TypeOK
<1>4. budget' \in [changes: Nat, failures: Nat]
  BY BudgetType DEF UpdateStatusFails, IInv
<1> QED
  BY <1>1, <1>2, <1>3, <1>4, EndOfRun

LEMMA GetEffectiveConfigFailsStep == ASSUME IInv, GetEffectiveConfigFails PROVE IInv'
<1>1. run.pc = "transfer" /\ run \in Transfers /\ queued' = TRUE /\ run' = Idle
      /\ UNCHANGED <<specVars, seen, content>>
  BY RunType DEF GetEffectiveConfigFails, IInv
<1>2. content' \in SUBSET Items /\ content \subseteq content' /\ run.before \in Statuses
  BY <1>1 DEF Transfers, IInv, TypeOK
<1>3. status' \in Statuses /\ status'.history = status.history
  BY <1>2, ReadyType DEF GetEffectiveConfigFails
<1>4. GoodHistory(status.history)'
  BY <1>2, <1>3, KeptStatus
<1>5. budget' \in [changes: Nat, failures: Nat]
  BY BudgetType DEF GetEffectiveConfigFails, IInv
<1> QED
  BY <1>1, <1>2, <1>3, <1>4, <1>5, EndOfRun

LEMMA StutterStep == ASSUME IInv, UNCHANGED vars PROVE IInv'
<1>1. TypeOK'
  BY DEF IInv, TypeOK, vars, specVars
<1> QED
  BY <1>1, KeptStatus, KeptSeen, KeptRun DEF IInv, SettledIsReplicated, vars, specVars

LEMMA NextIInv == IInv /\ [Next]_vars => IInv'
BY EnvironmentStep, ObserveStep, RequeueStep, IgnoreStep, GetReadyObjectFailsStep,
   AlreadyReplicatedStep, BeginTransferStep, GetEffectiveConfigFailsStep, TransferSucceedsStep,
   TransferFailsStep, UpdateStatusFailsStep, StutterStep
   DEF Next, Reconcile

-----------------------------------------------------------------------------
(* Theorems                                                                 *)

(* The variables of the replication controller keep their types: every      *)
(* record of a failed run says why.                                         *)
THEOREM TypeCorrect == Spec => []TypeOK
<1>1. IInv => TypeOK
  BY DEF IInv
<1> QED
  BY <1>1, InitIInv, NextIInv, PTL DEF Spec

(* When the controller has nothing left to do, the item that the component  *)
(* and the repository ask for is in the target repository, whatever old     *)
(* statuses the runs have read and however many of them have failed.        *)
THEOREM SettledReplicated == Spec => []SettledIsReplicated
<1>1. IInv => SettledIsReplicated
  BY DEF IInv
<1> QED
  BY <1>1, InitIInv, NextIInv, PTL DEF Spec

(* The history claims no replication that has not happened, although a run  *)
(* writes it from a status that it may have read before another run ended.  *)
THEOREM HistoryIsTrue == Spec => []HistoryTrue
<1>1. IInv => HistoryTrue
  <2> SUFFICES ASSUME IInv PROVE HistoryTrue
    OBVIOUS
  <2>1. status.history \in Seq(Records) /\ DOMAIN status.history = 1 .. Len(status.history)
    BY DEF IInv, TypeOK, Statuses
  <2> QED
    BY <2>1 DEF IInv, GoodHistory, HistoryTrue
<1> QED
  BY <1>1, InitIInv, NextIInv, PTL DEF Spec

(* AddHistoryRecord never leaves the same failure in the history twice in a *)
(* row.                                                                     *)
THEOREM HistoryCorrect == Spec => []NoRepeatedFailure
<1>1. IInv => NoRepeatedFailure
  <2> SUFFICES ASSUME IInv PROVE NoRepeatedFailure
    OBVIOUS
  <2>1. status.history \in Seq(Records) /\ DOMAIN status.history = 1 .. Len(status.history)
    BY DEF IInv, TypeOK, Statuses
  <2> QED
    BY <2>1 DEF IInv, GoodHistory, NoRepetition, NoRepeatedFailure
<1> QED
  BY <1>1, InitIInv, NextIInv, PTL DEF Spec

-----------------------------------------------------------------------------
(* The capacity                                                             *)

(* A run that adds a record to a history at its capacity drops one first.   *)
LEMMA FinishBounded ==
    ASSUME IInv, run.pc = "transfer", NEW ready, NEW rec \in Records, Finish(ready, rec)
    PROVE  \/ status'.history = status.history
           \/ Len(status'.history) <= Len(run.before.history)
           \/ Len(status'.history) <= run.capacity
<1>1. run \in Transfers /\ run.before.history \in Seq(Records) /\ run.capacity \in Nat
  BY RunType, CapacitiesAssumption DEF IInv, Transfers, Statuses
<1>2. status'.history = IF run.capacity = 0 THEN status.history
                        ELSE AddHistoryRecord(run.before.history, rec, run.capacity)
  BY DEF Finish
<1>3. CASE run.capacity # 0
  <2> DEFINE h == run.before.history
             new == AddHistoryRecord(h, rec, run.capacity)
  <2>1. Len(new) <= Len(h) \/ Len(new) <= run.capacity
    BY <1>1, <1>3, AddHistoryRecordProperties
  <2> QED
    BY <1>2, <1>3, <2>1
<1> QED
  BY <1>2, <1>3

(* Whatever values spec.historyLength takes, zero included, no run makes    *)
(* the history longer than the capacity it read: AddHistoryRecord drops a   *)
(* record of a full history before it adds one.                             *)
THEOREM CapacityIsBound == Spec => HistoryBounded
<1>1. IInv /\ [Next]_vars =>
        [run.pc = "transfer" /\ Len(status'.history) > Len(status.history)
                             /\ Len(status'.history) > Len(run.before.history)
           => Len(status'.history) <= run.capacity]_vars
  <2> SUFFICES ASSUME IInv, [Next]_vars, run.pc = "transfer",
                      Len(status'.history) > Len(status.history),
                      Len(status'.history) > Len(run.before.history)
               PROVE  Len(status'.history) <= run.capacity
    OBVIOUS
  <2>1. run \in Transfers /\ run.before \in Statuses
        /\ status.history \in Seq(Records) /\ run.before.history \in Seq(Records)
    BY RunType DEF IInv, Transfers, TypeOK, Statuses
  <2>2. Len(status.history) \in Nat /\ Len(run.before.history) \in Nat
    BY <2>1
  <2>3. status'.history # status.history
    BY <2>2
  <2>4. PICK ready \in BOOLEAN, rec \in Records : Finish(ready, rec)
    <3>1. \/ TransferSucceeds \/ TransferFails
      BY <2>1, <2>3, ReadyType DEF Next, Reconcile, Ignore, GetReadyObjectFails,
         AlreadyReplicated, BeginTransfer, GetEffectiveConfigFails, UpdateStatusFails,
         RequeueAfter, Observe, Environment, ChangeDesired, ChangeReadiness, ChangeCapacity,
         ToggleSuspend, Change, Take, vars
    <3>2. Success(run.item) \in Records /\ \A e \in Errors : Failure(run.item, e) \in Records
      BY <2>1, RecordTypes DEF Transfers
    <3> QED
      BY <3>1, <3>2 DEF TransferSucceeds, TransferFails
  <2>5. (IInv /\ [Next]_vars => IInv')
    BY NextIInv
  <2>6. Len(status'.history) \in Nat
    BY <2>5 DEF IInv, TypeOK, Statuses
  <2>7. \/ Len(status'.history) <= Len(run.before.history)
        \/ Len(status'.history) <= run.capacity
    BY <2>3, <2>4, FinishBounded
  <2> QED
    BY <2>2, <2>6, <2>7
<1> QED
  BY <1>1, InitIInv, NextIInv, PTL DEF Spec, HistoryBounded
=============================================================================
