----------------------------- MODULE Replication -----------------------------
(***************************************************************************)
(* A Replication object and its controller (internal/controller/replication *)
(* and the history kept by api/v1alpha1/replication_types.go): the version  *)
(* that a component reports is transferred to a target repository, unless   *)
(* the history of former runs shows that it is there.                       *)
(*                                                                         *)
(* The workqueue gives the object to one goroutine at a time.  A run reads  *)
(* the status of its own object from the informer cache (seen), which may   *)
(* not show yet what the last run wrote, and patches what it changed in it. *)
(* Component, version and target specification are one item here, and the   *)
(* start and end times of a record are left out.                            *)
(***************************************************************************)
EXTENDS Integers, Sequences, FiniteSets

CONSTANTS
    Items,          \* what is to be replicated: component version and target
    Errors,         \* error texts
    Capacities,     \* values of spec.historyLength
    MaxChanges,     \* bound: changes of the specifications and the readiness
    MaxFailures     \* bound: transfers and status updates that fail

ASSUME CapacitiesAssumption == Capacities \subseteq Nat /\ Capacities # {}
ASSUME ErrorsAssumption == "none" \notin Errors
ASSUME ItemsAssumption == Items # {}
ASSUME BoundsAssumption == MaxChanges \in Nat /\ MaxFailures \in Nat

NoError == "none"

VARIABLES
    desired,     \* item that the component and the repository ask for now
    available,   \* component and repository are ready
    capacity,    \* spec.historyLength
    suspended,   \* spec.suspend
    status,      \* API server: Ready condition and history
    seen,        \* informer cache: the status it shows
    content,     \* external: items that are complete in their target repository
    queued,      \* the workqueue holds the object
    run,         \* the reconciliation in progress: what it has read
    budget       \* what is left of the bounds

specVars == <<desired, available, capacity, suspended>>
vars == <<specVars, status, seen, content, queued, run, budget>>

Success(i) == [item |-> i, success |-> TRUE, error |-> NoError]

(* Faulty variant: the error is not recorded.                               *)
FailureUnexplained(i, e) == [item |-> i, success |-> FALSE, error |-> NoError]

Failure(i, e) == [item |-> i, success |-> FALSE, error |-> e]

Idle == [pc |-> "idle"]

Init ==
    /\ desired \in Items
    /\ available \in BOOLEAN
    /\ capacity \in Capacities
    /\ suspended = FALSE
    /\ status = [ready |-> FALSE, history |-> <<>>]
    /\ seen = status
    /\ content = {}
    /\ queued = TRUE
    /\ run = Idle
    /\ budget = [changes |-> MaxChanges, failures |-> MaxFailures]

-----------------------------------------------------------------------------
(* The history                                                              *)

(* Faulty variant: a failed run counts as well.                             *)
IsInHistoryAnyResult(history, i) ==
    \E n \in DOMAIN history : history[n].item = i

IsInHistory(history, i) ==
    \E n \in DOMAIN history : history[n].item = i /\ history[n].success

(* Faulty variants: no look at the last record; one record too many.        *)
AddHistoryRecordAlways(history, rec, max) ==
    IF max = 0 THEN history
    ELSE Append(IF Len(history) >= max THEN Tail(history) ELSE history, rec)

AddHistoryRecordLate(history, rec, max) ==
    LET kept == IF Len(history) > max THEN Tail(history) ELSE history IN
    IF max = 0 THEN history
    ELSE IF kept # <<>> /\ ~rec.success /\ kept[Len(kept)] = rec THEN kept
    ELSE Append(kept, rec)

(* A full history loses its oldest record, also when the new one repeats    *)
(* the failure of the last one and so only changes the times of that.       *)
AddHistoryRecord(history, rec, max) ==
    LET kept == IF Len(history) >= max THEN Tail(history) ELSE history IN
    IF max = 0 THEN history
    ELSE IF kept # <<>> /\ ~rec.success /\ kept[Len(kept)] = rec THEN kept
    ELSE Append(kept, rec)

-----------------------------------------------------------------------------
(* Users and the controllers of the other objects.  The controller watches  *)
(* the specification, the component and the repository.                     *)

Change ==
    /\ budget.changes > 0
    /\ budget' = [budget EXCEPT !.changes = @ - 1]
    /\ queued' = TRUE
    /\ UNCHANGED <<status, seen, content, run>>

(* The component reports another version, or the repository changes.        *)
ChangeDesired ==
    /\ Change
    /\ \E i \in Items \ {desired} : desired' = i
    /\ UNCHANGED <<available, capacity, suspended>>

ChangeReadiness ==
    /\ Change
    /\ available' = ~available
    /\ UNCHANGED <<desired, capacity, suspended>>

ChangeCapacity ==
    /\ Change
    /\ \E n \in Capacities \ {capacity} : capacity' = n
    /\ UNCHANGED <<desired, available, suspended>>

ToggleSuspend ==
    /\ Change
    /\ suspended' = ~suspended
    /\ UNCHANGED <<desired, available, capacity>>

(* The informer delivers the status; a change of the status alone is not    *)
(* reconciled.                                                              *)
Observe ==
    /\ seen # status
    /\ seen' = status
    /\ UNCHANGED <<specVars, status, content, queued, run, budget>>

-----------------------------------------------------------------------------
(* Reconcile                                                                *)

Take == queued /\ run.pc = "idle"

Ignore ==
    /\ Take
    /\ suspended
    /\ queued' = FALSE
    /\ UNCHANGED <<specVars, status, seen, content, run, budget>>

(* The status patch carries what differs from the status that was read.     *)
PatchReady(before, ready) == IF ready = before.ready THEN status.ready ELSE ready

(* A component or repository that is not ready is an error.                 *)
GetReadyObjectFails ==
    /\ Take /\ ~suspended
    /\ ~available
    /\ status' = [status EXCEPT !.ready = PatchReady(seen, FALSE)]
    /\ UNCHANGED <<specVars, seen, content, queued, run, budget>>

AlreadyReplicated ==
    /\ Take /\ ~suspended
    /\ available
    /\ seen.ready /\ IsInHistory(seen.history, desired)
    /\ status' = [status EXCEPT !.ready = PatchReady(seen, TRUE)]
    /\ queued' = FALSE
    /\ UNCHANGED <<specVars, seen, content, run, budget>>

BeginTransfer ==
    /\ Take /\ ~suspended
    /\ available
    /\ ~(seen.ready /\ IsInHistory(seen.history, desired))
    /\ run' = [pc |-> "transfer", item |-> desired, capacity |-> capacity, before |-> seen]
    /\ queued' = FALSE
    /\ UNCHANGED <<specVars, status, seen, content, budget>>

GetEffectiveConfigFails ==
    /\ run.pc = "transfer"
    /\ budget.failures > 0
    /\ budget' = [budget EXCEPT !.failures = @ - 1]
    /\ status' = [status EXCEPT !.ready = PatchReady(run.before, FALSE)]
    /\ run' = Idle
    /\ queued' = TRUE
    /\ UNCHANGED <<specVars, seen, content>>

(* A new record has new times, so that the patch carries the whole history. *)
Finish(ready, rec) ==
    /\ status' = [ready   |-> PatchReady(run.before, ready),
                  history |-> IF run.capacity = 0 THEN status.history
                              ELSE AddHistoryRecord(run.before.history, rec, run.capacity)]
    /\ run' = Idle

(* Faulty variant: the check of the target repository is left out, so that  *)
(* an incomplete transfer passes.                                           *)
TransferUnvalidated ==
    /\ run.pc = "transfer"
    /\ \/ content' = content \cup {run.item}
       \/ UNCHANGED content
    /\ Finish(TRUE, Success(run.item))
    /\ UNCHANGED <<specVars, seen, queued, budget>>

(* The item is complete in the target repository, as validate has found.    *)
TransferSucceeds ==
    /\ run.pc = "transfer"
    /\ content' = content \cup {run.item}
    /\ Finish(TRUE, Success(run.item))
    /\ UNCHANGED <<specVars, seen, queued, budget>>

(* Sessions, look-ups, transfer or validate fail, perhaps after the item    *)
(* was copied.                                                              *)
TransferFails ==
    /\ run.pc = "transfer"
    /\ budget.failures > 0
    /\ budget' = [budget EXCEPT !.failures = @ - 1]
    /\ \/ content' = content \cup {run.item}
       \/ UNCHANGED content
    /\ \E e \in Errors : Finish(FALSE, Failure(run.item, e))
    /\ queued' = TRUE
    /\ UNCHANGED <<specVars, seen>>

(* The status cannot be written or the process is restarted: nothing is     *)
(* recorded.                                                                *)
UpdateStatusFails ==
    /\ run.pc = "transfer"
    /\ budget.failures > 0
    /\ budget' = [budget EXCEPT !.failures = @ - 1]
    /\ \/ content' = content \cup {run.item}
       \/ UNCHANGED content
    /\ run' = Idle
    /\ queued' = TRUE
    /\ UNCHANGED <<specVars, status, seen>>

(* RequeueAfter of a run that ended without an error.                       *)
RequeueAfter ==
    /\ ~queued /\ run.pc = "idle"
    /\ ~suspended
    /\ queued' = TRUE
    /\ UNCHANGED <<specVars, status, seen, content, run, budget>>

-----------------------------------------------------------------------------
Reconcile ==
    \/ Ignore \/ GetReadyObjectFails \/ AlreadyReplicated \/ BeginTransfer
    \/ GetEffectiveConfigFails
    \/ TransferSucceeds \/ TransferFails \/ UpdateStatusFails

Environment == ChangeDesired \/ ChangeReadiness \/ ChangeCapacity \/ ToggleSuspend

Next == Reconcile \/ RequeueAfter \/ Observe \/ Environment

Spec == Init /\ [][Next]_vars

(* The controller and the informer run, and the interval elapses.           *)
Fairness == WF_vars(Reconcile) /\ WF_vars(Observe) /\ WF_vars(RequeueAfter)

FairSpec == Spec /\ Fairness

-----------------------------------------------------------------------------
(* Properties                                                               *)

Records ==
    {r \in [item: Items, success: BOOLEAN, error: Errors \cup {NoError}] :
       r.success <=> r.error = NoError}

Statuses == [ready: BOOLEAN, history: Seq(Records)]

(* Every variable has its type; a record has an error if and only if the    *)
(* run has failed.                                                          *)
TypeOK ==
    /\ desired \in Items /\ available \in BOOLEAN
    /\ capacity \in Capacities /\ suspended \in BOOLEAN
    /\ status \in Statuses /\ seen \in Statuses
    /\ content \subseteq Items
    /\ queued \in BOOLEAN
    /\ run \in {Idle} \cup [pc: {"transfer"}, item: Items, capacity: Capacities, before: Statuses]
    /\ budget \in [changes: Nat, failures: Nat]

(* Once the controller has nothing left to do, the item asked for is in the *)
(* target repository: neither a failed run in the history, nor a run that   *)
(* was overtaken by a change, nor an old status passes for a replication.   *)
SettledIsReplicated ==
    ~queued /\ run.pc = "idle" /\ ~suspended /\ available => desired \in content

(* The records of successful runs are true of the target repository, even   *)
(* if a later run of the same item failed.                                  *)
HistoryTrue ==
    \A n \in DOMAIN status.history :
      status.history[n].success => status.history[n].item \in content

(* If the same error occurs again and again, just the last record is        *)
(* updated: the history never holds a failure twice in a row.               *)
NoRepeatedFailure ==
    \A n \in 1 .. Len(status.history) - 1 :
      status.history[n] = status.history[n + 1] => status.history[n].success

(* The history grows only within spec.historyLength: a run that leaves more *)
(* records than are stored, and more than it has read, leaves no more than  *)
(* the capacity it read, also after the capacity was reduced or set to 0.   *)
HistoryBounded ==
    [][run.pc = "transfer" /\ Len(status'.history) > Len(status.history)
                           /\ Len(status'.history) > Len(run.before.history)
         => Len(status'.history) <= run.capacity]_vars

(* spec.historyLength is the maximum number of last replication runs to     *)
(* keep (replication_types.go:35): what a run leaves is within it.          *)
HistoryWithinCapacity ==
    [][run.pc = "transfer" /\ run'.pc = "idle" => Len(status'.history) <= run.capacity]_vars

(* The history holds the individual runs: a run drops none but the oldest   *)
(* record.                                                                  *)
HistoryKeepsRuns ==
    [][\E oldest \in {0, 1} :
         LET kept == SubSeq(status.history, 1 + oldest, Len(status.history)) IN
         Len(kept) <= Len(status'.history) /\ SubSeq(status'.history, 1, Len(kept)) = kept]_vars

Wanted(i) == available /\ ~suspended /\ desired = i

(* An item that stays wanted is replicated and the object reports it, after *)
(* any bounded number of failures and however old the statuses read are.    *)
EventuallyReplicated ==
    \A i \in Items : Wanted(i) ~> ((i \in content /\ status.ready) \/ ~Wanted(i))
=============================================================================
