-------------------------- MODULE IntegrationOutbox --------------------------
(***************************************************************************)
(* The worker that delivers integration_outbox rows to the connectors, in  *)
(* every API process: it claims a row with a conditional update, posts the *)
(* event and records the outcome.  A process may crash at any await, a     *)
(* database write may fail, and a connector may receive an event without   *)
(* its answer being heard.                                                 *)
(***************************************************************************)
EXTENDS Naturals, Sequences, FiniteSets

CONSTANTS
  Rows,         \* outbox rows: an order.created event for one provider
  Processes,    \* API processes, each with its own worker
  MaxAttempts,  \* MAX_ATTEMPTS (8 in the code)
  BatchSize,    \* BATCH_SIZE (20 in the code)
  MaxCrashes    \* bound: how often processes die

ASSUME OutboxAssumption ==
  /\ IsFiniteSet(Rows)
  /\ MaxAttempts \in Nat \ {0} /\ BatchSize \in Nat \ {0} /\ MaxCrashes \in Nat

VARIABLES
  row,       \* integration_outbox
  worker,    \* each process: where its worker is, and the batch it read
  received,  \* external: the events the connectors have received
  crashes    \* how often a process has died

outboxVars == <<row, worker, received, crashes>>

-----------------------------------------------------------------------------

(* due: nextAttemptAt has passed.  aged: lockedAt is over five minutes old. *)
(* place: how many rows are older by createdAt.                            *)
Row ==
  [status : {"ABSENT", "PENDING", "PROCESSING", "DELIVERED", "DEAD_LETTER"},
   attempts : 0 .. MaxAttempts, due : BOOLEAN, aged : BOOLEAN, place : Nat]

Snapshot == [row : Rows, attempts : 0 .. MaxAttempts]

Worker ==
  [pc : {"down", "booting", "idle", "next", "posting", "accepted", "failed"}, batch : Seq(Snapshot)]

OutboxTypeOK ==
  /\ row \in [Rows -> Row]
  /\ worker \in [Processes -> Worker]
  /\ received \subseteq Rows
  /\ crashes \in 0 .. MaxCrashes

OutboxInit ==
  /\ row = [r \in Rows |->
       [status |-> "ABSENT", attempts |-> 0, due |-> FALSE, aged |-> FALSE, place |-> 0]]
  /\ worker = [p \in Processes |-> [pc |-> "down", batch |-> <<>>]]
  /\ received = {}
  /\ crashes = 0

Existing == {r \in Rows : row[r].status # "ABSENT"}
Settled(r) == row[r].status \in {"DELIVERED", "DEAD_LETTER"}

-----------------------------------------------------------------------------
(* createOrder writes the row in the order's own transaction.              *)
EnqueueOrderCreated(r) ==
  /\ row[r].status = "ABSENT"
  /\ row' = [row EXCEPT ![r] =
       [@ EXCEPT !.status = "PENDING", !.due = TRUE, !.place = Cardinality(Existing)]]
  /\ UNCHANGED <<worker, received, crashes>>

(* The clock. A live worker is done with a row long before five minutes:   *)
(* its post is cut off after ten seconds.                                  *)
RetryFallsDue(r) ==
  /\ row[r].status = "PENDING" /\ ~row[r].due
  /\ row' = [row EXCEPT ![r].due = TRUE]
  /\ UNCHANGED <<worker, received, crashes>>

Current(p) == Head(worker[p].batch).row
Claims(p, r) == worker[p].pc \in {"posting", "accepted", "failed"} /\ Current(p) = r
Abandoned(r) == row[r].status = "PROCESSING" /\ \A p \in Processes : ~Claims(p, r)

ClaimAges(r) ==
  /\ Abandoned(r) /\ ~row[r].aged
  /\ row' = [row EXCEPT ![r].aged = TRUE]
  /\ UNCHANGED <<worker, received, crashes>>

-----------------------------------------------------------------------------
(* A process starts: onApplicationBootstrap recovers abandoned claims once, *)
(* before the poller runs.                                                 *)

StartProcess(p) ==
  /\ worker[p].pc = "down"
  /\ worker' = [worker EXCEPT ![p].pc = "booting"]
  /\ UNCHANGED <<row, received, crashes>>

RecoversEveryClaim(r) == row[r].status = "PROCESSING"   \* mutant: fresh claims too
RecoversClaim(r) == row[r].status = "PROCESSING" /\ row[r].aged

RecoverAbandonedClaims(p) ==
  /\ worker[p].pc = "booting"
  /\ worker' = [worker EXCEPT ![p].pc = "idle"]
  /\ row' = [r \in Rows |->
       IF RecoversClaim(r) THEN [row[r] EXCEPT !.status = "PENDING", !.aged = FALSE] ELSE row[r]]
  /\ UNCHANGED <<received, crashes>>

Crash(p) ==
  /\ worker[p].pc # "down"
  /\ crashes < MaxCrashes
  /\ crashes' = crashes + 1
  /\ worker' = [worker EXCEPT ![p] = [pc |-> "down", batch |-> <<>>]]
  /\ UNCHANGED <<row, received>>

-----------------------------------------------------------------------------
(* flush: one at a time in a process, by the poller or after an order.     *)

ReadyWhenPending(r) == row[r].status = "PENDING"   \* mutant: nextAttemptAt is not looked at
Ready(r) == row[r].status = "PENDING" /\ row[r].due

(* The oldest BatchSize of the ready rows, oldest first. *)
IsBatch(rows) ==
  LET n == Len(rows)
  IN /\ \A i \in 1 .. n : Ready(rows[i])
     /\ \A i, j \in 1 .. n : i < j => row[rows[i]].place < row[rows[j]].place
     /\ \A r \in Rows : Ready(r) /\ (\A i \in 1 .. n : rows[i] # r) =>
          n = BatchSize /\ \A i \in 1 .. n : row[rows[i]].place < row[r].place

ReadBatch(p) ==
  /\ worker[p].pc = "idle"
  /\ \E n \in 1 .. BatchSize : \E rows \in [1 .. n -> Rows] :
       /\ IsBatch(rows)
       /\ worker' = [worker EXCEPT ![p] = [pc |-> "next",
            batch |-> [i \in 1 .. n |-> [row |-> rows[i], attempts |-> row[rows[i]].attempts]]]]
  /\ UNCHANGED <<row, received, crashes>>

(* deliverOne is done with its row: on to the next one of the batch.       *)
Advance(p) ==
  worker' = [worker EXCEPT ![p] =
    [pc |-> IF Len(@.batch) = 1 THEN "idle" ELSE "next", batch |-> Tail(@.batch)]]

CanClaimAny(r) == ~Settled(r)   \* mutant: the claim accepts PROCESSING rows
CanClaim(r) == row[r].status = "PENDING"

Claim(p) ==
  /\ worker[p].pc = "next"
  /\ IF CanClaim(Current(p))
       THEN /\ row' = [row EXCEPT ![Current(p)] = [@ EXCEPT !.status = "PROCESSING", !.aged = FALSE]]
            /\ worker' = [worker EXCEPT ![p].pc = "posting"]
       ELSE Advance(p) /\ row' = row
  /\ UNCHANGED <<received, crashes>>

(* The connector answers 2xx. *)
PostAccepted(p) ==
  /\ worker[p].pc = "posting"
  /\ received' = received \cup {Current(p)}
  /\ worker' = [worker EXCEPT ![p].pc = "accepted"]
  /\ UNCHANGED <<row, crashes>>

(* mutant: the answer's status is not checked. *)
PostUnchecked(p) ==
  /\ worker[p].pc = "posting"
  /\ received' \in {received, received \cup {Current(p)}}
  /\ worker' = [worker EXCEPT ![p].pc = "accepted"]
  /\ UNCHANGED <<row, crashes>>

(* Another answer, none in ten seconds, or no connection: the connector    *)
(* may still have received the event.                                      *)
PostFails(p) ==
  /\ worker[p].pc = "posting"
  /\ received' \in {received, received \cup {Current(p)}}
  /\ worker' = [worker EXCEPT ![p].pc = "failed"]
  /\ UNCHANGED <<row, crashes>>

RecordDelivery(p) ==
  /\ worker[p].pc = "accepted"
  /\ row' = [row EXCEPT ![Current(p)] = [@ EXCEPT !.status = "DELIVERED", !.aged = FALSE]]
  /\ Advance(p)
  /\ UNCHANGED <<received, crashes>>

(* The write of DELIVERED throws: it is inside the try, so the event is    *)
(* treated as not delivered.                                               *)
RecordDeliveryFails(p) ==
  /\ worker[p].pc = "accepted"
  /\ worker' = [worker EXCEPT ![p].pc = "failed"]
  /\ UNCHANGED <<row, received, crashes>>

AttemptsSame(p) == Head(worker[p].batch).attempts   \* mutant: the increment is lost
Attempts(p) == Head(worker[p].batch).attempts + 1

ExhaustedLate(n) == n > MaxAttempts   \* mutant: one attempt too many
Exhausted(n) == n >= MaxAttempts

RecordFailure(p) ==
  /\ worker[p].pc = "failed"
  /\ row' = [row EXCEPT ![Current(p)] =
       [@ EXCEPT !.status = IF Exhausted(Attempts(p)) THEN "DEAD_LETTER" ELSE "PENDING",
                 !.attempts = Attempts(p), !.due = FALSE, !.aged = FALSE]]
  /\ Advance(p)
  /\ UNCHANGED <<received, crashes>>

(* A write outside the try throws, the claim or the failure's record: the  *)
(* whole pass ends, and a claimed row stays PROCESSING.                    *)
AbortPass(p) ==
  /\ worker[p].pc \in {"next", "failed"}
  /\ worker' = [worker EXCEPT ![p] = [pc |-> "idle", batch |-> <<>>]]
  /\ UNCHANGED <<row, received, crashes>>

-----------------------------------------------------------------------------

Post(p) == PostAccepted(p) \/ PostFails(p)
Record(p) == RecordDelivery(p) \/ RecordDeliveryFails(p) \/ RecordFailure(p)

OutboxNext ==
  \/ \E r \in Rows : EnqueueOrderCreated(r) \/ RetryFallsDue(r) \/ ClaimAges(r)
  \/ \E p \in Processes :
       \/ StartProcess(p)
       \/ RecoverAbandonedClaims(p)
       \/ Crash(p)
       \/ ReadBatch(p)
       \/ Claim(p)
       \/ Post(p)
       \/ Record(p)
       \/ AbortPass(p)

OutboxSpec == OutboxInit /\ [][OutboxNext]_outboxVars

(* The process manager restarts a process, the poller keeps polling, time  *)
(* passes, and a write that is tried again and again succeeds in the end.  *)
(* Nothing is assumed of the connectors.                                   *)
Fairness ==
  /\ \A r \in Rows : WF_outboxVars(RetryFallsDue(r)) /\ WF_outboxVars(ClaimAges(r))
  /\ \A p \in Processes :
       /\ WF_outboxVars(StartProcess(p))
       /\ WF_outboxVars(RecoverAbandonedClaims(p))
       /\ WF_outboxVars(ReadBatch(p))
       /\ SF_outboxVars(Claim(p))
       /\ WF_outboxVars(Post(p))
       /\ WF_outboxVars(Record(p))

OutboxLiveSpec == OutboxSpec /\ Fairness

-----------------------------------------------------------------------------
(* Safety. *)

(* Two workers never post the same row at a time, and a row being posted   *)
(* is marked PROCESSING: conditional claims, and recovery only of claims   *)
(* that nobody works on, keep several instances apart.                     *)
ClaimIsExclusive ==
  \A p \in Processes, r \in Rows :
    Claims(p, r) =>
      /\ row[r].status = "PROCESSING"
      /\ ~row[r].aged
      /\ \A q \in Processes \ {p} : ~Claims(q, r)

(* A row is marked DELIVERED only if the connector received the event:     *)
(* crashes, lost answers and failed writes repeat an event, never skip it. *)
DeliveredIsReceived == \A r \in Rows : row[r].status = "DELIVERED" => r \in received

(* A row is given up exactly when MAX_ATTEMPTS failures are counted.       *)
GivenUpOnlyWhenExhausted ==
  \A r \in Rows : (row[r].status = "DEAD_LETTER") <=> (row[r].attempts >= MaxAttempts)

(* A delivered or dead row is never picked up again, whatever batches,     *)
(* claims and recoveries are still under way.                              *)
SettledIsFinal ==
  [][\A r \in Rows : Settled(r) => row'[r].status = row[r].status]_row

(* Every failed delivery is counted, so that a row is given up in the end  *)
(* (docs/08: DEAD_LETTER after eight).  Holds for one process; with two, a *)
(* batch read before the other one's failure restores the old count.       *)
EveryFailureCounts ==
  [][\A p \in Processes : worker[p].pc = "failed" /\ row' # row /\ worker'[p] # worker[p]
       => row'[Current(p)].attempts = row[Current(p)].attempts + 1]_outboxVars

(* A retry waits for its backoff (docs/08).  Holds for one process; with   *)
(* two, the claim does not look at nextAttemptAt again.                    *)
BackoffIsRespected ==
  [][\A r \in Rows : row[r].status = "PENDING" /\ row'[r].status = "PROCESSING" => row[r].due]_row

(* The two rules of docs/08 together.                                      *)
RetriesFollowTheRules == EveryFailureCounts /\ BackoffIsRespected

(* Liveness: a row waiting for delivery is delivered or given up in the    *)
(* end, or is left claimed by a worker that is gone.                       *)
PendingIsSettledOrAbandoned ==
  \A r \in Rows : row[r].status = "PENDING" ~> (Settled(r) \/ Abandoned(r))
=============================================================================
