-------------------------- MODULE IdempotencyLedger --------------------------
(***************************************************************************)
(* One row of the idempotency_keys table and the five statements that      *)
(* PostgresRepository runs on it (persistence/repository.py:1378-1486).    *)
(* Every statement is one committed transaction of its own, so a service   *)
(* is free to be interrupted between any two of them.                      *)
(*                                                                         *)
(* response_status = 425 is the state "pending", any other status "done".  *)
(* expires_at is abstracted to the flag lapsed: whether the lease of a     *)
(* pending row is in the past.                                             *)
(***************************************************************************)
CONSTANTS
  Hash,      \* request fingerprints (sha256 of the canonical request)
  Body,      \* stored responses
  NoHash,    \* the request_hash of a row that does not exist
  NoBody     \* {"status": "PENDING"}, or no row

Row == [state  : {"absent", "pending", "done"},
        hash   : Hash \cup {NoHash},
        lapsed : BOOLEAN,
        body   : Body \cup {NoBody}]

Absent     == [state |-> "absent",  hash |-> NoHash, lapsed |-> FALSE, body |-> NoBody]
Pending(h) == [state |-> "pending", hash |-> h,      lapsed |-> FALSE, body |-> NoBody]
Done(h, b) == [state |-> "done",    hash |-> h,      lapsed |-> FALSE, body |-> b]

(* What get_idempotency tells a service. It selects the row without        *)
(* looking at expires_at, and every service refuses a pending row.         *)
Unused(row)        == row.state = "absent"
InProgress(row, h) == row.state = "pending" /\ row.hash = h
Replayable(row, h) == row.state = "done" /\ row.hash = h
Mismatch(row, h)   == row.state # "absent" /\ row.hash # h

(* Mutants, and what they do to the statements below: a lease that is      *)
(* reclaimed whatever its age, a release that ignores the status.          *)
ReservableAnyPending(row) == row.state \in {"absent", "pending"}
ReleaseAny(row) == Absent

(* reserve_idempotency wins: its UPDATE finds a pending row whose lease is *)
(* over, or its INSERT meets no row.                                       *)
Reservable(row) == row.state = "absent" \/ (row.state = "pending" /\ row.lapsed)

(* complete_idempotency: UPDATE ... WHERE response_status = 425. Neither    *)
(* the request hash nor the owner of the lease is compared.                *)
Complete(row, b) == IF row.state = "pending" THEN Done(row.hash, b) ELSE row

(* release_idempotency: DELETE ... WHERE response_status = 425.            *)
Release(row) == IF row.state = "pending" THEN Absent ELSE row

(* put_idempotency: INSERT ... ON CONFLICT DO NOTHING, already completed.  *)
Put(row, h, b) == IF row.state = "absent" THEN Done(h, b) ELSE row

(* Time passes: the lease of a pending row ends.                           *)
Lapse(row) == [row EXCEPT !.lapsed = TRUE]
=============================================================================
