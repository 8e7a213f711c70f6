---------------------------- MODULE LedgerScripts ----------------------------
(***************************************************************************)
(* The three Lua scripts of the shared Redis replay ledger                 *)
(* (nexi-transport.cjs: CLAIM_SCRIPT, BEGIN_SCRIPT, FINISH_SCRIPT) as      *)
(* operators on one ledger record.  Redis runs a script atomically, so a   *)
(* script is a reply and the record it leaves behind.  A record is absent  *)
(* (NoRecord) until claimed and again from the instant its TTL runs out.   *)
(* The 'inconsistent' replies for undecodable records are left out: only   *)
(* these scripts write the keys.                                           *)
(***************************************************************************)
EXTENDS Naturals

CONSTANTS
  Lease,     \* RESERVED_LEASE_MS: how long a reservation excludes others
  Ttl,       \* DELIVERY_TTL_SECONDS: how long a delivery identity is kept
  NoRecord   \* what GET returns for a missing key

ASSUME LedgerTimes == Lease \in Nat /\ Ttl \in Nat \ {0}

\* The states a stored record can be in; the last three say that the owner
\* has passed the point after which a WhatsApp write may have happened.
CrossedStates == {"dispatching", "completed", "ambiguous"}
RecordStates  == {"reserved"} \cup CrossedStates

Records(Hashes, Owners) ==
  [state: RecordStates, hash: Hashes, owner: Owners, until: Nat, expires: Nat]

\* redis GET: a key whose TTL has run out does not exist.
Live(rec, now) ==
  IF rec # NoRecord /\ rec.expires > now THEN rec ELSE NoRecord

-----------------------------------------------------------------------------
\* What-if variant: a stuck dispatching record is reclaimed like an expired
\* reservation.
ClaimReplyOfStuck(rec, hash, now, initial) ==
  LET old == Live(rec, now) IN
  IF old = NoRecord THEN "claimed"
  ELSE IF old.hash # hash THEN "identity_conflict"
  ELSE IF old.state \notin {"reserved", "dispatching"} THEN old.state
  ELSE IF old.until > now THEN "active_reserved" ELSE "claimed"

\* CLAIM_SCRIPT.  'initial' is "reserved" for Chatwoot deliveries and
\* "dispatching" for the consume-on-claim ledger of financial deliveries.
ClaimReply(rec, hash, now, initial) ==
  LET old == Live(rec, now) IN
  IF old = NoRecord THEN "claimed"
  ELSE IF old.hash # hash THEN "identity_conflict"
  ELSE IF old.state # "reserved" THEN old.state
  ELSE IF initial = "dispatching" \/ old.until > now THEN "active_reserved"
  ELSE "claimed"

\* What-if variant: the whole record only lives as long as its lease.
ClaimRecordOfLease(rec, hash, owner, now, initial) ==
  LET old == Live(rec, now) IN
  IF old = NoRecord
  THEN [state |-> initial, hash |-> hash, owner |-> owner,
        until |-> now + Lease, expires |-> now + Lease]
  ELSE [old EXCEPT !.owner = owner, !.until = now + Lease]

\* The record a successful claim leaves: fresh with a full TTL, or the
\* expired reservation under its new owner with its TTL kept (KEEPTTL).
ClaimRecord(rec, hash, owner, now, initial) ==
  LET old == Live(rec, now) IN
  IF old = NoRecord
  THEN [state |-> initial, hash |-> hash, owner |-> owner,
        until |-> now + Lease, expires |-> now + Ttl]
  ELSE [old EXCEPT !.owner = owner, !.until = now + Lease]

\* What-if variant: the owner token is not compared.
BeginReplyOfAnyone(rec, hash, owner, now) ==
  LET old == Live(rec, now) IN
  IF old # NoRecord /\ old.state = "reserved" /\ old.hash = hash
  THEN "dispatching" ELSE "lost_ownership"

\* BEGIN_SCRIPT: only the owner of an unexpired reservation may cross.
BeginReply(rec, hash, owner, now) ==
  LET old == Live(rec, now) IN
  IF /\ old # NoRecord
     /\ old.state = "reserved" /\ old.hash = hash /\ old.owner = owner
     /\ old.until > now
  THEN "dispatching" ELSE "lost_ownership"

\* The lease ends with the crossing (reservedUntilMs becomes null).
BeginRecord(rec) == [rec EXCEPT !.state = "dispatching", !.until = 0]

\* FINISH_SCRIPT: the owner settles its own dispatching record.
FinishReply(rec, hash, owner, target, now) ==
  LET old == Live(rec, now) IN
  IF /\ old # NoRecord
     /\ old.state = "dispatching" /\ old.hash = hash /\ old.owner = owner
  THEN target ELSE "inconsistent"

FinishRecord(rec, target) == [rec EXCEPT !.state = target]
=============================================================================
