----------------------- MODULE ChatwootDispatch_proofs -----------------------
(***************************************************************************)
(* The theorems of ChatwootDispatch.  IndInv is shown inductive, one step  *)
(* per action; the safety properties and the refinement follow from it.    *)
(***************************************************************************)
EXTENDS ChatwootDispatch, TLAPS

-----------------------------------------------------------------------------
\* Facts about the scripts, from the record they find alone.

\* A claim of a record that is still live only ever extends a reservation
\* with the same body: whatever crossed the boundary is answered, not claimed
\* (CLAIM_SCRIPT).
LEMMA ClaimTakesReservation ==
  ASSUME NEW rec \in Records(Bodies, Requests), NEW hash \in Bodies,
         NEW t \in Nat, rec.expires > t,
         ClaimReply(rec, hash, t, "reserved") = "claimed"
  PROVE  rec.state = "reserved" /\ rec.hash = hash
  BY DispatchConstants DEF ClaimReply, Live, Records, RecordStates, CrossedStates

\* Only a completed record is answered as completed.
LEMMA CompletedAnswerIsTrue ==
  ASSUME NEW rec, NEW hash, NEW t \in Nat
  PROVE  LET reply == ClaimReply(rec, hash, t, "reserved") IN
         reply # "claimed" =>
           /\ ClaimAnswer(reply) \in Answers
           /\ ClaimAnswer(reply) # "ok"
           /\ ClaimAnswer(reply) = "delivery_completed" =>
                rec # NoRecord /\ rec.state = "completed"
  <1> DEFINE reply == ClaimReply(rec, hash, t, "reserved")
  <1>1. reply = "completed" => rec # NoRecord /\ rec.state = "completed"
    BY DEF ClaimReply, Live
  <1> HIDE DEF reply
  <1>2. /\ ClaimAnswer(reply) \in Answers
        /\ ClaimAnswer(reply) # "ok"
        /\ ClaimAnswer(reply) = "delivery_completed" => reply = "completed"
    BY DEF ClaimAnswer, Answers
  <1> QED BY <1>1, <1>2 DEF reply

\* The record left by a claim is a reservation of the claimer's.
LEMMA ClaimRecordReserved ==
  ASSUME NEW rec \in Records(Bodies, Requests) \cup {NoRecord}, NEW hash \in Bodies,
         NEW owner \in Requests, NEW t \in Nat,
         ClaimReply(rec, hash, t, "reserved") = "claimed"
  PROVE  LET new == ClaimRecord(rec, hash, owner, t, "reserved") IN
         /\ new \in Records(Bodies, Requests)
         /\ new.state = "reserved" /\ new.hash = hash /\ new.owner = owner
         /\ rec = NoRecord => new.expires = t + Ttl
         /\ rec # NoRecord /\ rec.expires > t => new.expires = rec.expires
  <1>1. CASE Live(rec, t) = NoRecord
    BY <1>1, LedgerTimes, DispatchConstants
    DEF ClaimRecord, Live, Records, RecordStates, CrossedStates
  <1>2. CASE Live(rec, t) # NoRecord
    <2>1. rec # NoRecord /\ Live(rec, t) = rec /\ rec \in Records(Bodies, Requests)
      BY <1>2 DEF Live
    <2>2. rec.state = "reserved" /\ rec.hash = hash
      BY <1>2, <2>1 DEF ClaimReply, Records, RecordStates, CrossedStates
    <2>3. ClaimRecord(rec, hash, owner, t, "reserved")
            = [rec EXCEPT !.owner = owner, !.until = t + Lease]
      BY <1>2, <2>1 DEF ClaimRecord
    <2>4. t + Lease \in Nat
      BY LedgerTimes
    <2> QED
      BY <2>1, <2>2, <2>3, <2>4, LedgerTimes DEF Records
  <1> QED BY <1>1, <1>2

\* Who crosses the boundary owns the reservation of that very body
\* (BEGIN_SCRIPT).
LEMMA BeginNeedsOwner ==
  ASSUME NEW rec \in Records(Bodies, Requests) \cup {NoRecord}, NEW hash, NEW owner,
         NEW t \in Nat, BeginReply(rec, hash, owner, t) = "dispatching"
  PROVE  /\ rec # NoRecord /\ rec.state = "reserved"
         /\ rec.hash = hash /\ rec.owner = owner
         /\ BeginRecord(rec) \in Records(Bodies, Requests)
         /\ BeginRecord(rec).state = "dispatching"
         /\ BeginRecord(rec).hash = rec.hash
         /\ BeginRecord(rec).owner = rec.owner
         /\ BeginRecord(rec).expires = rec.expires
  BY DispatchConstants DEF BeginReply, BeginRecord, Live, Records, RecordStates, CrossedStates

\* Who settles a record owns it and finds it dispatching (FINISH_SCRIPT).
LEMMA FinishNeedsOwner ==
  ASSUME NEW rec \in Records(Bodies, Requests) \cup {NoRecord}, NEW hash, NEW owner,
         NEW target \in {"completed", "ambiguous"}, NEW t \in Nat,
         FinishReply(rec, hash, owner, target, t) = target
  PROVE  /\ rec # NoRecord /\ rec.state = "dispatching"
         /\ rec.hash = hash /\ rec.owner = owner
         /\ FinishRecord(rec, target) \in Records(Bodies, Requests)
         /\ FinishRecord(rec, target).state = target
         /\ FinishRecord(rec, target).hash = rec.hash
         /\ FinishRecord(rec, target).owner = rec.owner
         /\ FinishRecord(rec, target).expires = rec.expires
  BY DispatchConstants DEF FinishReply, FinishRecord, Live, Records, RecordStates, CrossedStates

\* Retention: the record a claim finds has not run out, because its identity
\* was signed too recently (RetentionCoversReplay at work).
LEMMA ClaimFindsLive ==
  ASSUME IndInv, NEW r \in Requests, pc[r] = "verified",
         now <= checked[r] + MaxStall, store[delivery[r]] # NoRecord
  PROVE  store[delivery[r]].expires > now
  <1> DEFINE d == delivery[r]
  <1>1. d \in Deliveries /\ now \in Nat /\ checked[r] \in Nat
    BY DEF IndInv, TypeOK
  <1>2. store[d] \in Records(Bodies, Requests)
    BY <1>1 DEF IndInv, TypeOK
  <1>3. PICK t \in SignedAt[d] : checked[r] <= t + Skew
    BY DEF IndInv, FreshWhenChecked
  <1>4. t \in Nat /\ Skew \in Nat /\ MaxStall \in Nat
    BY <1>1, DispatchConstants
  <1>5. t + Skew + MaxStall < store[d].expires
    BY <1>1 DEF IndInv, Retained
  <1>6. store[d].expires \in Nat
    BY <1>2 DEF Records
  <1> QED BY <1>1, <1>3, <1>4, <1>5, <1>6

\* A delivery claimed for the first time is retained past its last replay.
LEMMA FreshRecordRetained ==
  ASSUME IndInv, NEW r \in Requests, pc[r] = "verified",
         NEW t \in SignedAt[delivery[r]]
  PROVE  t + Skew + MaxStall < now + Ttl
  <1> DEFINE d == delivery[r]
  <1>1. d \in Deliveries /\ now \in Nat /\ checked[r] \in Nat
    BY DEF IndInv, TypeOK
  <1>2. PICK s \in SignedAt[d] : s <= checked[r] + Skew
    BY DEF IndInv, FreshWhenChecked
  <1>3. checked[r] <= now
    BY DEF IndInv, FreshWhenChecked
  <1>4. /\ s \in Nat /\ t \in Nat /\ Skew \in Nat /\ MaxStall \in Nat /\ Ttl \in Nat
    BY <1>1, DispatchConstants, LedgerTimes
  <1>5. t + 2 * Skew + MaxStall < s + Ttl
    BY <1>1, RetentionCoversReplay
  <1> QED BY <1>1, <1>2, <1>3, <1>4, <1>5

-----------------------------------------------------------------------------
\* The inductive invariant holds initially: nothing is stored or claimed.
LEMMA InitIndInv == Init => IndInv
  BY DispatchConstants
  DEF Init, IndInv, TypeOK, Retained, FreshWhenChecked, HolderIsOwner, Holds,
      EffectsCrossed, HolderNotDone, SuccessIsReal, Stages, Answers, None

\* ... and is preserved by every step.
LEMMA NextIndInv == IndInv /\ [Next]_vars => IndInv'
  <1> SUFFICES ASSUME IndInv, [Next]_vars PROVE IndInv'
    OBVIOUS
  <1> USE DispatchConstants
      DEF IndInv, TypeOK, Retained, FreshWhenChecked, HolderIsOwner, Holds,
          EffectsCrossed, HolderNotDone, SuccessIsReal, GoTo, Reply, request,
          effects, Stages, Answers, None
  <1>1. CASE Tick
    BY <1>1 DEF Tick
  <1>2. ASSUME NEW r \in Requests, Receive(r) PROVE IndInv'
    BY <1>2 DEF Receive
  <1>3. ASSUME NEW r \in Requests, Refuse(r) PROVE IndInv'
    BY <1>3 DEF Refuse
  <1>4. ASSUME NEW r \in Requests, Claim(r) PROVE IndInv'
    <2> DEFINE d == delivery[r]
               reply == ClaimReply(store[d], body[r], now, "reserved")
               new == ClaimRecord(store[d], body[r], r, now, "reserved")
    <2>1. d \in Deliveries /\ body[r] \in Bodies /\ now \in Nat
      OBVIOUS
    <2>2. CASE reply # "claimed"
      <3>1. /\ ClaimAnswer(reply) \in Answers
            /\ ClaimAnswer(reply) # "ok"
            /\ ClaimAnswer(reply) = "delivery_completed" => d \in returned
        BY <2>1, <2>2, CompletedAnswerIsTrue
      <3>2. /\ pc' = [pc EXCEPT ![r] = "answered"]
            /\ answer' = [answer EXCEPT ![r] = ClaimAnswer(reply)]
            /\ UNCHANGED <<now, store, delivery, body, checked, wire, writes, returned>>
        BY <1>4, <2>2 DEF Claim
      <3> QED BY <3>1, <3>2
    <2>3. CASE reply = "claimed"
      <3>1. /\ new \in Records(Bodies, Requests)
            /\ new.state = "reserved" /\ new.hash = body[r] /\ new.owner = r
            /\ store[d] = NoRecord => new.expires = now + Ttl
            /\ store[d] # NoRecord /\ store[d].expires > now =>
                 new.expires = store[d].expires
        BY <2>1, <2>3, ClaimRecordReserved
      <3>2. store[d] # NoRecord =>
              store[d].expires > now /\ store[d].state = "reserved"
        BY <1>4, <2>1, <2>3, ClaimFindsLive, ClaimTakesReservation DEF Claim
      <3>3. \A q \in Requests : delivery[q] = d => ~ Holds(q)
        BY <3>2 DEF CrossedStates
      <3>4. /\ pc[r] = "verified" /\ pc' = [pc EXCEPT ![r] = "claimed"]
            /\ store' = [store EXCEPT ![d] = new]
            /\ UNCHANGED <<now, delivery, body, checked, answer, wire, writes, returned>>
        BY <1>4, <2>3 DEF Claim
      <3> HIDE DEF new
      <3>5. TypeOK'
        BY <3>1, <3>4
      <3>6. Retained'
        <4>1. \A t \in SignedAt[d] : t + Skew + MaxStall < new.expires
          BY <2>1, <3>1, <3>2, <3>4, FreshRecordRetained
        <4> QED BY <2>1, <3>4, <4>1
      <3>7. FreshWhenChecked'
        BY <3>4
      <3>8. HolderIsOwner'
        BY <2>1, <3>3, <3>4
      <3>9. EffectsCrossed'
        BY <2>1, <3>1, <3>2, <3>4 DEF CrossedStates
      <3>10. HolderNotDone' /\ SuccessIsReal'
        BY <3>4
      <3> QED BY <3>5, <3>6, <3>7, <3>8, <3>9, <3>10
    <2> QED BY <2>2, <2>3
  <1>5. ASSUME NEW r \in Requests, RejectHistory(r) PROVE IndInv'
    BY <1>5 DEF RejectHistory
  <1>6. ASSUME NEW r \in Requests, BeginDispatch(r) PROVE IndInv'
    <2> DEFINE d == delivery[r]
               new == BeginRecord(store[d])
    <2>1. d \in Deliveries /\ body[r] \in Bodies /\ now \in Nat
      OBVIOUS
    <2>2. CASE BeginReply(store[d], body[r], r, now) # "dispatching"
      BY <1>6, <2>2 DEF BeginDispatch
    <2>3. CASE BeginReply(store[d], body[r], r, now) = "dispatching"
      <3>1. /\ store[d] \in Records(Bodies, Requests) /\ store[d] # NoRecord
            /\ store[d].state = "reserved"
            /\ store[d].hash = body[r] /\ store[d].owner = r
            /\ new \in Records(Bodies, Requests)
            /\ new.state = "dispatching" /\ new.hash = body[r]
            /\ new.owner = r /\ new.expires = store[d].expires
        <4>1. store[d] \in Records(Bodies, Requests) \cup {NoRecord}
          BY <2>1
        <4> HIDE DEF IndInv, TypeOK
        <4>2. /\ store[d] # NoRecord /\ store[d].state = "reserved"
              /\ store[d].hash = body[r] /\ store[d].owner = r
          BY <2>1, <2>3, <4>1, BeginNeedsOwner
        <4> QED BY <2>1, <2>3, <4>1, <4>2, BeginNeedsOwner
      <3>2. new # NoRecord
        BY <3>1
      <3>3. \A q \in Requests : delivery[q] = d => ~ Holds(q)
        BY <3>1 DEF CrossedStates
      <3>4. writes[d] = 0 /\ d \notin returned
        BY <2>1, <3>1 DEF CrossedStates
      <3>5. /\ pc[r] = "claimed" /\ pc' = [pc EXCEPT ![r] = "crossed"]
            /\ store' = [store EXCEPT ![d] = new]
            /\ UNCHANGED <<now, delivery, body, checked, answer, wire, writes, returned>>
        BY <1>6, <2>3 DEF BeginDispatch
      <3> HIDE DEF new
      <3>6. TypeOK'
        BY <3>1, <3>5
      <3>7. Retained' /\ FreshWhenChecked'
        BY <2>1, <3>1, <3>2, <3>5
      <3>8. HolderIsOwner'
        BY <2>1, <3>1, <3>2, <3>3, <3>5 DEF CrossedStates
      <3>9. EffectsCrossed'
        BY <2>1, <3>1, <3>2, <3>4, <3>5 DEF CrossedStates
      <3>10. HolderNotDone' /\ SuccessIsReal'
        BY <3>4, <3>5
      <3> QED BY <3>6, <3>7, <3>8, <3>9, <3>10
    <2> QED BY <2>2, <2>3
  <1>7. ASSUME NEW r \in Requests, StoreUnavailable(r) PROVE IndInv'
    BY <1>7 DEF StoreUnavailable
  <1>8. ASSUME NEW r \in Requests, AcceptHistory(r) PROVE IndInv'
    BY <1>8 DEF AcceptHistory
  <1>9. ASSUME NEW r \in Requests, Execute(r) PROVE IndInv'
    BY <1>9 DEF Execute
  <1>10. ASSUME NEW r \in Requests, WriteWire(r) PROVE IndInv'
    BY <1>10 DEF WriteWire
  <1>11. ASSUME NEW r \in Requests, ExecuteReturns(r) PROVE IndInv'
    BY <1>11 DEF ExecuteReturns
  <1>12. ASSUME NEW r \in Requests, ExecuteThrows(r) PROVE IndInv'
    BY <1>12 DEF ExecuteThrows
  <1>13. ASSUME NEW r \in Requests, NEW heard \in BOOLEAN, Finish(r, heard) PROVE IndInv'
    <2> DEFINE d == delivery[r]
               new == FinishRecord(store[d], Target(r))
    <2>1. d \in Deliveries /\ body[r] \in Bodies /\ now \in Nat
      OBVIOUS
    <2>2. /\ Target(r) \in {"completed", "ambiguous"}
          /\ pc[r] \in {"returned", "threw"}
          /\ Target(r) = "completed" <=> pc[r] = "returned"
      BY <1>13 DEF Finish, Target
    <2>3. \A settled \in BOOLEAN :
            /\ FinishAnswer(r, settled) \in {"ok", "dispatch_outcome_unknown", "error"}
            /\ FinishAnswer(r, settled) = "ok" => pc[r] = "returned"
      BY <2>2 DEF FinishAnswer
    <2>4. CASE FinishReply(store[d], body[r], r, Target(r), now) # Target(r)
      <3>1. PICK a \in {"ok", "dispatch_outcome_unknown", "error"} :
              /\ answer' = [answer EXCEPT ![r] = a]
              /\ a = "ok" => pc[r] = "returned"
        BY <1>13, <2>3 DEF Finish
      <3>2. /\ pc' = [pc EXCEPT ![r] = "answered"]
            /\ UNCHANGED <<now, store, delivery, body, checked, wire, writes, returned>>
        BY <1>13, <2>4 DEF Finish
      <3> QED BY <2>2, <3>1, <3>2
    <2>5. CASE FinishReply(store[d], body[r], r, Target(r), now) = Target(r)
      <3>1. /\ store[d] \in Records(Bodies, Requests) /\ store[d] # NoRecord
            /\ store[d].state = "dispatching"
            /\ new \in Records(Bodies, Requests)
            /\ new.state = Target(r) /\ new.hash = store[d].hash
            /\ new.owner = store[d].owner /\ new.expires = store[d].expires
        <4>1. store[d] \in Records(Bodies, Requests) \cup {NoRecord}
          BY <2>1
        <4> HIDE DEF IndInv, TypeOK
        <4>2. /\ store[d] # NoRecord /\ store[d].state = "dispatching"
              /\ new \in Records(Bodies, Requests)
              /\ new.state = Target(r) /\ new.hash = store[d].hash
              /\ new.owner = store[d].owner /\ new.expires = store[d].expires
          BY <2>1, <2>2, <2>5, <4>1, FinishNeedsOwner, SMTT(60)
        <4> QED BY <4>1, <4>2, Zenon
      <3>2. new # NoRecord
        BY <3>1
      <3>3. PICK a \in {"ok", "dispatch_outcome_unknown", "error"} :
              /\ answer' = [answer EXCEPT ![r] = a]
              /\ a = "ok" => pc[r] = "returned"
        BY <1>13, <2>3 DEF Finish
      <3>4. /\ pc' = [pc EXCEPT ![r] = "answered"]
            /\ store' = [store EXCEPT ![d] = new]
            /\ UNCHANGED <<now, delivery, body, checked, wire, writes, returned>>
        BY <1>13, <2>5 DEF Finish
      <3> HIDE DEF new
      <3>5. TypeOK'
        BY <3>1, <3>3, <3>4
      <3>6. Retained' /\ FreshWhenChecked'
        BY <2>1, <3>1, <3>2, <3>4
      <3>7. HolderIsOwner'
        BY <2>1, <2>2, <3>1, <3>2, <3>4 DEF CrossedStates
      <3>8. EffectsCrossed'
        BY <2>1, <2>2, <3>1, <3>2, <3>4 DEF CrossedStates
      <3>9. HolderNotDone' /\ SuccessIsReal'
        BY <2>2, <3>3, <3>4
      <3> QED BY <3>5, <3>6, <3>7, <3>8, <3>9
    <2> QED BY <2>4, <2>5
  <1>14. ASSUME NEW r \in Requests, FinishUnreachable(r) PROVE IndInv'
    BY <1>14 DEF FinishUnreachable, FinishAnswer
  <1>15. ASSUME NEW r \in Requests, Crash(r) PROVE IndInv'
    BY <1>15 DEF Crash
  <1>16. CASE UNCHANGED vars
    BY <1>16 DEF vars
  <1> QED
    BY <1>1, <1>2, <1>3, <1>4, <1>5, <1>6, <1>7, <1>8, <1>9, <1>10, <1>11,
       <1>12, <1>13, <1>14, <1>15, <1>16
    DEF Next, Progress, Disturb

\* Every reachable state satisfies the inductive invariant.
THEOREM SpecIndInv == Spec => []IndInv
  BY InitIndInv, NextIndInv, PTL DEF Spec

-----------------------------------------------------------------------------
\* The state of every request, record and counter stays in its type
\* (processChatwootWebhook, createReplayLedger).
THEOREM SpecTypeOK == Spec => []TypeOK
  <1>1. IndInv => TypeOK
    BY DEF IndInv
  <1> QED BY <1>1, SpecIndInv, PTL

\* At most one WhatsApp message per signed delivery, for any number of
\* replays, replicas, crashes and lost replies.
THEOREM SpecAtMostOnce == Spec => []AtMostOnce
  <1>1. IndInv => AtMostOnce
    BY DEF IndInv, EffectsCrossed, AtMostOnce
  <1> QED BY <1>1, SpecIndInv, PTL

\* A record still reserved has had no effect, under no owner it ever had, so
\* reclaiming an expired reservation repeats nothing.
THEOREM SpecReservedProvesUntouched == Spec => []ReservedProvesUntouched
  <1>1. IndInv => ReservedProvesUntouched
    BY DEF IndInv, TypeOK, EffectsCrossed, HolderIsOwner, Holds,
           ReservedProvesUntouched, CrossedStates
  <1> QED BY <1>1, SpecIndInv, PTL

\* Whoever can write to WhatsApp owns the ledger record of its delivery.
THEOREM SpecSideEffectOwned == Spec => []SideEffectOwned
  <1>1. IndInv => SideEffectOwned
    BY DEF IndInv, HolderIsOwner, Holds, SideEffectOwned
  <1> QED BY <1>1, SpecIndInv, PTL

\* A success answer, first or replayed, stands for an operation that returned.
THEOREM SpecSuccessIsReal == Spec => []SuccessIsReal
  <1>1. IndInv => SuccessIsReal
    BY DEF IndInv
  <1> QED BY <1>1, SpecIndInv, PTL

-----------------------------------------------------------------------------
\* One step changes at most the record of one delivery, in one of three ways.
LEMMA StoreSteps ==
  ASSUME IndInv, Next, NEW d \in Deliveries
  PROVE  \/ store'[d] = store[d]
         \/ \E r \in Requests :
              /\ d = delivery[r] /\ Claim(r)
              /\ ClaimReply(store[d], body[r], now, "reserved") = "claimed"
              /\ store'[d] = ClaimRecord(store[d], body[r], r, now, "reserved")
         \/ \E r \in Requests :
              /\ d = delivery[r]
              /\ BeginReply(store[d], body[r], r, now) = "dispatching"
              /\ store'[d] = BeginRecord(store[d])
         \/ \E r \in Requests :
              /\ d = delivery[r] /\ Target(r) \in {"completed", "ambiguous"}
              /\ FinishReply(store[d], body[r], r, Target(r), now) = Target(r)
              /\ store'[d] = FinishRecord(store[d], Target(r))
  <1> USE DEF IndInv, TypeOK
  <1>1. CASE UNCHANGED store
    BY <1>1
  <1>2. CASE \E r \in Requests : Claim(r)
    BY <1>2 DEF Claim
  <1>3. CASE \E r \in Requests : BeginDispatch(r)
    BY <1>3 DEF BeginDispatch
  <1>4. CASE \E r \in Requests, heard \in BOOLEAN : Finish(r, heard)
    BY <1>4 DEF Finish, Target
  <1> QED
    BY <1>1, <1>2, <1>3, <1>4
    DEF Next, Progress, Disturb, Tick, Receive, Refuse, RejectHistory,
        StoreUnavailable, AcceptHistory, Execute, WriteWire, ExecuteReturns,
        ExecuteThrows, FinishUnreachable, Crash

\* The ledger never goes back: identities keep their body, crossed records
\* their owner, settled records everything.
THEOREM SpecLedgerNeverRegresses == Spec => LedgerNeverRegresses
  <1> DEFINE Forward == \A d \in Deliveries :
                          store[d] # NoRecord => Onward(store[d], store'[d])
  <1>1. IndInv /\ [Next]_vars => [Forward]_store
    <2> SUFFICES ASSUME IndInv, Next, NEW d \in Deliveries, store[d] # NoRecord
                 PROVE  Onward(store[d], store'[d])
      BY DEF vars
    <2>1. store[d] \in Records(Bodies, Requests) /\ now \in Nat
      BY DEF IndInv, TypeOK
    <2>2. \A r \in Requests : body[r] \in Bodies
      BY DEF IndInv, TypeOK
    <2>3. CASE store'[d] = store[d]
      BY <2>1, <2>3, DispatchConstants DEF Onward, CrossedStates
    <2>4. CASE \E r \in Requests :
                 /\ d = delivery[r] /\ Claim(r)
                 /\ ClaimReply(store[d], body[r], now, "reserved") = "claimed"
                 /\ store'[d] = ClaimRecord(store[d], body[r], r, now, "reserved")
      <3>1. PICK r \in Requests :
               /\ d = delivery[r] /\ Claim(r)
               /\ ClaimReply(store[d], body[r], now, "reserved") = "claimed"
               /\ store'[d] = ClaimRecord(store[d], body[r], r, now, "reserved")
        BY <2>4
      <3>2. store[d].expires > now
        BY <3>1, ClaimFindsLive DEF Claim
      <3>3. store[d].state = "reserved" /\ store[d].hash = body[r]
        BY <2>1, <2>2, <3>1, <3>2, ClaimTakesReservation
      <3>4. /\ store'[d] \in Records(Bodies, Requests)
            /\ store'[d].hash = body[r]
        BY <2>1, <2>2, <3>1, ClaimRecordReserved
      <3> QED BY <3>3, <3>4, DispatchConstants DEF Onward, CrossedStates
    <2>5. CASE \E r \in Requests :
                 /\ d = delivery[r]
                 /\ BeginReply(store[d], body[r], r, now) = "dispatching"
                 /\ store'[d] = BeginRecord(store[d])
      BY <2>1, <2>5, BeginNeedsOwner, DispatchConstants DEF Onward, CrossedStates
    <2>6. CASE \E r \in Requests :
                 /\ d = delivery[r] /\ Target(r) \in {"completed", "ambiguous"}
                 /\ FinishReply(store[d], body[r], r, Target(r), now) = Target(r)
                 /\ store'[d] = FinishRecord(store[d], Target(r))
      <3>1. PICK r \in Requests :
              /\ Target(r) \in {"completed", "ambiguous"}
              /\ FinishReply(store[d], body[r], r, Target(r), now) = Target(r)
              /\ store'[d] = FinishRecord(store[d], Target(r))
        BY <2>6
      <3>2. /\ store[d].state = "dispatching"
            /\ store'[d] \in Records(Bodies, Requests)
            /\ store'[d].state = Target(r)
            /\ store'[d].hash = store[d].hash /\ store'[d].owner = store[d].owner
        BY <2>1, <3>1, FinishNeedsOwner
      <3> QED BY <3>1, <3>2, DispatchConstants DEF Onward, CrossedStates
    <2> QED BY <2>3, <2>4, <2>5, <2>6, StoreSteps
  <1> QED BY <1>1, SpecIndInv, PTL DEF Spec, LedgerNeverRegresses

-----------------------------------------------------------------------------
\* The abstract phase of a delivery.
LEMMA PhaseOpen ==
  ASSUME NEW rec \in Records(Bodies, Requests) \cup {NoRecord}
  PROVE  LET phase == IF rec = NoRecord THEN "open"
                      ELSE IF rec.state = "reserved" THEN "open" ELSE rec.state
         IN /\ phase = "open" <=> (rec = NoRecord \/ rec.state = "reserved")
            /\ phase # "open" => rec # NoRecord /\ phase = rec.state
  BY DispatchConstants DEF Records, RecordStates, CrossedStates

\* Claiming, losing and answering are invisible to the abstract delivery;
\* crossing, writing, returning and settling are its four steps.
LEMMA OnceStep == IndInv /\ IndInv' /\ [Next]_vars => [Once!OnceNext]_(Once!onceVars)
  <1> SUFFICES ASSUME IndInv, IndInv', [Next]_vars
               PROVE  [Once!OnceNext]_(Once!onceVars)
    OBVIOUS
  <1> DEFINE Ph(rec) == IF rec = NoRecord THEN "open"
                        ELSE IF rec.state = "reserved" THEN "open" ELSE rec.state
             phase == [d \in Deliveries |-> Ph(store[d])]
  <1> USE DispatchConstants
  <1>0. TypeOK /\ TypeOK'
    BY DEF IndInv
  <1>1. CASE UNCHANGED <<store, writes, returned>>
    BY <1>1 DEF Once!onceVars
  <1>2. ASSUME NEW r \in Requests, Claim(r) PROVE UNCHANGED Once!onceVars
    <2> DEFINE d == delivery[r]
    <2>1. /\ d \in Deliveries /\ body[r] \in Bodies /\ now \in Nat
          /\ store[d] \in Records(Bodies, Requests) \cup {NoRecord}
      BY <1>0 DEF TypeOK
    <2>2. CASE ClaimReply(store[d], body[r], now, "reserved") = "claimed"
      <3>1. store[d] # NoRecord => store[d].state = "reserved"
        BY <1>2, <2>1, <2>2, ClaimFindsLive, ClaimTakesReservation DEF Claim
      <3>2. /\ store' = [store EXCEPT ![d] = ClaimRecord(store[d], body[r], r, now, "reserved")]
            /\ ClaimRecord(store[d], body[r], r, now, "reserved") \in Records(Bodies, Requests)
            /\ ClaimRecord(store[d], body[r], r, now, "reserved").state = "reserved"
            /\ UNCHANGED <<writes, returned>>
        BY <1>2, <2>1, <2>2, ClaimRecordReserved DEF Claim, effects
      <3>3. phase' = phase
        BY <1>0, <2>1, <3>1, <3>2 DEF TypeOK
      <3> QED BY <3>2, <3>3 DEF Once!onceVars
    <2>3. CASE ClaimReply(store[d], body[r], now, "reserved") # "claimed"
      BY <1>2, <2>3 DEF Claim, effects, Once!onceVars
    <2> QED BY <2>2, <2>3
  <1>3. ASSUME NEW r \in Requests, BeginDispatch(r)
        PROVE  Once!Cross(delivery[r]) \/ UNCHANGED Once!onceVars
    <2> DEFINE d == delivery[r]
    <2>1. /\ d \in Deliveries /\ body[r] \in Bodies /\ now \in Nat
          /\ store[d] \in Records(Bodies, Requests) \cup {NoRecord}
      BY <1>0 DEF TypeOK
    <2>2. CASE BeginReply(store[d], body[r], r, now) = "dispatching"
      <3>1. /\ store[d] # NoRecord /\ store[d].state = "reserved"
            /\ BeginRecord(store[d]) \in Records(Bodies, Requests)
            /\ BeginRecord(store[d]).state = "dispatching"
        BY <2>1, <2>2, BeginNeedsOwner
      <3>2. /\ store' = [store EXCEPT ![d] = BeginRecord(store[d])]
            /\ UNCHANGED <<writes, returned>>
        BY <1>3, <2>2 DEF BeginDispatch, effects
      <3>3. phase[d] = "open" /\ phase' = [phase EXCEPT ![d] = "dispatching"]
        BY <1>0, <2>1, <3>1, <3>2 DEF TypeOK
      <3> QED BY <3>2, <3>3 DEF Once!Cross
    <2>3. CASE BeginReply(store[d], body[r], r, now) # "dispatching"
      BY <1>3, <2>3 DEF BeginDispatch, effects, Once!onceVars
    <2> QED BY <2>2, <2>3
  <1>4. ASSUME NEW r \in Requests, AcceptHistory(r) \/ ExecuteReturns(r)
        PROVE  Once!Return(delivery[r])
    <2> DEFINE d == delivery[r]
    <2>1. /\ d \in Deliveries /\ d \notin returned
          /\ store[d] # NoRecord /\ store[d].state = "dispatching"
      BY <1>0, <1>4
      DEF IndInv, TypeOK, HolderIsOwner, Holds, HolderNotDone, AcceptHistory, ExecuteReturns
    <2>2. /\ returned' = returned \cup {d}
          /\ UNCHANGED <<store, writes>>
      BY <1>4 DEF AcceptHistory, ExecuteReturns, effects
    <2>3. phase[d] = "dispatching" /\ phase' = phase
      BY <2>1, <2>2
    <2> QED BY <2>1, <2>2, <2>3 DEF Once!Return
  <1>5. ASSUME NEW r \in Requests, WriteWire(r)
        PROVE  Once!Write(delivery[r])
    <2> DEFINE d == delivery[r]
    <2>1. /\ d \in Deliveries /\ d \notin returned /\ writes[d] = 0
          /\ store[d] # NoRecord /\ store[d].state \in {"dispatching", "ambiguous"}
      BY <1>0, <1>5
      DEF IndInv, TypeOK, HolderIsOwner, Holds, HolderNotDone, EffectsCrossed,
          CrossedStates, WriteWire
    <2>2. /\ writes' = [writes EXCEPT ![d] = 1]
          /\ UNCHANGED <<store, returned>>
      BY <1>0, <1>5, <2>1 DEF WriteWire, TypeOK
    <2>3. phase[d] \in {"dispatching", "ambiguous"} /\ phase' = phase
      BY <2>1, <2>2
    <2> QED BY <2>1, <2>2, <2>3 DEF Once!Write
  <1>6. ASSUME NEW r \in Requests, NEW heard \in BOOLEAN, Finish(r, heard)
        PROVE  Once!Settle(delivery[r]) \/ UNCHANGED Once!onceVars
    <2> DEFINE d == delivery[r]
               new == FinishRecord(store[d], Target(r))
    <2>1. /\ d \in Deliveries /\ body[r] \in Bodies /\ now \in Nat
          /\ store[d] \in Records(Bodies, Requests) \cup {NoRecord}
      BY <1>0 DEF TypeOK
    <2>2. /\ Target(r) = IF d \in returned THEN "completed" ELSE "ambiguous"
          /\ Target(r) \in {"completed", "ambiguous"}
      BY <1>6 DEF Finish, Target, IndInv, HolderNotDone
    <2>3. CASE FinishReply(store[d], body[r], r, Target(r), now) = Target(r)
      <3>0. Target(r) \in {"completed", "ambiguous"}
        BY <2>2
      <3>1. /\ store[d] # NoRecord /\ store[d].state = "dispatching"
            /\ new \in Records(Bodies, Requests) /\ new.state = Target(r)
        <4>1. store[d] \in Records(Bodies, Requests) \cup {NoRecord}
          BY <2>1
        <4>2. body[r] \in Bodies /\ now \in Nat
          BY <2>1
        <4> HIDE DispatchConstants
        <4> QED BY <2>3, <3>0, <4>1, <4>2, FinishNeedsOwner
      <3>2. /\ store' = [store EXCEPT ![d] = new]
            /\ UNCHANGED <<writes, returned>>
        BY <1>6, <2>3 DEF Finish, effects
      <3> HIDE DEF new
      <3>3. phase[d] = "dispatching" /\ phase' = [phase EXCEPT ![d] = Target(r)]
        BY <1>0, <2>1, <2>2, <3>1, <3>2 DEF TypeOK
      <3> QED BY <2>2, <3>2, <3>3 DEF Once!Settle
    <2>4. CASE FinishReply(store[d], body[r], r, Target(r), now) # Target(r)
      BY <1>6, <2>4 DEF Finish, effects, Once!onceVars
    <2> QED BY <2>3, <2>4
  <1>7. CASE \E r \in Requests : Claim(r) \/ BeginDispatch(r) \/ AcceptHistory(r)
               \/ ExecuteReturns(r) \/ WriteWire(r)
               \/ \E heard \in BOOLEAN : Finish(r, heard)
    <2>1. \A r \in Requests : delivery[r] \in Deliveries
      BY <1>0 DEF TypeOK
    <2>2. PICK r \in Requests :
             \/ Claim(r) \/ BeginDispatch(r) \/ AcceptHistory(r)
             \/ ExecuteReturns(r) \/ WriteWire(r)
             \/ \E heard \in BOOLEAN : Finish(r, heard)
      BY <1>7
    <2>3. \/ UNCHANGED Once!onceVars
          \/ Once!Cross(delivery[r]) \/ Once!Write(delivery[r])
          \/ Once!Return(delivery[r]) \/ Once!Settle(delivery[r])
      BY <1>2, <1>3, <1>4, <1>5, <1>6, <2>2
    <2>4. delivery[r] \in Deliveries
      BY <2>1
    <2>5. Once!OnceNext \/ UNCHANGED Once!onceVars
      BY <2>3, <2>4
      DEF Once!OnceNext, Once!Cross, Once!Write, Once!Return, Once!Settle
    <2> QED BY <2>5
  <1> QED
    BY <1>1, <1>7
    DEF Next, vars, effects, Progress, Disturb, Tick, Receive, Refuse, RejectHistory,
        StoreUnavailable, Execute, ExecuteThrows, FinishUnreachable, Crash

\* The webhook path implements at-most-once delivery (DeliveryOnce).
THEOREM SpecImplementsOnce == Spec => ImplementsOnce
  <1>1. Init => Once!OnceInit
    BY DEF Init, Once!OnceInit
  <1> QED
    BY <1>1, OnceStep, SpecIndInv, PTL DEF Spec, ImplementsOnce, Once!OnceSpec

-----------------------------------------------------------------------------
\* How far the handler of a request has come.
Position(stage) ==
  CASE stage = "idle" -> 0      [] stage = "verified" -> 1
    [] stage = "claimed" -> 2   [] stage = "crossed" -> 3
    [] stage = "executing" -> 4 [] stage \in {"returned", "threw"} -> 5
    [] OTHER -> 6

Forward(r) == Position(pc'[r]) > Position(pc[r])

\* A handler that runs on, or is disturbed, leaves its stage for a later one;
\* only a late write to WhatsApp happens beside it.
LEMMA OwnStepForward ==
  ASSUME TypeOK, NEW r \in Requests, Progress(r) \/ Disturb(r)
  PROVE  /\ Forward(r) \/ (WriteWire(r) /\ pc' = pc)
         /\ \A q \in Requests \ {r} : pc'[q] = pc[q]
  <1>0. pc \in [Requests -> Stages] /\ pc[r] \in Stages
    BY DEF TypeOK
  <1> USE <1>0 DEF Forward, Position
  <1>1. CASE Receive(r) \/ Refuse(r)
    BY <1>1 DEF Receive, Refuse, GoTo, Reply
  <1>2. CASE Claim(r)
    BY <1>2 DEF Claim, GoTo, Reply
  <1>3. CASE StoreUnavailable(r) \/ RejectHistory(r) \/ BeginDispatch(r)
    BY <1>3 DEF StoreUnavailable, RejectHistory, BeginDispatch, GoTo, Reply
  <1>4. CASE AcceptHistory(r) \/ Execute(r) \/ ExecuteReturns(r) \/ ExecuteThrows(r)
    BY <1>4 DEF AcceptHistory, Execute, ExecuteReturns, ExecuteThrows, GoTo
  <1>5. CASE \E heard \in BOOLEAN : Finish(r, heard)
    BY <1>5 DEF Finish, Reply
  <1>6. CASE FinishUnreachable(r) \/ Crash(r)
    <2>1. pc[r] \notin {"answered", "crashed"}
      BY <1>6 DEF FinishUnreachable, Crash
    <2>2. pc'[r] \in {"answered", "crashed"} /\ \A q \in Requests \ {r} : pc'[q] = pc[q]
      BY <1>6 DEF FinishUnreachable, Crash, GoTo, Reply
    <2>3. Position(pc[r]) \in 0 .. 5
      <3>1. \/ pc[r] = "idle" \/ pc[r] = "verified" \/ pc[r] = "claimed"
            \/ pc[r] = "crossed" \/ pc[r] = "executing"
            \/ pc[r] = "returned" \/ pc[r] = "threw"
        BY <2>1 DEF Stages
      <3> QED BY <3>1
    <2>4. Position(pc'[r]) = 6
      BY <2>2
    <2> HIDE DEF Position
    <2> QED BY <2>2, <2>3, <2>4
  <1>7. CASE WriteWire(r)
    BY <1>7 DEF WriteWire
  <1> QED
    BY <1>1, <1>2, <1>3, <1>4, <1>5, <1>6, <1>7
    DEF Progress, Disturb

\* One step of the system, as every handler sees it.
MovesForward ==
  \A r \in Requests :
    /\ Progress(r) => Forward(r)
    /\ pc'[r] # pc[r] => Forward(r)

\* No handler repeats a stage, whatever replays, reclaims and fails around it:
\* at most six steps of its own take it to an answer or to the death of its
\* process.  This is the measure behind EveryRequestEnds.
THEOREM SpecMovesForward == Spec => [][MovesForward]_vars
  <1>1. ASSUME IndInv, [Next]_vars, NEW r \in Requests
        PROVE  /\ Progress(r) => Forward(r)
               /\ pc'[r] # pc[r] => Forward(r)
    <2>1. TypeOK
      BY <1>1 DEF IndInv
    <2>2. ASSUME Progress(r) PROVE Forward(r)
      <3>1. CASE Forward(r)
        BY <3>1
      <3>2. CASE WriteWire(r) /\ pc' = pc
        BY <2>1, <2>2, <3>2
        DEF Progress, Claim, StoreUnavailable, RejectHistory, BeginDispatch,
          AcceptHistory, Execute, ExecuteReturns, ExecuteThrows, Finish, GoTo, Reply,
          TypeOK
      <3> QED BY <2>1, <2>2, <3>1, <3>2, OwnStepForward
    <2>3. CASE \E q \in Requests : Progress(q) \/ Disturb(q)
      BY <2>1, <2>2, <2>3, OwnStepForward
    <2>4. CASE Tick \/ UNCHANGED vars
      BY <2>2, <2>4 DEF Tick, vars
    <2> QED BY <1>1, <2>3, <2>4 DEF Next
  <1>2. IndInv /\ [Next]_vars => [MovesForward]_vars
    BY <1>1 DEF MovesForward
  <1> QED BY <1>2, SpecIndInv, PTL DEF Spec

\* Past the boundary there is always an operation to run: the bodies for which
\* there is none were answered before it.  Elsewhere some continuation always
\* applies, since each looks at both outcomes of what it awaited.
AlwaysResumable ==
  \A r \in Requests :
    pc[r] = "crossed" => Kind[body[r]] \in {"message", "history"}

\* No handler is left behind the dispatch boundary with nothing to run.
THEOREM SpecAlwaysResumable == Spec => []AlwaysResumable
  <1>1. Init => AlwaysResumable
    BY DEF Init, AlwaysResumable
  <1>2. ASSUME IndInv, AlwaysResumable, [Next]_vars PROVE AlwaysResumable'
    <2>0. /\ pc \in [Requests -> Stages] /\ body' = body
          /\ \A r \in Requests : Kind[body[r]] \in Kinds
      BY <1>2, DispatchConstants
      DEF IndInv, TypeOK, Next, vars, request, Progress, Disturb, Tick, Receive, Refuse,
        Claim, StoreUnavailable, RejectHistory, BeginDispatch, AcceptHistory, Execute,
        ExecuteReturns, ExecuteThrows, Finish, FinishUnreachable, Crash, WriteWire
    <2>1. ASSUME NEW r \in Requests, pc'[r] = "crossed", pc[r] # "crossed"
          PROVE  BeginDispatch(r)
      BY <1>2, <2>0, <2>1
      DEF Next, vars, Progress, Disturb, Tick, Receive, Refuse,
        Claim, StoreUnavailable, RejectHistory, BeginDispatch, AcceptHistory, Execute,
        ExecuteReturns, ExecuteThrows, Finish, FinishUnreachable, Crash, WriteWire,
        GoTo, Reply
    <2>2. ASSUME NEW r \in Requests, BeginDispatch(r)
          PROVE  Kind[body[r]] \in {"message", "history"}
      BY <2>0, <2>2 DEF BeginDispatch, Kinds
    <2> QED BY <1>2, <2>0, <2>1, <2>2 DEF AlwaysResumable
  <1> QED BY <1>1, <1>2, SpecIndInv, PTL DEF Spec
=============================================================================
