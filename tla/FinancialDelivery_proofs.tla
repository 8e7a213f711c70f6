----------------------- MODULE FinancialDelivery_proofs ----------------------
(***************************************************************************)
(* The theorems of FinancialDelivery.  Where ChatwootDispatch needs a      *)
(* bound on how long a claim may stall, the deadlines do that work here: a *)
(* call that outlived the ledger's memory can no longer be cleared for the *)
(* wire, nor can any other call once the record of a cleared one is gone.  *)
(***************************************************************************)
EXTENDS FinancialDelivery, TLAPS

-----------------------------------------------------------------------------
\* A consuming claim only succeeds on a key with no live record
\* (CLAIM_SCRIPT with initial = 'dispatching').
LEMMA ConsumeNeedsAbsence ==
  ASSUME NEW rec \in Records(Tokens, Calls) \cup {NoRecord}, NEW t \in Tokens,
         NEW m \in Nat, ClaimReply(rec, t, m, "dispatching") = "claimed"
  PROVE  rec = NoRecord \/ rec.expires <= m
  BY FinancialConstants DEF ClaimReply, Live, Records, RecordStates, CrossedStates

\* ... and leaves a consumed record of the caller's with a full TTL.
LEMMA ConsumedRecord ==
  ASSUME NEW rec \in Records(Tokens, Calls) \cup {NoRecord}, NEW t \in Tokens,
         NEW c \in Calls, NEW m \in Nat,
         ClaimReply(rec, t, m, "dispatching") = "claimed"
  PROVE  LET new == ClaimRecord(rec, t, c, m, "dispatching") IN
         /\ new \in Records(Tokens, Calls)
         /\ new.state = "dispatching" /\ new.owner = c /\ new.expires = m + Ttl
  <1>1. Live(rec, m) = NoRecord
    BY ConsumeNeedsAbsence DEF Live, Records
  <1> QED
    BY <1>1, LedgerTimes DEF ClaimRecord, Records, RecordStates, CrossedStates

\* Settling keeps everything of a record but its state (FINISH_SCRIPT).
LEMMA SettledRecord ==
  ASSUME NEW k \in Keys, NEW c \in Calls, NEW target \in {"completed", "ambiguous"},
         NEW q \in Keys, IndInv
  PROVE  LET old == store[q]
             new == Settled(k, c, target)[q]
         IN /\ new \in Records(Tokens, Calls) \cup {NoRecord}
            /\ new = NoRecord <=> old = NoRecord
            /\ new # NoRecord =>
                 /\ new.owner = old.owner /\ new.expires = old.expires
                 /\ new.state = old.state \/ (new.state = target /\ q = k)
  <1>1. /\ store[k] \in Records(Tokens, Calls) \cup {NoRecord}
        /\ store[q] \in Records(Tokens, Calls) \cup {NoRecord}
        /\ store \in [Keys -> Records(Tokens, Calls) \cup {NoRecord}]
    BY DEF IndInv, TypeOK
  <1>2. CASE FinishReply(store[k], token[c], c, target, now) = target
    <2>1. store[k] # NoRecord /\ store[k] \in Records(Tokens, Calls)
      BY <1>1, <1>2 DEF FinishReply, Live
    <2>2. /\ FinishRecord(store[k], target) \in Records(Tokens, Calls)
          /\ FinishRecord(store[k], target).owner = store[k].owner
          /\ FinishRecord(store[k], target).expires = store[k].expires
          /\ FinishRecord(store[k], target).state = target
          /\ FinishRecord(store[k], target) # NoRecord
      BY <2>1, FinancialConstants DEF FinishRecord, Records, RecordStates, CrossedStates
    <2>3. Settled(k, c, target) = [store EXCEPT ![k] = FinishRecord(store[k], target)]
      BY <1>2 DEF Settled
    <2> QED BY <1>1, <2>1, <2>2, <2>3
  <1>3. CASE FinishReply(store[k], token[c], c, target, now) # target
    BY <1>1, <1>3 DEF Settled
  <1> QED BY <1>2, <1>3

\* Settling yields a ledger.
LEMMA SettledStore ==
  ASSUME NEW k \in Keys, NEW c \in Calls, NEW target \in {"completed", "ambiguous"}, IndInv
  PROVE  Settled(k, c, target) \in [Keys -> Records(Tokens, Calls) \cup {NoRecord}]
  <1>1. DOMAIN Settled(k, c, target) = Keys /\ Settled(k, c, target) = [q \in Keys |-> Settled(k, c, target)[q]]
    BY DEF Settled, IndInv, TypeOK
  <1>2. \A q \in Keys : Settled(k, c, target)[q] \in Records(Tokens, Calls) \cup {NoRecord}
    BY SettledRecord
  <1> QED BY <1>1, <1>2

-----------------------------------------------------------------------------
\* Nothing is stored or running at first.
LEMMA InitIndInv == Init => IndInv
  BY FinancialConstants
  DEF Init, IndInv, TypeOK, Retained, VerifiedInWindow, RunnerIsOwner, Running,
      RelayOnce, ClearedAlone, WrittenIsConsumed, CompletedWasWritten, Stages, Pending

\* Every step keeps the inductive invariant.
LEMMA NextIndInv == IndInv /\ [Next]_vars => IndInv'
  <1> SUFFICES ASSUME IndInv, [Next]_vars PROVE IndInv'
    OBVIOUS
  <1> USE FinancialConstants
      DEF TypeOK, Retained, VerifiedInWindow, RunnerIsOwner, Running, RelayOnce,
          ClearedAlone, WrittenIsConsumed, CompletedWasWritten, GoTo, Answer,
          instance, relay, Authorised, Stages, Pending
  <1>1. CASE Tick
    BY <1>1 DEF Tick, IndInv
  <1>2. CASE Rebind
    BY <1>2 DEF Rebind, IndInv
  <1>3. CASE \E s \in Sessions : Relink(s)
    BY <1>3 DEF Relink, IndInv
  <1>4. ASSUME NEW c \in Calls, Verify(c) PROVE IndInv'
    BY <1>4 DEF Verify, IndInv
  <1>5. ASSUME NEW c \in Calls, Refuse(c) PROVE IndInv'
    BY <1>5 DEF Refuse, IndInv
  <1>6. ASSUME NEW c \in Calls, NEW heard \in BOOLEAN, Claim(c, heard) PROVE IndInv'
    <2> DEFINE t == token[c]
               k == KeyOf[t]
               new == ClaimRecord(store[k], t, c, now, "dispatching")
    <2>1. /\ t \in Tokens /\ k \in Keys /\ now \in Nat
          /\ store[k] \in Records(Tokens, Calls) \cup {NoRecord}
      BY DEF IndInv
    <2>2. CASE ClaimReply(store[k], t, now, "dispatching") # "claimed"
      BY <1>6, <2>2 DEF Claim, IndInv
    <2>3. CASE ClaimReply(store[k], t, now, "dispatching") = "claimed"
      <3>1. store[k] = NoRecord \/ store[k].expires <= now
        BY <2>1, <2>3, ConsumeNeedsAbsence
      <3>2. /\ new \in Records(Tokens, Calls)
            /\ new.state = "dispatching" /\ new.owner = c /\ new.expires = now + Ttl
        BY <2>1, <2>3, ConsumedRecord
      <3>3. /\ pc[c] = "verified"
            /\ store' = [store EXCEPT ![k] = new]
            /\ UNCHANGED <<now, session, bound, token, crossed, socket, wire, writes>>
            /\ \/ pc' = [pc EXCEPT ![c] = "operating"] /\ answer' = answer
               \/ /\ pc' = [pc EXCEPT ![c] = "answered"]
                  /\ answer' = [answer EXCEPT ![c] = "failed"]
        BY <1>6, <2>3 DEF Claim
      <3> HIDE DEF new
      <3>4. \A u \in Tokens : KeyOf[u] = k => Deadline[u] <= now + Ttl
        <4>1. Deadline[t] <= now + Window
          BY <3>3 DEF IndInv
        <4> QED BY <2>1, <4>1, RetentionCoversTokens, LedgerTimes
      <3>5. store[k] # NoRecord => \A u \in Tokens : KeyOf[u] = k => Deadline[u] <= now
        BY <2>1, <3>1 DEF IndInv, Records
      <3>6. store[k] = NoRecord => writes[k] = 0
        BY <2>1 DEF IndInv
      <3>7. TypeOK'
        <4>1. store' \in [Keys -> Records(Tokens, Calls) \cup {NoRecord}]
          BY <3>2, <3>3 DEF IndInv
        <4>2. pc' \in [Calls -> Stages] /\ answer' \in [Calls -> {"none", "ok", "failed"}]
          BY <3>3 DEF IndInv
        <4> QED BY <3>3, <4>1, <4>2 DEF IndInv
      <3>8. Retained' /\ VerifiedInWindow'
        BY <2>1, <3>2, <3>3, <3>4 DEF IndInv
      <3>9. RunnerIsOwner'
        BY <2>1, <3>2, <3>3, <3>5, <3>6 DEF IndInv
      <3>10. RelayOnce' /\ ClearedAlone'
        BY <2>1, <3>3 DEF IndInv
      <3>11. WrittenIsConsumed' /\ CompletedWasWritten'
        BY <2>1, <3>2, <3>3 DEF IndInv
      <3> QED BY <3>7, <3>8, <3>9, <3>10, <3>11 DEF IndInv
    <2> QED BY <2>2, <2>3
  <1>7. ASSUME NEW c \in Calls, ClaimUnreachable(c) PROVE IndInv'
    BY <1>7 DEF ClaimUnreachable, IndInv
  <1>8. ASSUME NEW c \in Calls, ResolutionInput(c) PROVE IndInv'
    BY <1>8 DEF ResolutionInput, IndInv
  <1>9. ASSUME NEW c \in Calls, AssertRecipient(c) PROVE IndInv'
    BY <1>9 DEF AssertRecipient, IndInv
  <1>10. ASSUME NEW c \in Calls, BeginRelay(c) PROVE IndInv'
    BY <1>10 DEF BeginRelay, IndInv
  <1>11. ASSUME NEW c \in Calls, RelayMessage(c) PROVE IndInv'
    BY <1>11 DEF RelayMessage, IndInv
  <1>12. ASSUME NEW c \in Calls, WriteWire(c) PROVE IndInv'
    BY <1>12 DEF WriteWire, Written, IndInv
  <1>13. ASSUME NEW c \in Calls, WireRefused(c) PROVE IndInv'
    BY <1>13 DEF WireRefused, IndInv
  <1>14. ASSUME NEW c \in Calls, OperationReturns(c) PROVE IndInv'
    BY <1>14 DEF OperationReturns, IndInv
  <1>15. ASSUME NEW c \in Calls, OperationSendsMore(c) PROVE IndInv'
    BY <1>15 DEF OperationSendsMore, IndInv
  <1>16. ASSUME NEW c \in Calls, OperationThrows(c) PROVE IndInv'
    BY <1>16 DEF OperationThrows, IndInv
  <1>17. ASSUME NEW c \in Calls, NEW heard \in BOOLEAN, FinishCompleted(c, heard) PROVE IndInv'
    <2>1. KeyOf[token[c]] \in Keys
      BY DEF IndInv
    <2>2. store' = Settled(KeyOf[token[c]], c, "completed")
      BY <1>17 DEF FinishCompleted
    <2>3. /\ store' \in [Keys -> Records(Tokens, Calls) \cup {NoRecord}]
          /\ \A q \in Keys :
               /\ store'[q] = NoRecord <=> store[q] = NoRecord
               /\ store'[q] # NoRecord =>
                    /\ store'[q].owner = store[q].owner
                    /\ store'[q].expires = store[q].expires
                    /\ \/ store'[q].state = store[q].state
                       \/ store'[q].state = "completed" /\ q = KeyOf[token[c]]
      BY <2>1, <2>2, SettledRecord, SettledStore
    <2>4. writes[KeyOf[token[c]]] > 0
      BY <1>17 DEF FinishCompleted, IndInv
    <2>5. /\ pc[c] = "returned"
          /\ UNCHANGED <<now, session, bound, token, crossed, socket, wire, writes>>
          /\ pc' \in [Calls -> Stages] /\ answer' \in [Calls -> {"none", "ok", "failed"}]
          /\ pc'[c] \in {"answered", "threw"}
          /\ \A q \in Calls \ {c} : pc'[q] = pc[q] /\ answer'[q] = answer[q]
      BY <1>17 DEF FinishCompleted, IndInv
    <2>6. TypeOK'
      BY <2>3, <2>5 DEF IndInv
    <2>7. Retained' /\ VerifiedInWindow'
      BY <2>3, <2>1, <2>5 DEF IndInv
    <2>8. RunnerIsOwner'
      BY <2>3, <2>1, <2>5 DEF IndInv
    <2>9. RelayOnce' /\ ClearedAlone'
      BY <2>5 DEF IndInv
    <2>10. WrittenIsConsumed'
      BY <2>3, <2>5 DEF IndInv
    <2>11. CompletedWasWritten'
      BY <2>3, <2>1, <2>4, <2>5 DEF IndInv
    <2> QED BY <2>6, <2>7, <2>8, <2>9, <2>10, <2>11 DEF IndInv
  <1>18. ASSUME NEW c \in Calls, FinishUnreachable(c) PROVE IndInv'
    BY <1>18 DEF FinishUnreachable, IndInv
  <1>19. ASSUME NEW c \in Calls, NEW reached \in BOOLEAN, FinishAmbiguous(c, reached) PROVE IndInv'
    <2>1. KeyOf[token[c]] \in Keys
      BY DEF IndInv
    <2>2. /\ pc[c] = "threw" /\ pc' = [pc EXCEPT ![c] = "answered"]
          /\ answer' = [answer EXCEPT ![c] = "failed"]
          /\ UNCHANGED <<now, session, bound, token, crossed, socket, wire, writes>>
      BY <1>19 DEF FinishAmbiguous
    <2>3. CASE store' = store
      BY <2>1, <2>2, <2>3 DEF IndInv
    <2>4. CASE store' = Settled(KeyOf[token[c]], c, "ambiguous")
      <3>0. /\ store' \in [Keys -> Records(Tokens, Calls) \cup {NoRecord}]
            /\ \A q \in Keys :
                 /\ store'[q] = NoRecord <=> store[q] = NoRecord
                 /\ store'[q] # NoRecord =>
                      /\ store'[q].owner = store[q].owner
                      /\ store'[q].expires = store[q].expires
                      /\ \/ store'[q].state = store[q].state
                         \/ store'[q].state = "ambiguous" /\ q = KeyOf[token[c]]
        BY <2>1, <2>4, SettledRecord, SettledStore
      <3>1. TypeOK'
        BY <2>2, <3>0 DEF IndInv
      <3>2. Retained' /\ VerifiedInWindow'
        BY <2>1, <2>2, <3>0 DEF IndInv
      <3>3. RunnerIsOwner'
        BY <2>1, <2>2, <3>0 DEF IndInv
      <3>4. RelayOnce' /\ ClearedAlone'
        BY <2>2 DEF IndInv
      <3>5. WrittenIsConsumed' /\ CompletedWasWritten'
        BY <2>1, <2>2, <3>0 DEF IndInv
      <3> QED BY <3>1, <3>2, <3>3, <3>4, <3>5 DEF IndInv
    <2> QED BY <1>19, <2>3, <2>4 DEF FinishAmbiguous
  <1>20. ASSUME NEW c \in Calls, Crash(c) PROVE IndInv'
    BY <1>20 DEF Crash, IndInv
  <1>21. ASSUME NEW c \in Calls, AssertWireRecipient(c) PROVE IndInv'
    <2> DEFINE k == KeyOf[token[c]]
    <2>1. /\ wire[c] = "open" /\ now < Deadline[token[c]]
          /\ socket[c] = SessionOf[token[c]]
          /\ wire' = [wire EXCEPT ![c] = "cleared"]
          /\ UNCHANGED <<now, store, session, bound, pc, token, crossed, socket, answer, writes>>
      BY <1>21 DEF AssertWireRecipient, Cleared
    <2>2. /\ token[c] \in Tokens /\ k \in Keys /\ now \in Nat /\ Deadline[token[c]] \in Nat
          /\ writes[k] = 0 /\ store[k].owner = c
      BY <2>1 DEF IndInv
    <2>3. \A d \in Calls \ {c} : KeyOf[token[d]] = k => wire[d] # "cleared"
      BY <2>1, <2>2 DEF IndInv
    <2>4. TypeOK' /\ Retained' /\ VerifiedInWindow'
      BY <2>1 DEF IndInv
    <2>5. RunnerIsOwner'
      BY <2>1 DEF IndInv
    <2>6. RelayOnce' /\ WrittenIsConsumed' /\ CompletedWasWritten'
      BY <2>1 DEF IndInv
    <2>7. ClearedAlone'
      BY <2>1, <2>2, <2>3 DEF IndInv
    <2> QED BY <2>4, <2>5, <2>6, <2>7 DEF IndInv
  <1>22. CASE UNCHANGED vars
    BY <1>22 DEF vars, IndInv
  <1> QED
    BY <1>1, <1>2, <1>3, <1>4, <1>5, <1>6, <1>7, <1>8, <1>9, <1>10, <1>11, <1>12, <1>13, <1>14, <1>15, <1>16, <1>17, <1>18, <1>19, <1>20, <1>21,
       <1>22
    DEF Next, Progress, Disturb

\* Every reachable state satisfies the inductive invariant.
THEOREM SpecIndInv == Spec => []IndInv
  BY InitIndInv, NextIndInv, PTL DEF Spec

-----------------------------------------------------------------------------
\* Calls, records and counters stay in their types (withRecipient and the
\* state it keeps in recipientContext).
THEOREM SpecTypeOK == Spec => []TypeOK
  <1>1. IndInv => TypeOK
    BY DEF IndInv
  <1> QED BY <1>1, SpecIndInv, PTL

\* At most one WhatsApp message per signed delivery, whatever is retried,
\* re-signed, stalled or killed.
THEOREM SpecOncePerDelivery == Spec => []OncePerDelivery
  <1>1. IndInv => OncePerDelivery
    BY DEF IndInv, TypeOK, WrittenIsConsumed, OncePerDelivery
  <1> QED BY <1>1, SpecIndInv, PTL

\* Who may still be cleared, or is cleared in time, owns a live, consumed record;
\* what is cleared nobody wrote.
THEOREM SpecWriterOwnsDelivery == Spec => []WriterOwnsDelivery
  <1>1. IndInv => WriterOwnsDelivery
    <2> SUFFICES ASSUME IndInv, NEW c \in Calls
                 PROVE  LET k == KeyOf[token[c]] IN
                        /\ wire[c] \in Pending /\ now < Deadline[token[c]] =>
                             /\ store[k] # NoRecord /\ store[k].expires > now
                             /\ store[k].owner = c /\ store[k].state \in CrossedStates
                             /\ writes[k] = 0
                        /\ wire[c] = "cleared" => writes[k] = 0
      BY DEF WriterOwnsDelivery
    <2> DEFINE k == KeyOf[token[c]]
    <2>1. /\ token[c] \in Tokens /\ k \in Keys /\ now \in Nat
          /\ Deadline[token[c]] \in Nat
      BY FinancialConstants DEF IndInv, TypeOK
    <2>2. wire[c] = "cleared" => writes[k] = 0
      BY DEF IndInv, ClearedAlone
    <2>3. ASSUME wire[c] \in Pending, now < Deadline[token[c]]
          PROVE  /\ store[k] # NoRecord /\ store[k].expires > now
                 /\ store[k].owner = c /\ store[k].state \in CrossedStates
                 /\ writes[k] = 0
      <3>1. /\ store[k] # NoRecord /\ store[k].state # "reserved"
            /\ store[k].owner = c /\ writes[k] = 0
        BY <2>1, <2>3 DEF IndInv, RunnerIsOwner, Running, Pending
      <3>2. store[k] \in Records(Tokens, Calls)
        BY <2>1, <3>1 DEF IndInv, TypeOK
      <3>3. store[k].expires > now
        BY <2>1, <2>3, <3>1, <3>2 DEF IndInv, Retained, Records
      <3> QED BY <3>1, <3>2, <3>3 DEF Records, RecordStates
    <2> QED BY <2>2, <2>3
  <1> QED BY <1>1, SpecIndInv, PTL

\* 'completed' and success stand for a written message.
THEOREM SpecCompletedWasWritten == Spec => []CompletedWasWritten
  <1>1. IndInv => CompletedWasWritten
    BY DEF IndInv
  <1> QED BY <1>1, SpecIndInv, PTL

\* Messages leave behind a check that found session, instance and time as signed,
\* and by a socket of that session, whatever happens between the check and them.
THEOREM SpecWrittenAsSigned == Spec => WrittenAsSigned
  <1> DEFINE Signed(c) ==
               /\ wire'[c] = "cleared" /\ wire[c] # "cleared" =>
                    /\ now < Deadline[token[c]] /\ bound
                    /\ session = SessionOf[token[c]] /\ socket[c] = SessionOf[token[c]]
               /\ wire'[c] = "written" /\ wire[c] # "written" =>
                    /\ wire[c] = "cleared" /\ socket[c] = SessionOf[token[c]]
                    /\ writes[KeyOf[token[c]]] = 0
  <1>1. IndInv /\ [Next]_vars => [\A c \in Calls : Signed(c)]_wire
    <2> SUFFICES ASSUME IndInv, Next, NEW c \in Calls PROVE Signed(c)
      BY DEF vars, relay
    <2>1. ASSUME NEW d \in Calls, AssertWireRecipient(d) PROVE Signed(c)
      BY <2>1 DEF AssertWireRecipient, Cleared, Authorised, IndInv, TypeOK
    <2>2. ASSUME NEW d \in Calls, WriteWire(d) PROVE Signed(c)
      BY <2>2 DEF WriteWire, Written, IndInv, TypeOK, ClearedAlone
    <2>3. ASSUME NEW d \in Calls, RelayMessage(d) PROVE Signed(c)
      BY <2>3 DEF RelayMessage, IndInv, TypeOK
    <2>4. ASSUME NEW d \in Calls, WireRefused(d) \/ Crash(d) PROVE Signed(c)
      BY <2>4 DEF WireRefused, Crash, IndInv, TypeOK
    <2>5. CASE wire' = wire
      BY <2>5
    <2>6. \/ wire' = wire
          \/ \E d \in Calls : \/ AssertWireRecipient(d) \/ WriteWire(d)
                              \/ RelayMessage(d) \/ WireRefused(d) \/ Crash(d)
      BY DEF Next, Progress, Disturb, relay, Tick, Rebind, Relink,
             Verify, Refuse, Claim, ClaimUnreachable, ResolutionInput, AssertRecipient,
             BeginRelay, OperationReturns, OperationSendsMore, OperationThrows,
             FinishCompleted, FinishUnreachable, FinishAmbiguous
    <2> QED BY <2>1, <2>2, <2>3, <2>4, <2>5, <2>6
  <1> QED BY <1>1, SpecIndInv, PTL DEF Spec, WrittenAsSigned

\* A consumed delivery is not handed to another operation while any of its
\* tokens is valid.
THEOREM SpecConsumedForGood == Spec => ConsumedForGood
  <1> DEFINE Consumed(k) ==
               store[k] # NoRecord =>
                 /\ store'[k] # NoRecord
                 /\ store'[k].owner # store[k].owner =>
                      \A t \in Tokens : KeyOf[t] = k => Deadline[t] <= now
  <1>1. IndInv /\ [Next]_vars => [\A k \in Keys : Consumed(k)]_store
    <2> SUFFICES ASSUME IndInv, Next, NEW k \in Keys PROVE Consumed(k)
      BY DEF vars
    <2>1. CASE store' = store
      BY <2>1
    <2>2. ASSUME NEW c \in Calls, NEW heard \in BOOLEAN, Claim(c, heard)
          PROVE  Consumed(k)
      <3> DEFINE j == KeyOf[token[c]]
      <3>1. /\ token[c] \in Tokens /\ j \in Keys /\ now \in Nat
            /\ store[j] \in Records(Tokens, Calls) \cup {NoRecord}
        BY FinancialConstants DEF IndInv, TypeOK
      <3>2. CASE store' = store \/ k # j
        BY <2>2, <3>2 DEF Claim, IndInv, TypeOK
      <3>3. CASE k = j /\ ClaimReply(store[j], token[c], now, "dispatching") = "claimed"
        <4>1. store[k] # NoRecord =>
                \A t \in Tokens : KeyOf[t] = k => Deadline[t] <= now
          BY <3>1, <3>3, ConsumeNeedsAbsence, FinancialConstants
          DEF IndInv, Retained, Records
        <4>2. store'[k] # NoRecord
          BY <2>2, <3>1, <3>3, ConsumedRecord, FinancialConstants
          DEF Claim, IndInv, TypeOK
        <4> QED BY <4>1, <4>2
      <3> QED BY <2>2, <3>2, <3>3 DEF Claim
    <2>3. ASSUME NEW c \in Calls, NEW target \in {"completed", "ambiguous"},
                 store' = Settled(KeyOf[token[c]], c, target)
          PROVE  Consumed(k)
      <3>1. KeyOf[token[c]] \in Keys
        BY FinancialConstants DEF IndInv, TypeOK
      <3> QED BY <2>3, <3>1, SettledRecord
    <2>4. \/ store' = store
          \/ \E c \in Calls, heard \in BOOLEAN : Claim(c, heard)
          \/ \E c \in Calls : store' = Settled(KeyOf[token[c]], c, "completed")
          \/ \E c \in Calls : store' = Settled(KeyOf[token[c]], c, "ambiguous")
      BY DEF Next, Progress, Disturb, Tick, Rebind, Relink, Verify, Refuse,
             ClaimUnreachable, ResolutionInput, AssertRecipient, BeginRelay,
             RelayMessage, AssertWireRecipient, Cleared, WriteWire, Written,
             WireRefused, OperationReturns,
             OperationSendsMore, OperationThrows, FinishCompleted, FinishUnreachable,
             FinishAmbiguous, Crash
    <2> QED BY <2>1, <2>2, <2>3, <2>4
  <1> QED BY <1>1, SpecIndInv, PTL DEF Spec, ConsumedForGood
=============================================================================
