-------------------------- MODULE FinancialDelivery --------------------------
(***************************************************************************)
(* Signed financial messages (nexi-financial-transport.cjs).  A call of    *)
(* withRecipient verifies a token, consumes its delivery in Redis in one   *)
(* step (consumeOnClaim), and runs the send operation, which asks again    *)
(* whether the token still authorises it: before the number lookup, after  *)
(* it, before the relay and, at the last, on the final stanza.  What that  *)
(* last check clears still waits for the gate of the socket (sendNode      *)
(* awaits assertNode) before it is written.  Meanwhile the instance may be *)
(* re-linked to another WhatsApp session or renamed, time passes, calls    *)
(* overlap and processes die.                                              *)
(***************************************************************************)
EXTENDS LedgerScripts

CONSTANTS
  Calls,      \* sendButtons calls; a claim carries a fresh ownerToken
  Tokens,     \* signed tokens, each with its own claims (and body hash)
  Keys,       \* ledger keys: instance, account, inbox and delivery id
  KeyOf,      \* KeyOf[t]: the delivery t was signed for
  Deadline,   \* Deadline[t]: claims[9]
  SessionOf,  \* SessionOf[t]: claims[11], a session fingerprint
  Sessions,   \* session fingerprints of the instance, over its life
  Window,     \* 300000 ms: how far ahead a deadline may lie when verified
  MaxNow      \* bound on the clock

ASSUME FinancialConstants ==
  /\ Window \in Nat /\ MaxNow \in Nat
  /\ KeyOf \in [Tokens -> Keys] /\ Deadline \in [Tokens -> Nat]
  /\ SessionOf \in [Tokens -> Sessions]
  /\ NoRecord \notin Records(Tokens, Calls)

\* The backend stops signing a delivery before its 30 days of retention,
\* counted from its earliest token, run out.
ASSUME RetentionCoversTokens ==
  \A s, t \in Tokens :
    KeyOf[s] = KeyOf[t] => Deadline[t] + Window <= Deadline[s] + Ttl

VARIABLES
  now,        \* one clock for hosts and Redis
  store,      \* Redis: key -> record
  session,    \* sessionFingerprint of service.client's credentials
  bound,      \* currentBinding(): the service is the instance of the tokens
  pc,         \* where each call is
  token,      \* its token
  crossed,    \* state.crossed
  socket,     \* the session of the socket the relay was handed to
  wire,       \* "closed", "open" (relayMessage running), "cleared" or "written"
  answer,     \* what the caller was told
  writes      \* WhatsApp messages written, per key

instance == <<session, bound>>
relay    == <<crossed, socket, wire>>
vars     == <<now, store, instance, pc, token, relay, answer, writes>>

Stages == {"idle", "verified", "operating", "resolving", "addressed", "crossed",
           "relaying", "returned", "threw", "answered", "crashed"}

\* A relay under way, and one whose stanza passed the wire check.
Pending == {"open", "cleared"}

TypeOK ==
  /\ now \in Nat
  /\ store \in [Keys -> Records(Tokens, Calls) \cup {NoRecord}]
  /\ session \in Sessions /\ bound \in BOOLEAN
  /\ pc \in [Calls -> Stages]
  /\ token \in [Calls -> Tokens]
  /\ crossed \in [Calls -> BOOLEAN]
  /\ socket \in [Calls -> Sessions]
  /\ wire \in [Calls -> Pending \cup {"closed", "written"}]
  /\ answer \in [Calls -> {"none", "ok", "failed"}]
  /\ writes \in [Keys -> Nat]

Init ==
  /\ now = 0
  /\ store = [k \in Keys |-> NoRecord]
  /\ session \in Sessions /\ bound = TRUE
  /\ pc = [c \in Calls |-> "idle"]
  /\ token \in [Calls -> Tokens]
  /\ crossed = [c \in Calls |-> FALSE]
  /\ socket = [c \in Calls |-> session]
  /\ wire = [c \in Calls |-> "closed"]
  /\ answer = [c \in Calls |-> "none"]
  /\ writes = [k \in Keys |-> 0]

GoTo(c, stage) ==
  /\ pc' = [pc EXCEPT ![c] = stage]
  /\ UNCHANGED answer

Answer(c, a) ==
  /\ pc' = [pc EXCEPT ![c] = "answered"]
  /\ answer' = [answer EXCEPT ![c] = a]

\* What every check of a token asks of this moment; that the recipient at
\* hand is the token's is the other half of a check, and failing it is among
\* the reasons of OperationThrows and WireRefused.
Authorised(t) == now < Deadline[t] /\ bound /\ session = SessionOf[t]

-----------------------------------------------------------------------------
\* The signature and the claims are checked before anything is awaited.
Verify(c) ==
  LET t == token[c] IN
  /\ pc[c] = "idle"
  /\ Authorised(t) /\ Deadline[t] <= now + Window
  /\ GoTo(c, "verified")
  /\ UNCHANGED <<now, store, instance, token, relay, writes>>

Refuse(c) ==
  /\ pc[c] = "idle"
  /\ ~ (Authorised(token[c]) /\ Deadline[token[c]] <= now + Window)
  /\ Answer(c, "failed")
  /\ UNCHANGED <<now, store, instance, token, relay, writes>>

\* store.claim: the claim itself consumes the delivery.  'heard' is FALSE
\* when the reply is lost, which leaves the delivery consumed.
Claim(c, heard) ==
  LET t == token[c]
      k == KeyOf[t]
      won == ClaimReply(store[k], t, now, "dispatching") = "claimed"
  IN
  /\ pc[c] = "verified"
  /\ store' = IF won
              THEN [store EXCEPT ![k] = ClaimRecord(@, t, c, now, "dispatching")]
              ELSE store
  /\ IF won /\ heard THEN GoTo(c, "operating") ELSE Answer(c, "failed")
  /\ UNCHANGED <<now, instance, token, relay, writes>>

ClaimUnreachable(c) ==
  /\ pc[c] = "verified"
  /\ Answer(c, "failed")
  /\ UNCHANGED <<now, store, instance, token, relay, writes>>

-----------------------------------------------------------------------------
\* sendMessageWithTyping: resolutionInput, then the number lookup is awaited.
ResolutionInput(c) ==
  /\ pc[c] = "operating"
  /\ Authorised(token[c])
  /\ GoTo(c, "resolving")
  /\ UNCHANGED <<now, store, instance, token, relay, writes>>

\* assertRecipient on what the lookup resolved to.
AssertRecipient(c) ==
  /\ pc[c] = "resolving"
  /\ Authorised(token[c])
  /\ GoTo(c, "addressed")
  /\ UNCHANGED <<now, store, instance, token, relay, writes>>

\* What-if variant: the duplicate relay is not noticed.
BeginRelayAgain(c) ==
  /\ pc[c] = "addressed"
  /\ Authorised(token[c])
  /\ crossed' = [crossed EXCEPT ![c] = TRUE]
  /\ GoTo(c, "crossed")
  /\ UNCHANGED <<now, store, instance, token, socket, wire, writes>>

\* beginRelay: an operation relays once.
BeginRelay(c) ==
  /\ pc[c] = "addressed"
  /\ Authorised(token[c]) /\ ~ crossed[c]
  /\ crossed' = [crossed EXCEPT ![c] = TRUE]
  /\ GoTo(c, "crossed")
  /\ UNCHANGED <<now, store, instance, token, socket, wire, writes>>

\* beginRelay was awaited: the socket is the one the client has by now.
RelayMessage(c) ==
  /\ pc[c] = "crossed"
  /\ socket' = [socket EXCEPT ![c] = session]
  /\ wire' = [wire EXCEPT ![c] = "open"]
  /\ GoTo(c, "relaying")
  /\ UNCHANGED <<now, store, instance, token, crossed, writes>>

Written(c) ==
  /\ wire' = [wire EXCEPT ![c] = "written"]
  /\ writes' = [writes EXCEPT ![KeyOf[token[c]]] = @ + 1]
  /\ UNCHANGED <<now, store, instance, pc, token, crossed, socket, answer>>

Cleared(c) ==
  /\ wire' = [wire EXCEPT ![c] = "cleared"]
  /\ UNCHANGED <<now, store, instance, pc, token, crossed, socket, answer, writes>>

\* What-if variant: the wire check trusts what beginRelay checked.
AssertWireUnchecked(c) == wire[c] = "open" /\ Cleared(c)

\* assertWireRecipient inside relayMessage, on the stanza that is about to go to
\* sendNode; possibly long after the operation threw.
AssertWireRecipient(c) ==
  /\ wire[c] = "open"
  /\ Authorised(token[c]) /\ socket[c] = SessionOf[token[c]]
  /\ Cleared(c)

\* sendNode awaits assertNode, which reads the database and asks the application
\* for the context, then encodes the stanza and writes it.  By now the deadline
\* may be past and the instance another one: neither is asked again.
WriteWire(c) ==
  /\ wire[c] = "cleared"
  /\ Written(c)

\* The wire check refuses, for the moment, the socket, the stanza's recipient or
\* a device of someone else, or assertNode or the socket does after it:
\* relayMessage throws without writing.
WireRefused(c) ==
  /\ wire[c] \in Pending
  /\ wire' = [wire EXCEPT ![c] = "closed"]
  /\ IF pc[c] = "relaying" THEN GoTo(c, "threw") ELSE UNCHANGED <<pc, answer>>
  /\ UNCHANGED <<now, store, instance, token, crossed, socket, writes>>

\* relayMessage resolves only after the stanza was sent.  The operation then
\* returns, or sends something more.
OperationReturns(c) ==
  /\ pc[c] = "relaying" /\ wire[c] = "written"
  /\ GoTo(c, "returned")
  /\ UNCHANGED <<now, store, instance, token, relay, writes>>

OperationSendsMore(c) ==
  /\ pc[c] = "relaying" /\ wire[c] = "written"
  /\ GoTo(c, "operating")
  /\ UNCHANGED <<now, store, instance, token, relay, writes>>

\* A check, the lookup or the relay fails, a relay also while its write is
\* still to come.
OperationThrows(c) ==
  /\ pc[c] \in {"operating", "resolving", "addressed", "crossed", "relaying"}
  /\ GoTo(c, "threw")
  /\ UNCHANGED <<now, store, instance, token, relay, writes>>

-----------------------------------------------------------------------------
Settled(k, c, target) ==
  IF FinishReply(store[k], token[c], c, target, now) = target
  THEN [store EXCEPT ![k] = FinishRecord(@, target)] ELSE store

\* What-if variant: an operation that threw is settled like one that returned.
FinishAllCompleted(c, heard) ==
  LET k == KeyOf[token[c]] IN
  /\ pc[c] \in {"returned", "threw"}
  /\ store' = Settled(k, c, "completed")
  /\ IF heard THEN Answer(c, "ok") ELSE GoTo(c, "threw")
  /\ UNCHANGED <<now, instance, token, relay, writes>>

\* store.finish(claim, 'completed'); if it is refused or its reply is lost,
\* the catch block settles as after an operation that threw.
FinishCompleted(c, heard) ==
  LET k == KeyOf[token[c]]
      applied == FinishReply(store[k], token[c], c, "completed", now) = "completed"
  IN
  /\ pc[c] = "returned"
  /\ store' = Settled(k, c, "completed")
  /\ IF applied /\ heard THEN Answer(c, "ok") ELSE GoTo(c, "threw")
  /\ UNCHANGED <<now, instance, token, relay, writes>>

\* The finish(claim, 'completed') command never reached Redis.
FinishUnreachable(c) ==
  /\ pc[c] = "returned"
  /\ GoTo(c, "threw")
  /\ UNCHANGED <<now, store, instance, token, relay, writes>>

\* store.finish(claim, 'ambiguous'), best effort, and the answer.
FinishAmbiguous(c, reached) ==
  /\ pc[c] = "threw"
  /\ store' = IF reached THEN Settled(KeyOf[token[c]], c, "ambiguous") ELSE store
  /\ Answer(c, "failed")
  /\ UNCHANGED <<now, instance, token, relay, writes>>

Crash(c) ==
  /\ pc[c] \notin {"idle", "answered", "crashed"}
  /\ GoTo(c, "crashed")
  /\ wire' = [wire EXCEPT ![c] = IF @ \in Pending THEN "closed" ELSE @]
  /\ UNCHANGED <<now, store, instance, token, crossed, socket, writes>>

-----------------------------------------------------------------------------
\* The instance is linked to another session, or again to an earlier one.
Relink(s) ==
  /\ session' = s
  /\ UNCHANGED <<now, store, bound, pc, token, relay, answer, writes>>

\* The service object comes to stand for another instance.
Rebind ==
  /\ bound' = ~ bound
  /\ UNCHANGED <<now, store, session, pc, token, relay, answer, writes>>

Tick ==
  /\ now < MaxNow
  /\ now' = now + 1
  /\ UNCHANGED <<store, instance, pc, token, relay, answer, writes>>

Progress(c) ==
  \/ Verify(c) \/ Refuse(c) \/ Claim(c, TRUE) \/ ResolutionInput(c)
  \/ AssertRecipient(c) \/ BeginRelay(c) \/ RelayMessage(c)
  \/ AssertWireRecipient(c) \/ WriteWire(c) \/ WireRefused(c)
  \/ OperationReturns(c) \/ OperationThrows(c)
  \/ FinishCompleted(c, TRUE) \/ FinishAmbiguous(c, TRUE)

Disturb(c) ==
  \/ Claim(c, FALSE) \/ ClaimUnreachable(c) \/ OperationSendsMore(c)
  \/ FinishCompleted(c, FALSE) \/ FinishUnreachable(c)
  \/ FinishAmbiguous(c, FALSE) \/ Crash(c)

Next ==
  \/ Tick \/ Rebind \/ \E s \in Sessions : Relink(s)
  \/ \E c \in Calls : Progress(c) \/ Disturb(c)

Spec == Init /\ [][Next]_vars

-----------------------------------------------------------------------------
\* A signed delivery is written to WhatsApp at most once, by whatever calls,
\* retries, re-signed tokens and crashes, even when a call stalls for longer
\* than the ledger remembers, and although the last check of a message lies
\* before the gate and the write behind it.
OncePerDelivery == \A k \in Keys : writes[k] <= 1

\* A message leaves only behind a wire check that found the very session, the
\* very instance and the time its token was signed for, although both may change
\* during every await of the operation; and however long the gate then takes, it
\* leaves by a socket of that session, and nobody wrote the delivery meanwhile.
\* That the deadline and the instance still stand at the write is not promised.
WrittenAsSigned ==
  [][\A c \in Calls :
       /\ wire'[c] = "cleared" /\ wire[c] # "cleared" =>
            /\ now < Deadline[token[c]] /\ bound
            /\ session = SessionOf[token[c]] /\ socket[c] = SessionOf[token[c]]
       /\ wire'[c] = "written" /\ wire[c] # "written" =>
            /\ wire[c] = "cleared" /\ socket[c] = SessionOf[token[c]]
            /\ writes[KeyOf[token[c]]] = 0]_wire

\* While a delivery may still be cleared for the wire, or is cleared and its
\* token valid, its record stands in the ledger, consumed and naming the one call
\* that may write it; and what is cleared nobody wrote, the token valid or not.
WriterOwnsDelivery ==
  \A c \in Calls :
    LET k == KeyOf[token[c]] IN
    /\ wire[c] \in Pending /\ now < Deadline[token[c]] =>
         /\ store[k] # NoRecord /\ store[k].expires > now
         /\ store[k].owner = c /\ store[k].state \in CrossedStates
         /\ writes[k] = 0
    /\ wire[c] = "cleared" => writes[k] = 0

\* 'completed' in the ledger, and success to the caller, stand for a message
\* that was written; the opposite is not promised.
CompletedWasWritten ==
  /\ \A k \in Keys : store[k] # NoRecord /\ store[k].state = "completed" =>
       writes[k] > 0
  /\ \A c \in Calls : answer[c] = "ok" => writes[KeyOf[token[c]]] > 0

\* A consumed delivery is never handed to a second operation before every
\* token signed for it is past its deadline, even if the first died before
\* doing anything.
ConsumedForGood ==
  [][\A k \in Keys :
       store[k] # NoRecord =>
         /\ store'[k] # NoRecord
         /\ store'[k].owner # store[k].owner =>
              \A t \in Tokens : KeyOf[t] = k => Deadline[t] <= now]_store

-----------------------------------------------------------------------------
\* The inductive invariant.

\* A call whose claim succeeded and that has not ended.
Running(c) ==
  pc[c] \in {"operating", "resolving", "addressed", "crossed", "relaying",
             "returned", "threw"} \/ wire[c] \in Pending

\* No record is forgotten while a token for its key is valid.
Retained ==
  \A k \in Keys : store[k] # NoRecord =>
    \A t \in Tokens : KeyOf[t] = k => Deadline[t] <= store[k].expires

\* A token was verified at a moment within Window of its deadline.
VerifiedInWindow ==
  \A c \in Calls : pc[c] = "verified" => Deadline[token[c]] <= now + Window

\* A running call owns its key until every token signed for it is past its
\* deadline, and until its own deadline nobody wrote what it has not yet written.
RunnerIsOwner ==
  \A c \in Calls : Running(c) =>
    LET k == KeyOf[token[c]] IN
    /\ store[k] # NoRecord /\ store[k].state # "reserved"
    /\ store[k].owner = c \/ \A t \in Tokens : KeyOf[t] = k => Deadline[t] <= now
    /\ now < Deadline[token[c]] /\ wire[c] # "written" => writes[k] = 0

\* What the wire check cleared keeps its claim to the write behind the gate, past
\* the deadline and the retention: nobody else is cleared, and nobody wrote.
ClearedAlone ==
  \A c \in Calls : wire[c] = "cleared" =>
    /\ writes[KeyOf[token[c]]] = 0 /\ socket[c] = SessionOf[token[c]]
    /\ \A d \in Calls \ {c} :
         KeyOf[token[d]] = KeyOf[token[c]] => wire[d] # "cleared"

\* One relay per call, and what is told of it.
RelayOnce ==
  \A c \in Calls :
    /\ wire[c] # "closed" => crossed[c]
    /\ wire[c] \in Pending => pc[c] \in {"relaying", "threw", "answered"}
    /\ pc[c] = "crossed" => crossed[c] /\ wire[c] = "closed"
    /\ pc[c] \in {"idle", "verified"} => wire[c] = "closed"
    /\ wire[c] = "written" => writes[KeyOf[token[c]]] > 0
    /\ pc[c] = "returned" => wire[c] = "written"

WrittenIsConsumed ==
  \A k \in Keys : writes[k] > 0 =>
    writes[k] = 1 /\ store[k] # NoRecord

IndInv ==
  /\ TypeOK /\ Retained /\ VerifiedInWindow /\ RunnerIsOwner /\ RelayOnce
  /\ ClearedAlone /\ WrittenIsConsumed /\ CompletedWasWritten
=============================================================================
