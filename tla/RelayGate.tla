------------------------------- MODULE RelayGate -------------------------------
(***************************************************************************)
(* From a message handed to a socket to the bytes it writes                *)
(* (nexi-attendance: markInternalControl, beginRelay, patchEncoding,       *)
(* encodeMessage, snapshotFrame, bindStanza, assertNode without a          *)
(* released grant).  A message is copied, patched and encoded device by    *)
(* device, bound to a stanza, and the stanza judged, with awaits between;  *)
(* callers and callbacks keep references to what they handed over and      *)
(* change it meanwhile.  Every other write is a frame handed to sendNode.  *)
(***************************************************************************)
EXTENDS Naturals

CONSTANTS
  Calls,      \* of relayMessage and sendNode
  Sessions,   \* identities of credentials
  Messages,   \* that callers and callbacks make, see AllMessages
  NoMessage,
  Depth,      \* wrappers semanticPurpose looks through
  Fanout,     \* bound on the encodings of a relay
  MaxFaults   \* bound on failures and on pairings

Kinds == {"content", "change", "resend", "other"}
\* A message in a number of wrappers; "change" stands for edits, reactions,
\* revokes and the like, "resend" for the request to recover an incoming
\* placeholder, "other" for every other protocol message.
AllMessages == [wraps : Nat, kind : Kinds, body : Nat]

ASSUME RelayConstants ==
  /\ Messages \subseteq AllMessages /\ NoMessage \notin [message : Messages, env : {"bare", "to", "else"}]
  /\ Depth \in Nat \ {0} /\ Fanout \in Nat /\ MaxFaults \in Nat

\* For the own devices a message travels in an envelope that names the recipient.
Envelopes  == {"bare", "to", "else"}
Materials  == [message : Messages, env : Envelopes]
Recipients == {"own", "peer", "group"}
Ids        == {"fresh", "foundation"}
Frames     == [tag : {"message", "iq"}, to : Recipients, id : Ids, payload : SUBSET Materials]
Purposes   == {"customer", "unresolved", "customer_affecting"}
Modes      == {"legacy", "ambiguous", "captured", "cutover"}
\* Frames handed to sendNode, opaque or with a message that a relay once encoded.
DirectFrames ==
  {f \in [tag : {"message", "iq"}, to : Recipients, id : Ids, payload : {{}} \cup {{p} : p \in Materials}] :
     \A p \in f.payload : p.env = "bare"}
NoFrame    == [tag |-> "iq", to |-> "own", id |-> "fresh", payload |-> {}]

VARIABLES
  at,       \* each call and its local variables
  session,  \* of the socket's credentials
  mode,     \* classification of the socket
  faults

vars == <<at, session, mode, faults>>

Stages == {"idle", "encoding", "lookup", "context", "passed", "written", "denied"}
Locals == [pc : Stages, direct : BOOLEAN, control : BOOLEAN, to : Recipients, id : Ids,
           root : Messages \cup {NoMessage}, session : Sessions, purpose : Purposes, internal : BOOLEAN,
           encoded : Nat, patched : Materials \cup {NoMessage}, touched : BOOLEAN, reused : BOOLEAN,
           payload : SUBSET Materials, altered : BOOLEAN,
           proof : Purposes \cup {"internal_control"}, fixed : Frames, out : Frames,
           seen : [mode : Modes, session : Sessions]]

TypeOK ==
  /\ at \in [Calls -> Locals]
  /\ session \in Sessions /\ mode \in Modes /\ faults \in Nat

Idle(s) ==
  [pc |-> "idle", direct |-> FALSE, control |-> FALSE, to |-> "own", id |-> "fresh", root |-> NoMessage,
   session |-> s, purpose |-> "unresolved", internal |-> FALSE, encoded |-> 0, patched |-> NoMessage,
   touched |-> FALSE, reused |-> FALSE, payload |-> {}, altered |-> FALSE,
   proof |-> "unresolved", fixed |-> NoFrame, out |-> NoFrame,
   seen |-> [mode |-> "legacy", session |-> s]]

Init ==
  /\ session \in Sessions /\ mode \in Modes /\ faults = 0
  /\ at = [c \in Calls |-> Idle(session)]

Fault == faults < MaxFaults /\ faults' = faults + 1

-----------------------------------------------------------------------------
PurposeOfKind(k) ==
  IF k = "content" THEN "customer" ELSE IF k = "change" THEN "customer_affecting" ELSE "unresolved"

\* What-if variant: past the depth, the last wrapper is taken for content.
PurposeOfWrapper(m) == IF m.wraps >= Depth THEN "customer" ELSE PurposeOfKind(m.kind)

\* semanticPurpose: wrappers are looked through up to a depth.
Purpose(m) == IF m.wraps >= Depth THEN "unresolved" ELSE PurposeOfKind(m.kind)

\* What-if variant: the last encoding decides.
JoinLast(p, q) == q

Join(p, q) ==
  IF "customer_affecting" \in {p, q} THEN "customer_affecting"
  ELSE IF "unresolved" \in {p, q} THEN "unresolved" ELSE "customer"

\* markInternalControl: the exact request alone, and to the own phone.
Marked(m, to) == m.kind = "resend" /\ m.wraps = 0 /\ to = "own"

\* What a reference to v gives once its other holder may have changed it.
Held(changed, v, values) == IF changed THEN values ELSE {v}

\* What-if variant: the private root is the caller's own object.
RootShared(c) == Held(at[c].touched, at[c].root, Messages)
\* What a read of the root gives.
Root(c) == {at[c].root}

\* beginRelay, at once upon markInternalControl for the constructor of controls.
Relay(c, m, control, to, id) ==
  /\ at[c].pc = "idle" /\ (control => to = "own")
  /\ at' = [at EXCEPT ![c] = [@ EXCEPT !.pc = "encoding", !.control = control, !.to = to, !.id = id,
                                !.root = m, !.session = session, !.purpose = Purpose(m),
                                !.internal = control /\ Marked(m, to)]]
  /\ UNCHANGED <<session, mode, faults>>

\* patchEncoding: the callback gets a private copy and may return it as it is.
Patch(c, p) ==
  /\ at[c].pc = "encoding" /\ at[c].patched = NoMessage /\ at[c].encoded < Fanout
  /\ \E m \in Root(c) :
       at' = [at EXCEPT ![c].patched = p, ![c].altered = @ \/ p.message # m \/ p.env = "else"]
  /\ UNCHANGED <<session, mode, faults>>

\* What-if variant: the encoder reads what the callback still holds.
BytesShared(c) == Held(at[c].reused, at[c].patched, Materials)
\* What the encoder consumes.
Bytes(c) == {at[c].patched}

\* What-if variant: the envelope of the own devices makes another message of it.
SameBare(p, m) == p.env = "bare" /\ p.message = m
\* The message m, in an envelope to the recipient perhaps.
Same(p, m)     == p.env # "else" /\ p.message = m

\* encodeMessage: the material is classified and encoded at once, while the
\* credentials are those the relay began with.
Encode(c) ==
  LET r == at[c]  p == r.patched IN
  /\ r.pc = "encoding" /\ p # NoMessage
  /\ \E b \in Bytes(c) :
       at' = IF r.session # session THEN [at EXCEPT ![c].pc = "denied"]
             ELSE [at EXCEPT ![c] = [r EXCEPT !.patched = NoMessage, !.reused = FALSE, !.payload = @ \cup {b},
                                      !.encoded = @ + 1, !.purpose = Join(@, Purpose(p.message)),
                                      !.internal = @ /\ Same(p, r.root)]]
  /\ UNCHANGED <<session, mode, faults>>

\* What a judgement was made of.
Seen == [mode |-> mode, session |-> session]

\* assertNode up to its first await.
Entry(f) ==
  IF f.tag # "message" THEN "passed" ELSE IF f.id = "foundation" THEN "denied"
  ELSE IF mode = "legacy" THEN "passed" ELSE "lookup"

\* sendNode takes its own copy of the frame before it awaits anything.
Enter(c, f, r) == at' = [at EXCEPT ![c] = [r EXCEPT !.pc = Entry(f), !.fixed = f, !.seen = Seen]]

\* What-if variant: a control is recognised by its root alone.
BoundByRoot(c) == at[c].control /\ Marked(at[c].root, at[c].to)

\* bindStanza: still the control it was marked as.
BoundInternal(c) == at[c].internal /\ at[c].encoded > 0 /\ at[c].session = session

\* All devices are encoded: bindStanza and the entry into sendNode, at once.
Bind(c) ==
  LET r == at[c]
      f == [tag |-> "message", to |-> r.to, id |-> r.id, payload |-> r.payload] IN
  /\ r.pc = "encoding" /\ r.patched = NoMessage
  /\ Enter(c, f, [r EXCEPT !.proof = IF BoundInternal(c) THEN "internal_control" ELSE r.purpose])
  /\ UNCHANGED <<session, mode, faults>>

\* A frame that no relay made: nothing is known of its purpose.
Direct(c, f) ==
  /\ at[c].pc = "idle"
  /\ Enter(c, f, [at[c] EXCEPT !.direct = TRUE])
  /\ UNCHANGED <<session, mode, faults>>

To(c, pc) == at' = [at EXCEPT ![c] = [@ EXCEPT !.pc = pc, !.seen = Seen]]

\* What-if variant: the session of a control is not looked at again.
StillAnyInternal(c) == TRUE
StillInternal(c)    == at[c].session = session

\* assertNode after the lookup.  No row has an id that is not of the foundation.
\* Ordinary content needs a context of its own.
Verdict(c) ==
  LET r == at[c] IN
  IF r.proof = "internal_control" THEN IF StillInternal(c) THEN "passed" ELSE "denied"
  ELSE IF r.fixed.to = "group" THEN "passed"
  ELSE IF r.proof # "customer" \/ mode = "ambiguous" THEN "denied" ELSE "context"

Judge(c) == at[c].pc = "lookup" /\ To(c, Verdict(c)) /\ UNCHANGED <<session, mode, faults>>

\* The context is asked for anew and installed.
Refresh(c) ==
  /\ at[c].pc = "context"
  /\ \E m \in {"captured", "cutover"} :
       /\ mode' = m
       /\ at' = [at EXCEPT ![c] = [@ EXCEPT !.pc = IF m = "cutover" THEN "denied" ELSE "passed",
                                       !.seen = [mode |-> m, session |-> session]]]
  /\ UNCHANGED <<session, faults>>

\* What-if variant: the frame the caller still holds is written.
OutgoingShared(c) == Held(at[c].direct /\ at[c].touched, at[c].fixed, DirectFrames)
\* What sendNode writes.
Outgoing(c) == {at[c].fixed}

Write(c) ==
  /\ at[c].pc = "passed" /\ (\E f \in Outgoing(c) : at' = [at EXCEPT ![c].pc = "written", ![c].out = f])
  /\ UNCHANGED <<session, mode, faults>>

\* A copy, a callback, a lookup or the request for a context throws.
Throws(c) ==
  /\ at[c].pc \in {"encoding", "lookup", "context"} /\ Fault /\ To(c, "denied")
  /\ UNCHANGED <<session, mode>>

-----------------------------------------------------------------------------
\* A caller changes the message or frame it handed over, a callback the material
\* it returned: from then on a read of theirs may give anything.
CallerMutates(c) ==
  /\ at[c].pc \in (IF at[c].direct THEN {"lookup", "context", "passed"} ELSE {"encoding"}) /\ ~ at[c].touched
  /\ at' = [at EXCEPT ![c].touched = TRUE]
  /\ UNCHANGED <<session, mode, faults>>

CallbackMutates(c) ==
  /\ at[c].pc = "encoding" /\ at[c].patched # NoMessage /\ ~ at[c].reused
  /\ at' = [at EXCEPT ![c].reused = TRUE]
  /\ UNCHANGED <<session, mode, faults>>

\* Pairing replaces the credentials in this socket.
Pair ==
  /\ \E s \in Sessions \ {session} : session' = s
  /\ Fault /\ UNCHANGED <<at, mode>>

\* Another request installs a context.
Reclassify ==
  /\ \E m \in {"captured", "cutover"} : mode' = m
  /\ UNCHANGED <<at, session, faults>>

Steps(c) == Encode(c) \/ Bind(c) \/ Judge(c) \/ Refresh(c) \/ Write(c) \/ Throws(c)

Next ==
  \/ \E c \in Calls :
       \/ \E m \in Messages, control \in BOOLEAN, to \in Recipients, id \in Ids : Relay(c, m, control, to, id)
       \/ \E p \in Materials : Patch(c, p)
       \/ \E f \in DirectFrames : Direct(c, f)
       \/ Steps(c) \/ CallerMutates(c) \/ CallbackMutates(c)
  \/ Pair \/ Reclassify

Spec == Init /\ [][Next]_vars

-----------------------------------------------------------------------------
\* What leaves a socket that is not legacy, other than to a group, is ordinary
\* content through and through, judged under a context without cutover, or the
\* recovery of a placeholder, to the own phone and in the session it was made
\* for: "edit/customer-affecting or unknown cannot be downgraded by later
\* participants", "a changed callback result, another subtype, recipient,
\* session [...] loses internal proof" (ATTENDANCE-WAVE1B-RESIDUAL.md:75).
WireJudged ==
  \A c \in Calls : LET r == at[c]  f == r.out IN
    r.pc = "written" /\ f.tag = "message" /\ r.seen.mode # "legacy" /\ f.to # "group" =>
      /\ f.id # "foundation"
      /\ \/ r.seen.mode = "captured" /\ \A p \in f.payload : p.message.kind = "content"
         \/ /\ f.to = "own" /\ r.seen.session = r.session
            /\ \A p \in f.payload : p.message.kind = "resend" /\ p.message.wraps = 0

\* "Caller references never re-enter the pipeline after capture"
\* (ATTENDANCE-WAVE1B-RESIDUAL.md:34): a frame is written as it was handed over,
\* and the bytes of a relay are those of the message it was asked to send, unless
\* the callback itself returned another one.
HandedIsWritten ==
  \A c \in Calls : LET r == at[c] IN r.pc = "written" =>
    /\ r.out = r.fixed
    /\ ~ r.direct /\ ~ r.altered => \A p \in r.out.payload : p.message = r.root

\* The gate refuses for a reason: unless a step failed or the credentials
\* changed, the unaltered recovery of a placeholder passes, and so does whatever
\* a legacy socket is asked to send under an id that is not the foundation's.
DeniedForCause ==
  \A c \in Calls : LET r == at[c] IN
    r.pc = "denied" /\ faults = 0 /\ r.id = "fresh" /\ r.fixed.id = "fresh" =>
      /\ mode # "legacy"
      /\ ~ (r.control /\ r.encoded > 0 /\ ~ r.altered /\ Marked(r.root, r.to))

\* What leaves a socket was handed to it and judged for what it is, and what is
\* refused is refused for a cause (beginRelay to assertNode, one gate).
RelayInv == TypeOK /\ WireJudged /\ HandedIsWritten /\ DeniedForCause
=============================================================================
