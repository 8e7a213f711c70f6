--------------------------- MODULE ReleasePromise ----------------------------
(***************************************************************************)
(* What one prepared attendance message promises to the application, with  *)
(* no database, lock, clock, socket or process: the authority released for *)
(* it is consumed once and for good; its dispatch starts at most once,     *)
(* only under that authority and never after the application was told that *)
(* it expired; at most one message is written, only after the start was    *)
(* made durable; and what the send is said to have returned is said once,  *)
(* and is a success only if the message was written.                       *)
(***************************************************************************)
EXTENDS Naturals

CONSTANTS Materials, Physical, NoMaterial

VARIABLES
  consumed,   \* the material consumed, or NoMaterial
  started,    \* the dispatch is durably marked as started
  writes,     \* messages written to WhatsApp
  expired,    \* the application was told release_expired_before_dispatch
  evidence    \* "none", "succeeded" or "failed": what the send returned

promiseVars == <<consumed, started, writes, expired, evidence>>

PromiseInit ==
  /\ consumed = NoMaterial /\ started = FALSE /\ writes = 0
  /\ expired = FALSE /\ evidence = "none"

Consume(m) ==
  /\ consumed = NoMaterial
  /\ consumed' = m
  /\ UNCHANGED <<started, writes, expired, evidence>>

Start ==
  /\ consumed \in Physical
  /\ ~ started /\ ~ expired
  /\ started' = TRUE
  /\ UNCHANGED <<consumed, writes, expired, evidence>>

Write ==
  /\ started /\ writes = 0
  /\ writes' = 1
  /\ UNCHANGED <<consumed, started, expired, evidence>>

TellExpired ==
  /\ consumed # NoMaterial /\ ~ started
  /\ expired' = TRUE
  /\ UNCHANGED <<consumed, started, writes, evidence>>

Return(e) ==
  /\ started /\ evidence = "none"
  /\ e = "succeeded" => writes = 1
  /\ evidence' = e
  /\ UNCHANGED <<consumed, started, writes, expired>>

PromiseNext ==
  \/ \E m \in Materials : Consume(m)
  \/ Start \/ Write \/ TellExpired
  \/ \E e \in {"succeeded", "failed"} : Return(e)

PromiseSpec == PromiseInit /\ [][PromiseNext]_promiseVars
=============================================================================
