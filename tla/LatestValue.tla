----------------------------- MODULE LatestValue -----------------------------
(***************************************************************************)
(* What a host variable promises to its users: one value that is replaced  *)
(* as a whole, and reads that return the whole value it had at one moment  *)
(* of the call.  A write ends installed, superseded by another value, or   *)
(* refused; a superseded or refused write leaves the value alone.          *)
(***************************************************************************)
CONSTANTS
  Writers, Readers, Words,
  Payloads,     \* what a write may carry
  Initial,      \* content before the first write
  None          \* a payload or content that does not matter

VARIABLES
  value,        \* the current content
  outcome,      \* "pending" during a write, then how it ended
  pending,      \* what a pending write carries
  phase,        \* a read is "idle", "begun", or has "seen" the value
  view,         \* the content the read has seen
  result        \* the content the last read returned, or None

vars == <<value, outcome, pending, phase, view, result>>

Image(v) == [i \in Words |-> v]

Init ==
  /\ value = Image(Initial)
  /\ outcome = [w \in Writers |-> "none"]
  /\ pending = [w \in Writers |-> None]
  /\ phase = [r \in Readers |-> "idle"]
  /\ view = [r \in Readers |-> None]
  /\ result = [r \in Readers |-> None]

-----------------------------------------------------------------------------
StartWrite(w) ==
  /\ outcome[w] # "pending"
  /\ outcome' = [outcome EXCEPT ![w] = "pending"]
  /\ \E v \in Payloads : pending' = [pending EXCEPT ![w] = v]
  /\ UNCHANGED <<value, phase, view, result>>

EndWrite(w, code) ==
  /\ outcome[w] = "pending"
  /\ outcome' = [outcome EXCEPT ![w] = code]
  /\ pending' = [pending EXCEPT ![w] = None]
  /\ UNCHANGED <<phase, view, result>>

\* The whole value is replaced in the step that ends the write.
Install(w) == EndWrite(w, "ok") /\ value' = Image(pending[w])

GiveUp(w) == (EndWrite(w, "superseded") \/ EndWrite(w, "refused")) /\ UNCHANGED value

-----------------------------------------------------------------------------
StartRead(r) ==
  /\ phase[r] = "idle"
  /\ phase' = [phase EXCEPT ![r] = "begun"]
  /\ result' = [result EXCEPT ![r] = None]
  /\ UNCHANGED <<value, outcome, pending, view>>

Look(r) ==
  /\ phase[r] = "begun"
  /\ phase' = [phase EXCEPT ![r] = "seen"]
  /\ view' = [view EXCEPT ![r] = value]
  /\ UNCHANGED <<value, outcome, pending, result>>

\* A read returns what it saw, whatever was installed in the meantime.
EndRead(r) ==
  /\ phase[r] = "seen"
  /\ phase' = [phase EXCEPT ![r] = "idle"]
  /\ view' = [view EXCEPT ![r] = None]
  /\ result' = [result EXCEPT ![r] = view[r]]
  /\ UNCHANGED <<value, outcome, pending>>

RefuseRead(r) ==
  /\ phase[r] = "begun"
  /\ phase' = [phase EXCEPT ![r] = "idle"]
  /\ UNCHANGED <<value, outcome, pending, view, result>>

Next ==
  \/ \E w \in Writers : StartWrite(w) \/ Install(w) \/ GiveUp(w)
  \/ \E r \in Readers : StartRead(r) \/ Look(r) \/ EndRead(r) \/ RefuseRead(r)

Spec == Init /\ [][Next]_vars
=============================================================================
