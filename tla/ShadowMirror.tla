---------------------------- MODULE ShadowMirror ----------------------------
(***************************************************************************)
(* What a shadow worker promises to the connection handler that feeds it,  *)
(* whatever protocol it speaks: it settles the requests it accepted once   *)
(* each and in order, it attempts every one of them unless it was told to  *)
(* give up (a forced close) or lost its backend, it attempts none after    *)
(* the first it left out, and it closes only when nothing it owes an       *)
(* attempt is left.                                                        *)
(***************************************************************************)
EXTENDS Naturals, Sequences

CONSTANT Request        \* the requests a handler may hand over

VARIABLES
  accepted,             \* the requests accepted so far, in order
  settled,              \* how many of them, from the front, are settled
  skipped,              \* positions settled without an attempt
  lost,                 \* the worker has given up on its backend
  phase                 \* "open", "draining", "forced" or "closed"

vars == <<accepted, settled, skipped, lost, phase>>

Init ==
  /\ accepted = <<>>
  /\ settled = 0
  /\ skipped = {}
  /\ lost = FALSE
  /\ phase = "open"

Accept(r) ==
  /\ phase = "open"
  /\ accepted' = Append(accepted, r)
  /\ UNCHANGED <<settled, skipped, lost, phase>>

\* Settle the oldest unsettled request by trying it on the backend.
Attempt ==
  /\ phase # "closed"
  /\ skipped = {}
  /\ settled < Len(accepted)
  /\ settled' = settled + 1
  /\ UNCHANGED <<accepted, skipped, phase>>
  /\ lost' \in {lost, TRUE}

\* Settle it without trying: only after a forced close or a lost backend.
Skip ==
  /\ phase = "forced" \/ (lost /\ phase # "closed")
  /\ settled < Len(accepted)
  /\ settled' = settled + 1
  /\ skipped' = skipped \cup {settled + 1}
  /\ UNCHANGED <<accepted, lost, phase>>

Drain ==
  /\ phase = "open"
  /\ phase' = "draining"
  /\ UNCHANGED <<accepted, settled, skipped, lost>>

Force ==
  /\ phase = "draining"
  /\ phase' = "forced"
  /\ UNCHANGED <<accepted, settled, skipped, lost>>

Close ==
  /\ \/ phase = "draining" /\ settled = Len(accepted)
     \/ phase = "forced"
  /\ phase' = "closed"
  /\ UNCHANGED <<accepted, settled, skipped, lost>>

Next ==
  \/ \E r \in Request : Accept(r)
  \/ Attempt \/ Skip \/ Drain \/ Force \/ Close

Spec == Init /\ [][Next]_vars
=============================================================================
