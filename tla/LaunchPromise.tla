----------------------------- MODULE LaunchPromise -----------------------------
(***************************************************************************)
(* What a Workspace Launch with resource billing promises, without the     *)
(* attempts, leases, budgets, authorizations and passes that keep it: the  *)
(* stages take effect one after the other; an owner is called only for a   *)
(* stage that was reserved first; the launch moves past a stage only when  *)
(* its effect exists; it may be put aside and taken up again at any stage. *)
(***************************************************************************)
EXTENDS Naturals

CONSTANT N    \* number of stages, at least one

VARIABLES
  cursor,     \* the stage the launch is at, N + 1 when it has ended
  status,     \* pending, put aside for an operator, or succeeded
  reserved,   \* stages whose one attempt is written down
  requested,  \* stages whose owner has been called
  done        \* stages whose effect exists

promised == <<cursor, status, reserved, requested, done>>

Init ==
  /\ cursor = 1 /\ status = "pending"
  /\ reserved = {} /\ requested = {} /\ done = {}

Reserve ==
  /\ status = "pending"
  /\ reserved' = reserved \cup {cursor}
  /\ UNCHANGED <<cursor, status, requested, done>>

\* The owner is called, perhaps again; the effect may exist at once.
Call(i) ==
  /\ i \in reserved
  /\ requested' = requested \cup {i}
  /\ done' \in {done, done \cup {i}}
  /\ UNCHANGED <<cursor, status, reserved>>

TakeEffect(i) ==
  /\ i \in requested
  /\ done' = done \cup {i}
  /\ UNCHANGED <<cursor, status, reserved, requested>>

Advance ==
  /\ status # "succeeded" /\ cursor \in done
  /\ cursor' = cursor + 1
  /\ status' = IF cursor = N THEN "succeeded" ELSE "pending"
  /\ UNCHANGED <<reserved, requested, done>>

PutAside ==
  /\ status = "pending" /\ status' = "manual_review"
  /\ UNCHANGED <<cursor, reserved, requested, done>>

TakeUp ==
  /\ status = "manual_review" /\ status' = "pending"
  /\ UNCHANGED <<cursor, reserved, requested, done>>

Next ==
  \/ Reserve \/ Advance \/ PutAside \/ TakeUp
  \/ \E i \in 1..N : Call(i) \/ TakeEffect(i)

Spec == Init /\ [][Next]_promised

TypeOK ==
  /\ cursor \in 1..(N + 1)
  /\ status \in {"pending", "manual_review", "succeeded"}
  /\ reserved \subseteq 1..N /\ requested \subseteq 1..N /\ done \subseteq 1..N

\* The effects are exactly a launch cut off somewhere: everything before the
\* cursor exists, nothing after it was ever asked for, and a launch that
\* succeeded has all of its effects.
PrefixOfEffects ==
  /\ 1..(cursor - 1) \subseteq done
  /\ done \subseteq requested /\ requested \subseteq reserved
  /\ reserved \subseteq 1..cursor
  /\ status = "succeeded" => done = 1..N
=============================================================================
