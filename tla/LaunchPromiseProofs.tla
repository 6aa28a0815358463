-------------------------- MODULE LaunchPromiseProofs --------------------------
(***************************************************************************)
(* LaunchPromise keeps its promise for a launch of any number of stages.   *)
(***************************************************************************)
EXTENDS LaunchPromise, TLAPS

EndedAtEnd == status = "succeeded" <=> cursor = N + 1

Inv == TypeOK /\ PrefixOfEffects /\ EndedAtEnd

\* Nothing is promised yet.
LEMMA PromiseInit == ASSUME N \in Nat \ {0} PROVE Init => Inv
  BY DEF Init, Inv, TypeOK, PrefixOfEffects, EndedAtEnd

\* Every step keeps the promise.
LEMMA PromiseStep == ASSUME N \in Nat \ {0} PROVE Inv /\ [Next]_promised => Inv'
<1> SUFFICES ASSUME Inv, [Next]_promised PROVE Inv' OBVIOUS
<1> USE DEF Inv, TypeOK, PrefixOfEffects, EndedAtEnd
<1>1. CASE Reserve BY <1>1 DEF Reserve
<1>2. CASE Advance
  <2>1. cursor \in 1..N BY <1>2 DEF Advance
  <2>2. 1..cursor \subseteq done BY <1>2, <2>1 DEF Advance
  <2>3. TypeOK' /\ EndedAtEnd' BY <1>2, <2>1 DEF Advance
  <2>4. PrefixOfEffects'
    <3>1. 1..(cursor' - 1) \subseteq done' BY <1>2, <2>1, <2>2 DEF Advance
    <3>2. reserved' \subseteq 1..cursor' BY <1>2, <2>1 DEF Advance
    <3>3. status' = "succeeded" => done' = 1..N BY <1>2, <2>1, <2>2 DEF Advance
    <3> QED BY <1>2, <3>1, <3>2, <3>3 DEF Advance
  <2> QED BY <2>3, <2>4
<1>3. CASE PutAside BY <1>3 DEF PutAside
<1>4. CASE TakeUp BY <1>4 DEF TakeUp
<1>5. ASSUME NEW i \in 1..N, Call(i) PROVE Inv' BY <1>5 DEF Call
<1>6. ASSUME NEW i \in 1..N, TakeEffect(i) PROVE Inv' BY <1>6 DEF TakeEffect
<1>7. CASE UNCHANGED promised BY <1>7 DEF promised
<1> QED BY <1>1, <1>2, <1>3, <1>4, <1>5, <1>6, <1>7 DEF Next

\* For any number of stages the effects of a launch are a prefix of its
\* stages: everything before the cursor exists, nothing after it was asked
\* for, and a launch that succeeded has them all (the order Reconcile keeps
\* by its cursor, CurrentStage).
THEOREM PrefixOfEffectsTheorem ==
  ASSUME N \in Nat \ {0} PROVE Spec => []PrefixOfEffects
<1>1. Inv => PrefixOfEffects BY DEF Inv
<1>2. Init => Inv BY PromiseInit
<1>3. Inv /\ [Next]_promised => Inv' BY PromiseStep
<1> QED BY <1>1, <1>2, <1>3, PTL DEF Spec
=============================================================================
