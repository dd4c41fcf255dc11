---------------------------- MODULE MCMediation ----------------------------
(* Small instances of Mediation for TLC.                                   *)
EXTENDS Mediation, TLC

CONSTANTS p1, p2, k1, k2, k1k2, low, cls1, c1, c2, i1, o1, operator, alice, a1, a2

Intent(principal, kind, code) ==
  [intent_id |-> <<i1>>, principal_id |-> <<principal>>, kind |-> <<kind>>,
   consequence |-> low, artifact_code |-> code]

\* One request with code, and the same without code by another principal.
MCIntents == {Intent(p1, k1, c1), Intent(p2, k1, None)}

MCReplayIntents == {Intent(p1, k1, c1)}

MCWords == {p1, p2, k1, k2, k1k2, cls1, i1, o1, operator, alice, a1, a2}
MCPrincipals == {<<p1>>, <<p2>>}
MCKinds == {<<k1>>, <<k2>>}
MCClasses == {<<cls1>>}
MCIntentIds == {<<i1>>}
MCAuthorityIds == {<<a1>>, <<a2>>}

\* "o1:operator:alice" may be the order o1 of operator:alice or the order o1:operator
\* of alice.
MCOrderIds == {<<o1>>, <<o1, operator>>}
MCIssuers == {<<operator, alice>>, <<alice>>}

MCJoined ==
  ({} :> <<Empty>>) @@ ({<<k1>>} :> <<k1>>) @@ ({<<k2>>} :> <<k2>>) @@ (MCKinds :> <<k1k2>>)

MCEvaluate ==
  [q \in Kinds \X Consequences |-> [permitted |-> TRUE, execution_class |-> <<cls1>>]]

Symmetry == Permutations({a1, a2})
=============================================================================
