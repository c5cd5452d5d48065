------------------------------ MODULE MCViewServer ------------------------------
(* ViewServer on one catalog with two contents and one registration of its UI, for
   two visitors and two requests at a time. *)
EXTENDS ViewServer, TLC

CONSTANTS v1, v2, h1, h2, u1, x, r1, r2

MCOffers == h1 :> {x} @@ h2 :> {x}
MCFingerprint == u1 :> "f1"
MCFits == {<<u1, u1>>}
Interchangeable ==
    {f @@ g @@ h : f \in Permutations({v1, v2}), g \in Permutations({r1, r2}),
                   h \in Permutations({h1, h2})}
=============================================================================
