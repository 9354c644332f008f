--------------------------- MODULE MCEndpointTable ---------------------------
(***************************************************************************)
(* Bundles that a folder under edit goes through: the whole one, one of    *)
(* which an endpoint does not build, one with a rule that does not compile,*)
(* and one with two endpoints that differ in case only.                    *)
(***************************************************************************)
EXTENDS EndpointTable, TLC

CONSTANTS whole, partial, uncompiled, twins, e1, e2, E2, fb, A, B, k1, k2, kf, r1

Endpoint(name, refs, builds) == [name |-> name, refs |-> refs, builds |-> builds]

MCEndpointsOf ==
  whole :> {Endpoint(e1, {A}, TRUE), Endpoint(e2, {A, B}, TRUE)} @@
  partial :> {Endpoint(e1, {A}, FALSE), Endpoint(e2, {}, TRUE)} @@
  uncompiled :> {Endpoint(e1, {A}, TRUE), Endpoint(e2, {A, B}, TRUE)} @@
  twins :> {Endpoint(e2, {B}, TRUE), Endpoint(E2, {B}, TRUE)}

Rule(name, compiles) == [name |-> name, compiles |-> compiles]

MCRulesOf ==
  whole :> {Rule(A, TRUE), Rule(B, TRUE)} @@
  partial :> {Rule(A, TRUE), Rule(B, TRUE)} @@
  uncompiled :> {Rule(A, TRUE), Rule(B, FALSE)} @@
  twins :> {Rule(B, TRUE)}

MCKey == e1 :> k1 @@ e2 :> k2 @@ E2 :> k2 @@ fb :> kf

=============================================================================
