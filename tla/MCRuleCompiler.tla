--------------------------- MODULE MCRuleCompiler ---------------------------
(***************************************************************************)
(* The server's configuration s1 and two rule documents that may each      *)
(* define a rule, two of them a second rule and an endpoint over both; one *)
(* may define an endpoint whose name differs from the other's in case only.*)
(***************************************************************************)
EXTENDS RuleCompiler, TLC

CONSTANTS A, B, E, e, s1, s2, s3

Matcher(kind, value, password) ==
  [kind |-> kind, named |-> kind = "header", value |-> value,
   username |-> "absent", password |-> password]

Directive(match, forwardAs) == [match |-> match, forwardAs |-> forwardAs]

Token == Matcher("bearer", "values", "absent")

Header(value) == Matcher("header", value, "absent")

Basic(value, password) == Matcher("basic", value, password)

Target(kind) == [kind |-> kind, name |-> "x"]

\* Directives as they should be, and those that some stage stumbles over.
Auths == {
  <<Directive({Token, Header("values")}, <<Target("header")>>)>>,
  <<Directive({Token, Header("malformed")}, <<>>)>>,
  <<Directive({Basic("absent", "malformed")}, <<>>)>>,
  <<Directive({Token, Basic("values", "malformed")}, <<>>)>>,
  <<Directive({Basic("values", "values")}, <<>>)>>,
  <<Directive({Header("regex")}, <<>>), Directive({Token}, <<>>)>>,
  <<Directive({Token}, <<Target("bearer"), Target("basic")>>)>>}

RuleOf(name, source, auth, valid, checks, renders) ==
  [kind |-> "rule", name |-> name, source |-> source, refs |-> {}, auth |-> auth,
   valid |-> valid, checks |-> checks, renders |-> renders]

Plain(name, source) == RuleOf(name, source, <<>>, TRUE, TRUE, TRUE)

Uncompiled(name, source) == RuleOf(name, source, <<>>, FALSE, TRUE, TRUE)

RulesOf(name, source) ==
  {RuleOf(name, source, auth, TRUE, TRUE, TRUE) : auth \in Auths} \union
  {Uncompiled(name, source), RuleOf(name, source, <<>>, TRUE, FALSE, TRUE),
   RuleOf(name, source, <<>>, TRUE, TRUE, FALSE)}

EndpointOf(name, source, refs, checks, builds) ==
  [kind |-> "endpoint", name |-> name, source |-> source, refs |-> refs,
   valid |-> TRUE, checks |-> checks, builds |-> builds]

\* What one source may define under one name: nothing, or one definition.
AtMostOne(ds) == {{}} \union {{d} : d \in ds}

Slots == <<
  RulesOf(A, s1), RulesOf(A, s2), {Plain(A, s3), Uncompiled(A, s3)},
  {Plain(B, s2)}, {Plain(B, s3), Uncompiled(B, s3)},
  {EndpointOf(E, s1, {A, B}, TRUE, TRUE), EndpointOf(E, s1, {A}, TRUE, TRUE),
   EndpointOf(E, s1, {}, FALSE, TRUE), EndpointOf(E, s1, {}, TRUE, FALSE)},
  {EndpointOf(E, s2, {A}, FALSE, TRUE), EndpointOf(e, s2, {A}, FALSE, TRUE)}>>

MCDefinitions == UNION {Slots[i] : i \in DOMAIN Slots}

MCDocuments ==
  {a1 \union a2 \union a3 \union b2 \union b3 \union x1 \union x2 :
     a1 \in AtMostOne(Slots[1]), a2 \in AtMostOne(Slots[2]), a3 \in AtMostOne(Slots[3]),
     b2 \in AtMostOne(Slots[4]), b3 \in AtMostOne(Slots[5]),
     x1 \in AtMostOne(Slots[6]), x2 \in AtMostOne(Slots[7])}

MCKey == E :> e @@ e :> e

MCPosition == s1 :> 1 @@ s2 :> 2 @@ s3 :> 3
=============================================================================
