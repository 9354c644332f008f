------------------------------- MODULE RuleAuth -------------------------------
(***************************************************************************)
(* The auth directives of a rule (prepareRuleAuth and what it calls,       *)
(* internal/runtime/rule_execution_agent.go): which credentials of those   *)
(* admission collected it asks for, and which it sends to its backend.     *)
(*                                                                         *)
(* A rule's auth is a sequence of groups, each a record:                   *)
(*   matchers  a sequence of records: kind and name of the credential, and *)
(*             the values it may have                                      *)
(*   forwards  a sequence of credentials to send in place of those matched *)
(* A value of a basic credential is user and password together; those in   *)
(* Partial have one of the two empty.                                      *)
(***************************************************************************)
EXTENDS Admission

CONSTANT Partial

ASSUME PartialAreSecrets == Partial \subseteq Secrets

Kinds == Schemes \union {"header", "query", "none"}

Matchers ==
  [kind : Kinds, name : HeaderNames \union QueryNames \union {Absent},
   values : SUBSET Secrets]

\* compileAuthDirective requires a matcher.
Groups == [matchers : Seq(Matchers) \ {<<>>}, forwards : Seq(CredentialsOf)]

Matches(m, c) == c.kind = m.kind /\ c.name = m.name /\ c.value \in m.values

\* Mutant: one matcher of the group is enough.
AnyMatcherHolds(group, creds) ==
  \E i \in DOMAIN group.matchers :
    \/ group.matchers[i].kind = "none"
    \/ \E c \in creds : Matches(group.matchers[i], c)

\* checkAllMatchers
AllMatchersHold(group, creds) ==
  \A i \in DOMAIN group.matchers :
    \/ group.matchers[i].kind = "none"
    \/ \E c \in creds : Matches(group.matchers[i], c)

\* The groups the loop of prepareRuleAuth may stop at: the first that holds.
Selected(auth, creds) ==
  {g \in DOMAIN auth :
     /\ AllMatchersHold(auth[g], creds)
     /\ \A h \in DOMAIN auth : h < g => ~AllMatchersHold(auth[h], creds)}

\* A rule without directives asks for nothing.
AuthFails(auth, creds) == auth # <<>> /\ Selected(auth, creds) = {}

NoForward == Credential("none", Absent, Absent)

\* buildPassThroughForwards: the credential each matcher is about, in their order.
PassThrough(group, creds) ==
  [i \in DOMAIN group.matchers |->
     LET m == group.matchers[i]
         about == {c \in creds : c.kind = m.kind /\ c.name = m.name}
     IN  IF m.kind = "none" \/ about = {} THEN NoForward ELSE CHOOSE c \in about : TRUE]

TheGroup(auth, creds) == auth[CHOOSE g \in Selected(auth, creds) : TRUE]

ExplicitForwards(auth, creds) == TheGroup(auth, creds).forwards # <<>>

\* buildForwards: the sequence of credentials to send.
Forwards(auth, creds) ==
  IF auth = <<>> THEN <<>>
  ELSE IF ExplicitForwards(auth, creds) THEN TheGroup(auth, creds).forwards
  ELSE PassThrough(TheGroup(auth, creds), creds)

\* Both schemes write the Authorization header.
SameTarget(c, d) ==
  \/ c.kind \in Schemes /\ d.kind \in Schemes
  \/ c.kind = d.kind /\ c.name = d.name

\* applyAuthForwards: of those with one target the last is left; NoForward is
\* none of them.
Applied(forwards) ==
  {forwards[i] : i \in {j \in DOMAIN forwards :
     /\ forwards[j].kind # "none"
     /\ \A k \in DOMAIN forwards : k > j => ~SameTarget(forwards[j], forwards[k])}}

\* A basic credential is not sent without a user or a password.
Unsendable(forwards) ==
  \E i \in DOMAIN forwards : forwards[i].kind = "basic" /\ forwards[i].value \in Partial
=============================================================================
