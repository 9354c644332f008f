--------------------------- MODULE MCPipelineCache ---------------------------
(***************************************************************************)
(* Values for the constants of PipelineCache: the rule definitions and the *)
(* bundles the configurations check.                                       *)
(***************************************************************************)
EXTENDS PipelineCache, FiniteSets, TLC

CONSTANTS b1, b2, e1, e2, A, B, u1, u2

NoExports == [o \in Outcomes |-> "none"]

PassExports(kind) == [NoExports EXCEPT !["pass"] = kind]

\* A strict rule with a backend, decided by whether the answer is accepted.
Plain(name, url) ==
  [name |-> name, url |-> url, auth |-> FALSE, accepts |-> {"2xx"}, conds |-> {},
   exports |-> NoExports, strict |-> TRUE, proxied |-> TRUE, follow |-> FALSE,
   ttl |-> [o \in {"pass", "fail"} |-> 1]]

\* A rule without a backend, with every kind of condition and auth directives.
Local(name) ==
  [Plain(name, NoURL) EXCEPT !.auth = TRUE, !.conds = {"error", "fail", "pass"}]

Exporting(name, url, kind) == [Plain(name, url) EXCEPT !.exports = PassExports(kind)]

Loose(def) == [def EXCEPT !.strict = FALSE]

WithoutProxies(def) == [def EXCEPT !.proxied = FALSE]

\* The reload replaces the chain: b1 checks the caller before it asks the
\* backend, b2 only asks the backend.
ReloadChain ==
  b1 :> (e1 :> <<Local(A), Plain(B, u1)>>) @@
  b2 :> (e1 :> <<Plain(B, u1)>>)

\* A loose rule, which leaves proxy headers out of its key, exports a variable to a
\* strict one; e2 has the strict one only, and allows anonymous callers.
VariableChain ==
  b1 :> (e1 :> <<WithoutProxies(Loose(Exporting(A, u1, "field"))), Plain(B, u1)>> @@
         e2 :> <<Plain(B, u1)>>)

SecondAnonymous == b1 :> {e2}

\* A rule that follows the backend's Cache-Control and has TTLs of its own, and
\* one that does neither.
LifetimeChain ==
  b1 :> (e1 :> <<[Plain(A, u1) EXCEPT !.follow = TRUE,
                     !.ttl = [o \in {"pass", "fail"} |-> IF o = "pass" THEN 5 ELSE -1]]>>) @@
  b2 :> (e1 :> <<Plain(A, u1)>>)

\* time.ParseDuration accepts a sign, and nothing rejects it.
MixedTTLs == {-1, 1, 5}

NoHeaders == {<<>>}

Part(key, value) == [key |-> key, value |-> value]

\* No header; lifetimes below and above the server's ceiling, of each precedence,
\* twice, garbled, and forbidden; products that wrap to a negative and to a
\* positive duration; and a second line, which is lost.
HeaderLines ==
  {<<>>,
   <<<<Part("max-age", 1)>>>>,
   <<<<Part("max-age", 1), Part("s-maxage", 2), Part("private", 0)>>>>,
   <<<<Part("max-age", 1), Part("max-age", 3), Part("max-age", Garbled)>>>>,
   <<<<Part("max-age", 4)>>>>,
   <<<<Part("max-age", 9)>>>>,
   <<<<Part("max-age", 1), Part("no-store", Bare)>>>>,
   <<<<Part("s-maxage", 1)>>, <<Part("no-store", Bare)>>>>}

\* One loose rule that exports the backend's status.
LooseExportChain == b1 :> (e1 :> <<Loose(Exporting(A, u1, "text"))>>)

NoAnonymous == [b \in Bundles |-> {}]

RequestSymmetry == Permutations(Requests)

AskSymmetry ==
  Permutations(Callers) \union Permutations(Payloads) \union Permutations(Traces)

\* The bound of isolation.cfg: states are left out in which more than two verdicts
\* are cached, or two that came of different traces. A request of two rules reuses
\* two at most, and what it reuses may have another trace than its own.
FewEntries ==
  /\ Cardinality(cache) <= 2
  /\ \A d, e \in cache : d.inputs.trace = e.inputs.trace
=============================================================================
