-------------------------- MODULE MCRequestPipeline --------------------------
(***************************************************************************)
(* Values for the constants of RequestPipeline: three endpoints and the    *)
(* requests each is asked.                                                 *)
(***************************************************************************)
EXTENDS RequestPipeline

CONSTANTS client, proxy, stranger, s1, s2, halfBasic, h1, q1, p1, p2

MCPartial == {halfBasic}

Url(page, value) == [page |-> page, query |-> [n \in QueryNames |-> value]]

MCLinks == {Url(p1, Absent), Url(p2, Absent), Url(p2, s1)}

DefaultReplies == [o \in Outcomes \union {"challenge"} |-> 0]

\* A rule that asks its backend for one page.
AskBackend ==
  [auth |-> <<>>, url |-> Url(p1, Absent), accepts |-> {"2xx"}, paging |-> FALSE,
   maxPages |-> 1, proxyHeaders |-> TRUE, includeProxyHeaders |-> TRUE, conds |-> {}]

DecideAlone == [AskBackend EXCEPT !.url = NoURL, !.conds = {"fail"}]

Matcher(kind, name, values) == [kind |-> kind, name |-> name, values |-> values]

\* A bearer token together with a header; else a user; else a query parameter,
\* for which a token of the rule's own is sent.
Directives ==
  << [matchers |-> <<Matcher("bearer", Absent, {s1}), Matcher("header", h1, Secrets)>>,
      forwards |-> <<>>],
     [matchers |-> <<Matcher("basic", Absent, {s1, halfBasic})>>, forwards |-> <<>>],
     [matchers |-> <<Matcher("none", Absent, {}), Matcher("query", q1, Secrets)>>,
      forwards |-> <<Credential("query", q1, s2), Credential("bearer", Absent, s1)>>] >>

Gate ==
  [required |-> TRUE, schemes |-> Schemes, headers |-> <<h1>>, queries |-> <<q1>>,
   none |-> FALSE, trusted |-> {proxy}, development |-> FALSE, proxyHeaders |-> TRUE,
   rules |-> <<[AskBackend EXCEPT !.auth = Directives], DecideAlone>>,
   reply |-> DefaultReplies]

\* Lets untrusted proxies in, and has a rule whose key leaves proxies out.
Lenient == [Gate EXCEPT !.development = TRUE, !.required = FALSE,
                        !.rules = <<AskBackend, [AskBackend EXCEPT !.includeProxyHeaders = FALSE]>>]

\* Callers of any kind, who are asked to follow pages; a query parameter is what
\* the pages' URLs may have already.
Paged ==
  [Gate EXCEPT !.none = TRUE, !.required = FALSE,
     !.rules = <<[AskBackend EXCEPT !.auth =
                    << [matchers |-> <<Matcher("query", q1, Secrets)>>, forwards |-> <<>>] >>,
                    !.paging = TRUE, !.maxPages = 3],
                 DecideAlone>>,
     !.reply = [DefaultReplies EXCEPT !["fail"] = 404]]

Plain ==
  [peer |-> client, forwarded |-> Absent, forwardedFor |-> Absent, proto |-> FALSE,
   authorization |-> Absent, headers |-> [n \in HeaderNames |-> Absent],
   queries |-> [n \in QueryNames |-> Absent]]

Bearer(secret) == [scheme |-> "bearer", secret |-> secret]

MCChains == {<<client>>, <<client, proxy>>, <<client, stranger>>}

ViaProxies ==
  {[Plain EXCEPT !.peer = p, !.forwarded = f, !.forwardedFor = x, !.proto = TRUE,
                 !.headers = [n \in HeaderNames |-> s1]] :
     p \in {proxy, stranger, Malformed},
     f \in MCChains \union {Absent, Malformed}, x \in MCChains \union {Absent, Malformed}}

WithCredentials ==
  {[Plain EXCEPT !.authorization = a, !.headers = [n \in HeaderNames |-> h],
                 !.queries = [n \in QueryNames |-> q]] :
     a \in {Absent, Bearer(s1), Bearer(Blank), [scheme |-> "basic", secret |-> s1],
            [scheme |-> "basic", secret |-> halfBasic], [scheme |-> "other", secret |-> s1]},
     h \in {Absent, s1, s2},
     q \in {Absent, Blank, s1, s2}}

Asked(endpoint, requests) == {[ep |-> endpoint, in |-> r] : r \in requests}

MCCases ==
  Asked([Gate EXCEPT !.rules = <<AskBackend>>], ViaProxies)
    \union Asked(Lenient, ViaProxies)
    \union Asked(Gate, WithCredentials)
    \union Asked(Paged, {[Plain EXCEPT !.queries = [n \in QueryNames |-> q]] : q \in {Absent, s1}})
    \union Asked([Lenient EXCEPT !.rules = <<>>], {Plain})
=============================================================================
