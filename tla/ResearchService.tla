--------------------------- MODULE ResearchService ---------------------------
(***************************************************************************)
(* What the research service decides about one request and one response:    *)
(* the guards of the session's scope and the ledgers that turn a provider's *)
(* response into evidence.  A source is its URL; a query is whether it is   *)
(* about the session's subject and whether it carries what must not leave.  *)
(***************************************************************************)
EXTENDS Integers, Sequences, FiniteSets

CONSTANTS
  Host,      \* of every URL the provider may return
  Scope      \* [domains, urls, maxResults]: the session's research scope

Urls == DOMAIN Host
Domains == {Host[u] : u \in Urls}

ASSUME ScopeAssumption ==
  /\ Scope.domains \subseteq Domains
  /\ Scope.urls \subseteq {u \in Urls : Host[u] \in Scope.domains}
  /\ Scope.maxResults \in 1..3

SearchRequests == [kind : {"search"}, domains : SUBSET Domains \ {{}}, maxResults : 1..3,
                   safe : BOOLEAN, relevant : BOOLEAN]
ExtractRequests == [kind : {"extract"}, url : Urls]

\* The first guard a request fails, none when it passes all of them.  The
\* remaining volume in the service's scope is the session's initial one.
SearchRefusal(q) ==
  CASE q.maxResults > Scope.maxResults         -> "budget_exhausted"
    [] q.maxResults <= Scope.maxResults
       /\ ~(q.domains \subseteq Scope.domains) -> "domain_not_allowed"
    [] q.maxResults <= Scope.maxResults
       /\ q.domains \subseteq Scope.domains    ->
         IF ~q.safe THEN "unsafe_outbound_content"
         ELSE IF ~q.relevant THEN "query_not_relevant" ELSE "none"

ExtractRefusal(q) ==
  CASE q.url \notin Scope.urls                                      -> "url_not_allowed"
    [] q.url \in Scope.urls /\ Host[q.url] \notin Scope.domains     -> "domain_not_allowed"
    [] q.url \in Scope.urls /\ Host[q.url] \in Scope.domains        -> "none"

Refusal(q) == IF q.kind = "search" THEN SearchRefusal(q) ELSE ExtractRefusal(q)
PolicyRefusals ==
  {"domain_not_allowed", "query_not_relevant", "unsafe_outbound_content", "url_not_allowed"}

\* The results a reservation is made for.
Wanted(q) == IF q.kind = "search" THEN q.maxResults ELSE 1

\* A response is the sequence of the sources it names; the ledger takes all of
\* them or refuses the response.
Distinct(s) == \A i, j \in DOMAIN s : i # j => s[i] # s[j]
SearchRecorded(q, response) ==
  /\ Len(response) <= q.maxResults /\ Distinct(response)
  /\ \A i \in DOMAIN response : Host[response[i]] \in q.domains
ExtractRecorded(q, response) == response = <<q.url>>
Recorded(q, response) ==
  IF q.kind = "search" THEN SearchRecorded(q, response) ELSE ExtractRecorded(q, response)

\* A batch of exposures holds one to three records.
ExposureBatch(n) == n \in 1..3

Responses == UNION {[1..n -> Urls] : n \in 0..2}
=============================================================================
