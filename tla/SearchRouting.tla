----------------------------- MODULE SearchRouting -----------------------------
(***************************************************************************)
(* The search box (resolveSearchQuery, fetchBlock, getTransactionData in   *)
(* src/services/bitcoinService.js, /search in src/server.js).  A query is  *)
(* known by its form; a hash may name a block or a transaction, which may  *)
(* come and go while the search asks the node for one and then for the     *)
(* other.  Both answers are cached for a while.  A query of digits that is *)
(* long enough to look like an address is left out.                        *)
(*                                                                         *)
(* Definitions ending in _Fault are plausible mistakes in the definition   *)
(* that follows them.                                                      *)
(***************************************************************************)
EXTENDS Naturals

CONSTANTS
  Hash,         \* hashes that are searched for
  MaxSearches   \* bound: searches

ASSUME SearchesAssumption == MaxSearches \in Nat

Forms == {"empty", "address", "xpub", "digits", "hash", "other"}
Nothing == "nothing"
SearchAnswers == {"none", "block", "tx", "address", "xpub", "badRequest", "notFound", "unavailable"}

VARIABLES
  names,      \* per hash, what it names: "nothing", "block" or "tx"
  cached,     \* per hash, what the caches hold
  searches,   \* searches made
  searchPhase, \* "idle", "form", "block", "tx" or "answered"
  query,      \* the form of the query
  hash,       \* its hash, if it is one
  failed,     \* history: a call of this search failed for another reason than absence
  named,      \* history: what the hash named during the search
  searchAnswer \* where the search leads

queryVars == <<searchPhase, query, hash, failed, named, searchAnswer>>
searchVars == <<names, cached, searches, queryVars>>

SearchInit ==
  /\ names \in [Hash -> {Nothing, "block", "tx"}]
  /\ cached = [h \in Hash |-> Nothing] /\ searches = 0
  /\ searchPhase = "idle" /\ query = "empty" /\ hash \in Hash
  /\ failed = FALSE /\ named = {} /\ searchAnswer = "none"

Hears(h) == named' = IF h = hash /\ searchPhase # "idle" THEN named \cup {names'[h]} ELSE named

\* A transaction is broadcast or a block found; a transaction is dropped.
Appears(h) ==
  /\ names[h] = Nothing
  /\ \E k \in {"block", "tx"} : names' = [names EXCEPT ![h] = k]
  /\ Hears(h) /\ UNCHANGED <<cached, searches, searchPhase, query, hash, failed, searchAnswer>>

Dropped(h) ==
  /\ names[h] = "tx" /\ names' = [names EXCEPT ![h] = Nothing]
  /\ Hears(h) /\ UNCHANGED <<cached, searches, searchPhase, query, hash, failed, searchAnswer>>

\* TTL, or an event that drops the entry.
Expires(h) ==
  /\ cached[h] # Nothing /\ cached' = [cached EXCEPT ![h] = Nothing]
  /\ UNCHANGED <<names, searches, queryVars>>

--------------------------------------------------------------------------------
(* resolveSearchQuery *)

BeginSearch(form, h) ==
  /\ searchPhase = "idle" /\ searches < MaxSearches /\ searches' = searches + 1
  /\ searchPhase' = "form" /\ query' = form /\ hash' = h
  /\ failed' = FALSE /\ named' = {names[h]} /\ searchAnswer' = "none"
  /\ UNCHANGED <<names, cached>>

\* Forms are tried in this order: address, xpub, digits, hash.
ByForm ==
  CASE query = "empty"   -> "badRequest"
    [] query = "address" -> "address"
    [] query = "xpub"    -> "xpub"
    [] query = "digits"  -> "block"
    [] OTHER             -> "notFound"

Classify ==
  /\ searchPhase = "form"
  /\ IF query = "hash" THEN searchPhase' = "block" /\ UNCHANGED searchAnswer
                       ELSE searchPhase' = "answered" /\ searchAnswer' = ByForm
  /\ UNCHANGED <<names, cached, searches, query, hash, failed, named>>

Holds(k) == cached[hash] = k \/ names[hash] = k

\* A cache is asked first; what the node says is cached.
Found(k) ==
  /\ Holds(k) /\ cached' = [cached EXCEPT ![hash] = k]
  /\ searchAnswer' = k /\ searchPhase' = "answered" /\ UNCHANGED failed

\* The error of a lookup, by its kind: what comes of it.
AfterBlockError_SwallowFault(kind) == "tx"
AfterBlockError(kind) == IF kind = "notFound" THEN "tx" ELSE "answered"

LookUpBlock ==
  /\ searchPhase = "block"
  /\ \/ Found("block")
     \/ /\ ~Holds("block") /\ searchPhase' = AfterBlockError("notFound")
        /\ UNCHANGED <<cached, failed, searchAnswer>>
     \/ /\ cached[hash] # "block"
        /\ searchPhase' = AfterBlockError("unavailable") /\ failed' = TRUE
        /\ searchAnswer' = IF searchPhase' = "answered" THEN "unavailable" ELSE searchAnswer
        /\ UNCHANGED cached
  /\ UNCHANGED <<names, searches, query, hash, named>>

AnswerOfTxError(kind) == kind

LookUpTx ==
  /\ searchPhase = "tx"
  /\ \/ Found("tx")
     \/ \E kind \in {"notFound", "unavailable"} :
          /\ IF kind = "notFound" THEN ~Holds("tx") ELSE cached[hash] # "tx"
          /\ searchPhase' = "answered" /\ searchAnswer' = AnswerOfTxError(kind)
          /\ failed' = (failed \/ kind = "unavailable")
          /\ UNCHANGED cached
  /\ UNCHANGED <<names, searches, query, hash, named>>

EndSearch ==
  /\ searchPhase = "answered" /\ searchPhase' = "idle"
  /\ searchAnswer' = "none" /\ failed' = FALSE /\ named' = {}
  /\ UNCHANGED <<names, cached, searches, query, hash>>

Resolve == Classify \/ LookUpBlock \/ LookUpTx

SearchNext ==
  \/ \E h \in Hash : Appears(h) \/ Dropped(h) \/ Expires(h)
  \/ \E f \in Forms, h \in Hash : BeginSearch(f, h)
  \/ Resolve \/ EndSearch

SearchSpec == SearchInit /\ [][SearchNext]_searchVars

--------------------------------------------------------------------------------
(* Properties. *)

SearchTypeOK ==
  /\ names \in [Hash -> {Nothing, "block", "tx"}] /\ cached \in [Hash -> {Nothing, "block", "tx"}]
  /\ searchPhase \in {"idle", "form", "block", "tx", "answered"}
  /\ query \in Forms /\ hash \in Hash /\ failed \in BOOLEAN
  /\ searchAnswer \in SearchAnswers /\ (searchPhase = "answered" <=> searchAnswer # "none")

\* A hash that named something all through the search is not answered "not found", whatever
\* the node's calls and the caches did meanwhile (bitcoinService.js:236-254).
AbsentOnlyIfAbsent ==
  searchAnswer = "notFound" /\ query = "hash" => Nothing \in named

\* A call that failed without saying that the thing is absent makes the search fail, also
\* when the other lookup had already said "absent" (bitcoinService.js:242-248).
FailureIsReported == searchPhase = "answered" /\ failed => searchAnswer = "unavailable"

\* Where a search leads.
SearchInvariant ==
  /\ SearchTypeOK
  /\ AbsentOnlyIfAbsent
  /\ FailureIsReported
================================================================================
