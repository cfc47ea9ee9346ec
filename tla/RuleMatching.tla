---------------------------- MODULE RuleMatching ----------------------------
(***************************************************************************)
(* How a Mockttp server chooses the rule that handles a request:           *)
(* MockttpServer.findMatchingRule and its callers, the rule sets it reads, *)
(* and the completion state of RequestRule (WebSocketRule is the same).    *)
(*                                                                         *)
(* JavaScript runs one turn at a time, so an action is everything between  *)
(* two awaits.  A request gives way at every `await match`, at the await   *)
(* of the last resort, and once more between the return of                 *)
(* findMatchingRule and rule.handle, which is where the count moves.       *)
(* setRequestRules, addRequestRules and reset may run in any of the gaps.  *)
(***************************************************************************)
EXTENDS Integers, Sequences, FiniteSets

CONSTANTS
    Request,      \* requests that can be in progress together (a slot is reused)
    Rule,         \* rule objects, each added to the server at most once
    NoRule,       \* "findMatchingRule returned undefined"
    Priority,     \* [Rule -> Nat], in units of 1/PriorityUnit
    PriorityUnit, \* priorities are any positive number, not only integers
    Kind,         \* [Rule -> {"default", "always", "times"}]
    Times,        \* [Rule -> Nat]: once, twice, thrice or times(n)
    MaxGen,       \* bound: setRequestRules and reset calls
    MaxBatch,     \* bound: rules passed to one set or add call
    MaxArrivals   \* bound: requests received

ASSUME ConstantsAssumption ==
    /\ NoRule \notin Rule
    /\ Priority \in [Rule -> Nat]
    /\ PriorityUnit \in Nat \ {0}
    /\ Kind \in [Rule -> {"default", "always", "times"}]
    /\ Times \in [Rule -> Nat]
    /\ MaxGen \in Nat /\ MaxBatch \in Nat /\ MaxArrivals \in Nat

ASSUME RequestFinite == IsFiniteSet(Request)

VARIABLES
    sets,      \* sets[g]: the rules of the g-th rule-set object, in the order added
    gen,       \* the rule-set object that this.requestRuleSets refers to
    disposed,  \* rules whose dispose() was called
    rejected,  \* rule-set objects disposed by a setRequestRules call that then threw
    count,     \* rule.requestCount
    phase,     \* where each request is
    search,    \* the local state of each request's findMatchingRule call
    arrivals   \* requests received so far

ruleVars == <<sets, gen, disposed, rejected>>
vars == <<sets, gen, disposed, rejected, count, phase, search, arrivals>>

Generation == 0..MaxGen
Finished == {"idle", "handled", "unmatched", "failed"}
Phase == Finished \cup {"matching", "filtering", "returned"}
Batch == UNION {[1..n -> Rule] : n \in 0..MaxBatch}
Position == Nat \ {0}

Search ==
    [from    : Generation,           \* the rule-set object captured on arrival
     horizon : Nat,                  \* how many rules it held at that moment
     left    : SUBSET Nat,           \* priorities still to visit after this one
     level   : Nat,                  \* the priority being visited
     trying  : SUBSET Position,      \* asked here, match not read yet
     matched : SUBSET Position,      \* rules of any level that matched
     refused : SUBSET Position,      \* rules of any level that did not
     chosen  : Rule \cup {NoRule}]   \* what findMatchingRule returned

NoSearch ==
    [from |-> 0, horizon |-> 0, left |-> {}, level |-> 0, trying |-> {},
     matched |-> {}, refused |-> {}, chosen |-> NoRule]

-----------------------------------------------------------------------------
(* Completion: true, false or null *)

\* A completion checker: once, twice, thrice or times(n); always() never is.
IsComplete(r) == Kind[r] = "times" /\ count[r] >= Times[r]

\* isComplete() is null: no checker, and the rule has been used.
MaybeComplete(r) == Kind[r] = "default" /\ count[r] > 0

Incomplete(r) == ~IsComplete(r) /\ ~MaybeComplete(r)

-----------------------------------------------------------------------------
(* Rule sets *)

RulesOf(g) == {sets[g][i] : i \in DOMAIN sets[g]}

Fresh(s) ==
    /\ \A i, j \in DOMAIN s : i # j => s[i] # s[j]
    /\ \A g \in Generation : \A i \in DOMAIN s : s[i] \notin RulesOf(g)

Positions(g, p) == {i \in DOMAIN sets[g] : Priority[sets[g][i]] = p}

PrioritiesOf(g) == {Priority[r] : r \in RulesOf(g)}

IsWhole(p) == p % PriorityUnit = 0

\* The first rule of priority o was added before any of priority p.
KeyAddedAfter(g, p, o) ==
    \E i \in Positions(g, o) : \A j \in Positions(g, p) : i < j

\* Mutant: Object.values without reverse(), so lowest priority first.
VisitedBeforeAscending(g, p, o) == p < o

(***************************************************************************)
(* Object.values(ruleSets).reverse(): integer keys come out in descending  *)
(* order, but a fractional priority is an ordinary string key, which       *)
(* JavaScript lists after every integer key in the order of insertion, so  *)
(* reversed it comes first.                                                *)
(***************************************************************************)
VisitedBefore(g, p, o) ==
    CASE IsWhole(p) /\ IsWhole(o)   -> p > o
      [] ~IsWhole(p) /\ IsWhole(o)  -> TRUE
      [] IsWhole(p) /\ ~IsWhole(o)  -> FALSE
      [] ~IsWhole(p) /\ ~IsWhole(o) -> KeyAddedAfter(g, p, o)

IsFirstLevel(g, p, S) == \A o \in S \ {p} : VisitedBefore(g, p, o)

-----------------------------------------------------------------------------
TypeOK ==
    /\ sets \in [Generation -> Seq(Rule)]
    /\ gen \in Generation
    /\ disposed \in SUBSET Rule
    /\ rejected \in SUBSET Generation
    /\ count \in [Rule -> Nat]
    /\ phase \in [Request -> Phase]
    /\ search \in [Request -> Search]
    /\ arrivals \in 0..MaxArrivals

Init ==
    /\ sets = [g \in Generation |-> <<>>]
    /\ gen = 0
    /\ disposed = {}
    /\ rejected = {}
    /\ count = [r \in Rule |-> 0]
    /\ phase = [q \in Request |-> "idle"]
    /\ search = [q \in Request |-> NoSearch]
    /\ arrivals = 0

-----------------------------------------------------------------------------
(* Configuration calls *)

\* Mutant: a replacement that adds to the current object, which requests in
\* progress and requests to come both read.
SetRulesInPlace(s) ==
    /\ Fresh(s)
    /\ disposed' = disposed \cup RulesOf(gen)
    /\ sets' = [sets EXCEPT ![gen] = @ \o s]
    /\ UNCHANGED <<gen, rejected, count, phase, search, arrivals>>

\* setRequestRules: dispose every current rule, then install a new object.
SetRules(s) ==
    /\ gen < MaxGen
    /\ Fresh(s)
    /\ disposed' = disposed \cup RulesOf(gen)
    /\ gen' = gen + 1
    /\ sets' = [sets EXCEPT ![gen + 1] = s]
    /\ UNCHANGED <<rejected, count, phase, search, arrivals>>

\* The constructor of a new rule throws (no matchers, no steps, a final step
\* before the last): the old rules are disposed already but stay installed.
SetRulesRejected ==
    /\ disposed' = disposed \cup RulesOf(gen)
    /\ rejected' = rejected \cup {gen}
    /\ UNCHANGED <<sets, gen, count, phase, search, arrivals>>

\* addRequestRules pushes onto the arrays of the live object, which requests in
\* progress read too.  If a constructor throws the rules before it were added,
\* which is a call with fewer rules.
AddRules(s) ==
    /\ s # <<>>
    /\ Fresh(s)
    /\ sets' = [sets EXCEPT ![gen] = @ \o s]
    /\ UNCHANGED <<gen, disposed, rejected, count, phase, search, arrivals>>

\* reset() does to the rules what setting none does.
Reset == SetRules(<<>>)

-----------------------------------------------------------------------------
(* Matching *)

\* Rules that are certainly complete are not even asked.
Asked(g, p) == {i \in Positions(g, p) : ~IsComplete(sets[g][i])}

AtLevel(s, p, S) ==
    [s EXCEPT !.level = p, !.left = S \ {p}, !.trying = Asked(s.from, p)]

\* The search s starts on the first of the levels S, or gives up if there is none.
EnterLevel(q, s, S) ==
    \/ /\ S = {}
       /\ phase' = [phase EXCEPT ![q] = "returned"]
       /\ search' = [search EXCEPT ![q] = s]
    \/ \E p \in S :
          /\ IsFirstLevel(s.from, p, S)
          /\ phase' = [phase EXCEPT ![q] =
                IF Asked(s.from, p) = {} THEN "filtering" ELSE "matching"]
          /\ search' = [search EXCEPT ![q] = AtLevel(s, p, S)]

NewSearch ==
    [from |-> gen, horizon |-> Len(sets[gen]), left |-> {}, level |-> 0,
     trying |-> {}, matched |-> {}, refused |-> {}, chosen |-> NoRule]

\* handleRequest runs up to the first await of findMatchingRule.
Arrive(q) ==
    /\ phase[q] \in Finished
    /\ arrivals < MaxArrivals
    /\ arrivals' = arrivals + 1
    /\ EnterLevel(q, NewSearch, PrioritiesOf(gen))
    /\ UNCHANGED <<ruleVars, count>>

RuleAt(q, i) == sets[search[q].from][i]

\* i is the position whose match the loop awaits.
IsAwaited(q, i) ==
    /\ phase[q] = "matching"
    /\ \A j \in search[q].trying : i <= j

AfterMatch(s, i) ==
    [s EXCEPT !.trying = s.trying \ {i}, !.matched = s.matched \cup {i}]

AfterMismatch(s, i) ==
    [s EXCEPT !.trying = s.trying \ {i}, !.refused = s.refused \cup {i}]

\* `await match && rule.isComplete() === false`: the first is the rule to use.
TakeFirst(q, i) ==
    /\ IsAwaited(q, i)
    /\ Incomplete(RuleAt(q, i))
    /\ phase' = [phase EXCEPT ![q] = "returned"]
    /\ search' = [search EXCEPT ![q] =
                    [AfterMatch(search[q], i) EXCEPT !.chosen = RuleAt(q, i)]]
    /\ UNCHANGED <<ruleVars, count, arrivals>>

\* On to the next rule of the level, or to the last resort after the last.
NextTry(q, i) == IF search[q].trying = {i} THEN "filtering" ELSE "matching"

\* Mutant: a rule is passed over because another request is using it.
PassOverBusy(q, i) ==
    /\ IsAwaited(q, i)
    /\ \/ ~Incomplete(RuleAt(q, i))
       \/ \E o \in Request \ {q} : search[o].chosen = RuleAt(q, i)
    /\ phase' = [phase EXCEPT ![q] = NextTry(q, i)]
    /\ search' = [search EXCEPT ![q] = AfterMatch(search[q], i)]
    /\ UNCHANGED <<ruleVars, count, arrivals>>

\* The rule matches but by now it is complete, or maybe complete.
PassOver(q, i) ==
    /\ IsAwaited(q, i)
    /\ ~Incomplete(RuleAt(q, i))
    /\ phase' = [phase EXCEPT ![q] = NextTry(q, i)]
    /\ search' = [search EXCEPT ![q] = AfterMatch(search[q], i)]
    /\ UNCHANGED <<ruleVars, count, arrivals>>

\* The rule does not match.
Mismatch(q, i) ==
    /\ IsAwaited(q, i)
    /\ phase' = [phase EXCEPT ![q] = NextTry(q, i)]
    /\ search' = [search EXCEPT ![q] = AfterMismatch(search[q], i)]
    /\ UNCHANGED <<ruleVars, count, arrivals>>

\* A request that ends takes the local state of its search with it.
Settle(q, outcome) ==
    /\ phase' = [phase EXCEPT ![q] = outcome]
    /\ search' = [search EXCEPT ![q] = NoSearch]

\* Mutant: a failed match takes back a count that it never made.
MatcherFailsUncounted(q, i) ==
    /\ IsAwaited(q, i)
    /\ count' = [count EXCEPT ![RuleAt(q, i)] = @ - 1]
    /\ Settle(q, "failed")
    /\ UNCHANGED <<ruleVars, arrivals>>

\* A matcher throws or rejects: findMatchingRule rejects and handleRequest
\* answers with an error.
MatcherFails(q, i) ==
    /\ IsAwaited(q, i)
    /\ Settle(q, "failed")
    /\ UNCHANGED <<ruleVars, count, arrivals>>

MatchedHere(q) ==
    search[q].matched \cap Positions(search[q].from, search[q].level)

\* i is the position of the last rule of the level that matched.
IsLastMatched(q, i) == \A j \in MatchedHere(q) : i >= j

\* Mutant: the last matching rule repeats even when it is exhausted.
TakeLastExhausted(q, i) ==
    /\ phase[q] = "filtering"
    /\ IsLastMatched(q, i)
    /\ phase' = [phase EXCEPT ![q] = "returned"]
    /\ search' = [search EXCEPT ![q].chosen = RuleAt(q, i)]
    /\ UNCHANGED <<ruleVars, count, arrivals>>

\* No rule of the level was taken: the last that matched is used if it is not
\* complete (isComplete() is not truthy).
TakeLast(q, i) ==
    /\ phase[q] = "filtering"
    /\ IsLastMatched(q, i)
    /\ ~IsComplete(RuleAt(q, i))
    /\ phase' = [phase EXCEPT ![q] = "returned"]
    /\ search' = [search EXCEPT ![q].chosen = RuleAt(q, i)]
    /\ UNCHANGED <<ruleVars, count, arrivals>>

\* Mutant: the loop goes round again on the level it has just finished.
FallThroughStuck(q) ==
    /\ phase[q] = "filtering"
    /\ \A i \in MatchedHere(q) : IsLastMatched(q, i) => IsComplete(RuleAt(q, i))
    /\ EnterLevel(q, search[q], search[q].left \cup {search[q].level})
    /\ UNCHANGED <<ruleVars, count, arrivals>>

\* Otherwise the search goes on with the lower priorities.
FallThrough(q) ==
    /\ phase[q] = "filtering"
    /\ \A i \in MatchedHere(q) : IsLastMatched(q, i) => IsComplete(RuleAt(q, i))
    /\ EnterLevel(q, search[q], search[q].left)
    /\ UNCHANGED <<ruleVars, count, arrivals>>

\* Mutant: the count moves twice, as it would if the recorded request and the
\* handled one were both counted.
HandleCountedTwice(q) ==
    /\ phase[q] = "returned"
    /\ search[q].chosen # NoRule
    /\ count' = [count EXCEPT ![search[q].chosen] = @ + 2]
    /\ Settle(q, "handled")
    /\ UNCHANGED <<ruleVars, arrivals>>

\* rule.handle starts the steps and counts the request in one turn.
Handle(q) ==
    /\ phase[q] = "returned"
    /\ search[q].chosen # NoRule
    /\ count' = [count EXCEPT ![search[q].chosen] = @ + 1]
    /\ Settle(q, "handled")
    /\ UNCHANGED <<ruleVars, arrivals>>

\* sendUnmatchedRequestError: 503, with an explanation of the rules there are.
SendUnmatchedRequestError(q) ==
    /\ phase[q] = "returned"
    /\ search[q].chosen = NoRule
    /\ Settle(q, "unmatched")
    /\ UNCHANGED <<ruleVars, count, arrivals>>

Resume(q) ==
    \/ \E i \in search[q].trying :
          TakeFirst(q, i) \/ PassOver(q, i) \/ Mismatch(q, i) \/ MatcherFails(q, i)
    \/ \E i \in MatchedHere(q) : TakeLast(q, i)
    \/ FallThrough(q)
    \/ Handle(q)
    \/ SendUnmatchedRequestError(q)

Configure ==
    \/ \E s \in Batch : SetRules(s) \/ AddRules(s)
    \/ SetRulesRejected
    \/ Reset

Next == Configure \/ \E q \in Request : Arrive(q) \/ Resume(q)

Spec == Init /\ [][Next]_vars

\* The event loop runs every queued continuation, and matchers settle: they read
\* the request, whose body ends, fails or is aborted.
FairSpec == Spec /\ \A q \in Request : WF_vars(Resume(q))

-----------------------------------------------------------------------------
(* Properties *)

AwaitingHandle(r) ==
    {q \in Request : phase[q] = "returned" /\ search[q].chosen = r}

(***************************************************************************)
(* once(), twice(), times(n): the rule handles no more requests than that, *)
(* plus one for every other request that can be in progress, because the   *)
(* check and the count are separated by an await.                          *)
(***************************************************************************)
OverrunBounded ==
    \A r \in Rule : Kind[r] = "times" =>
        count[r] + Cardinality(AwaitingHandle(r))
            <= IF Times[r] = 0 THEN 0 ELSE Times[r] - 1 + Cardinality(Request)

\* Positions of the rules the request could see on arrival and that the search
\* has left behind.
Decided(q) ==
    {i \in 1..search[q].horizon :
        /\ Priority[RuleAt(q, i)] \notin search[q].left
        /\ i \notin search[q].trying}

(***************************************************************************)
(* "There are no incomplete & matching rules!": whatever other requests    *)
(* and configuration calls do meanwhile, a rule that matched a request and *)
(* still owed a response (never used, below its limit, or always) was not  *)
(* passed over.  It is why the last resort can only be a rule without a    *)
(* completion check.                                                       *)
(***************************************************************************)
NeededRuleNotPassedOver ==
    \A q \in Request : phase[q] \in {"matching", "filtering", "returned"} =>
        \A i \in Decided(q) \ search[q].refused :
            Incomplete(RuleAt(q, i)) => RuleAt(q, i) = search[q].chosen

\* Positions of the rules seen on arrival that are not known to mismatch.
Candidate(q) == (1..search[q].horizon) \ search[q].refused

(***************************************************************************)
(* asPriority: "Any matching rule with a higher priority will always take  *)
(* precedence over a matching lower-priority rule, unless the higher rule  *)
(* has an explicit completion check that has already been completed". What *)
(* holds while other requests complete rules: it or a rule after it, of    *)
(* the same priority, is complete. The same goes for a 503.                *)
(***************************************************************************)
PriorityRespected ==
    \A q \in Request : phase[q] = "returned" =>
        \A i \in Candidate(q) :
            \/ search[q].chosen # NoRule
               /\ Priority[RuleAt(q, i)] <= Priority[search[q].chosen]
            \/ \E j \in Positions(search[q].from, Priority[RuleAt(q, i)]) \ search[q].refused :
                  j >= i /\ IsComplete(RuleAt(q, j))

\* The rule that is chosen is the one that should be, as far as other requests let it be known.
RightRuleChosen == NeededRuleNotPassedOver /\ PriorityRespected

(***************************************************************************)
(* "We move down the priority list only when either no rules match at all, *)
(* or when all matching rules have explicit completion checks defined that *)
(* are completed": so a 503 means every rule that matched is complete.     *)
(***************************************************************************)
UnmatchedWhenComplete ==
    \A q \in Request : phase[q] = "returned" /\ search[q].chosen = NoRule =>
        \A i \in Candidate(q) : IsComplete(RuleAt(q, i))

(***************************************************************************)
(* A request that was given a disposed rule arrived before the rules were  *)
(* replaced or reset, or after a replacement that was rejected half done.  *)
(***************************************************************************)
DisposedOnlyAcrossReplacement ==
    \A q \in Request :
        phase[q] = "returned" /\ search[q].chosen \in disposed =>
            search[q].from # gen \/ gen \in rejected

(***************************************************************************)
(* Matching implements RuleDispatch: a request is granted at most one      *)
(* rule, not exhausted when it is granted, and is counted once.            *)
(***************************************************************************)
Dispatch == INSTANCE RuleDispatch WITH
    busy <- [q \in Request |-> phase[q] \notin Finished],
    grant <- [q \in Request |-> search[q].chosen]

ImplementsDispatch == Dispatch!Spec

(***************************************************************************)
(* Every request is handled, refused as unmatched, or failed: again and    *)
(* again none is in progress.                                              *)
(***************************************************************************)
EveryRequestSettles == []<>(\A q \in Request : phase[q] \in Finished)

=============================================================================
