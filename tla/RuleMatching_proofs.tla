------------------------ MODULE RuleMatching_proofs ------------------------
(***************************************************************************)
(* Type correctness of rule matching, the bound on how far a limited rule  *)
(* can overrun, that matching implements RuleDispatch, that the right rule *)
(* is chosen and that disposed rules are not, for any rules and number of  *)
(* requests in progress; that matchers which say the same agree; and that  *)
(* builders make the rules that they were told, by any number of calls.    *)
(***************************************************************************)
EXTENDS Rules, FiniteSetTheorems, SequenceTheorems, WellFoundedInduction, TLAPS

(* The positions a search holds are those of rules in the object it        *)
(* captured, which is the current one or an earlier one.                   *)
PositionsOK ==
    \A q \in Request :
        /\ search[q].from <= gen
        /\ search[q].trying \subseteq DOMAIN sets[search[q].from]
        /\ search[q].matched \subseteq DOMAIN sets[search[q].from]

(* Only a search that has returned has chosen a rule.                      *)
ChosenOK ==
    \A q \in Request : phase[q] # "returned" => search[q].chosen = NoRule

IInv == TypeOK /\ PositionsOK /\ ChosenOK

-----------------------------------------------------------------------------
LEMMA InitIInv == Init => IInv
<1> SUFFICES ASSUME Init PROVE IInv
    OBVIOUS
<1> USE ConstantsAssumption DEF Init
<1>1. NoSearch \in Search
    BY DEF NoSearch, Search, Generation
<1>2. TypeOK
    BY <1>1 DEF TypeOK, Generation, Phase, Finished
<1>3. PositionsOK
    BY DEF PositionsOK, NoSearch
<1>4. ChosenOK
    BY DEF ChosenOK, NoSearch
<1> QED BY <1>2, <1>3, <1>4 DEF IInv

(* A rule set grows at its end, so positions keep their rules.             *)
LEMMA BatchIsSeq ==
    ASSUME NEW s \in Batch
    PROVE  s \in Seq(Rule)
BY ConstantsAssumption DEF Batch

LEMMA SetRulesIInv ==
    ASSUME IInv, NEW s \in Seq(Rule), SetRules(s)
    PROVE  IInv'
<1> USE ConstantsAssumption DEF SetRules, IInv
<1>1. gen' = gen + 1 /\ gen \in Generation /\ gen' \in Generation
    BY DEF TypeOK, Generation
<1>2. sets' \in [Generation -> Seq(Rule)]
    BY <1>1 DEF TypeOK
<1>3. \A i \in DOMAIN sets[gen] : sets[gen][i] \in Rule
    BY <1>1 DEF TypeOK
<1>4. disposed' \in SUBSET Rule
    BY <1>3 DEF TypeOK, RulesOf
<1>5. TypeOK'
    BY <1>1, <1>2, <1>4 DEF TypeOK
<1>6. PositionsOK'
  <2> SUFFICES ASSUME NEW q \in Request
               PROVE  /\ search[q].from <= gen'
                      /\ sets'[search[q].from] = sets[search[q].from]
      BY DEF PositionsOK
  <2>1. search[q].from \in Generation /\ search[q].from <= gen
      BY DEF TypeOK, Search, PositionsOK
  <2> QED BY <2>1, <1>1 DEF TypeOK, Generation
<1>7. ChosenOK'
    BY DEF ChosenOK
<1> QED BY <1>5, <1>6, <1>7

LEMMA SetRulesRejectedIInv ==
    ASSUME IInv, SetRulesRejected
    PROVE  IInv'
<1> USE DEF SetRulesRejected, IInv
<1>1. \A i \in DOMAIN sets[gen] : sets[gen][i] \in Rule
    BY DEF TypeOK
<1>2. TypeOK'
    BY <1>1 DEF TypeOK, RulesOf
<1> QED BY <1>2 DEF PositionsOK, ChosenOK

LEMMA AddRulesIInv ==
    ASSUME IInv, NEW s \in Seq(Rule), AddRules(s)
    PROVE  IInv'
<1> USE DEF AddRules, IInv
<1>1. sets[gen] \in Seq(Rule) /\ sets[gen] \o s \in Seq(Rule)
    BY DEF TypeOK
<1>2. TypeOK'
    BY <1>1 DEF TypeOK
<1>3. DOMAIN sets[gen] \subseteq DOMAIN (sets[gen] \o s)
    BY <1>1
<1>4. \A g \in Generation : DOMAIN sets[g] \subseteq DOMAIN sets'[g]
    BY <1>3 DEF TypeOK
<1>5. PositionsOK'
    BY <1>4 DEF PositionsOK, TypeOK, Search
<1> QED BY <1>2, <1>5 DEF ChosenOK

(* A step of one request that leaves its search well formed.               *)
LEMMA SearchStep ==
    ASSUME IInv,
           NEW q \in Request, NEW t \in Search, NEW x \in Phase,
           phase' = [phase EXCEPT ![q] = x],
           search' = [search EXCEPT ![q] = t],
           t.from <= gen,
           t.trying \subseteq DOMAIN sets[t.from],
           t.matched \subseteq DOMAIN sets[t.from],
           x # "returned" => t.chosen = NoRule,
           UNCHANGED ruleVars,
           count' \in [Rule -> Nat],
           arrivals' \in 0..MaxArrivals
    PROVE  IInv'
<1> USE DEF IInv, ruleVars
<1>1. TypeOK'
    BY DEF TypeOK
<1>2. PositionsOK'
    BY DEF PositionsOK, TypeOK
<1>3. ChosenOK'
    BY DEF ChosenOK, TypeOK
<1> QED BY <1>1, <1>2, <1>3

(* Whatever level a search enters, it stays well formed.                   *)
LEMMA EnterLevelIInv ==
    ASSUME IInv,
           NEW q \in Request, NEW s \in Search, NEW S \in SUBSET Nat,
           EnterLevel(q, s, S),
           s.from <= gen,
           s.trying \subseteq DOMAIN sets[s.from],
           s.matched \subseteq DOMAIN sets[s.from],
           s.chosen = NoRule,
           arrivals' \in 0..MaxArrivals,
           UNCHANGED <<ruleVars, count>>
    PROVE  IInv'
<1>1. \A p : Asked(s.from, p) \subseteq DOMAIN sets[s.from]
    BY DEF Asked, Positions
<1>2. s.from \in Generation /\ sets[s.from] \in Seq(Rule)
    BY DEF Search, IInv, TypeOK
<1>3. DOMAIN sets[s.from] \subseteq Position
    BY <1>2 DEF Position
<1>4. {"returned", "filtering", "matching"} \subseteq Phase
    BY DEF Phase
<1>5. UNCHANGED ruleVars /\ count' \in [Rule -> Nat]
    BY DEF IInv, TypeOK
<1>6. CASE S = {} /\ phase' = [phase EXCEPT ![q] = "returned"]
                  /\ search' = [search EXCEPT ![q] = s]
    BY <1>4, <1>5, <1>6, SearchStep
<1>7. ASSUME NEW p \in S,
             phase' = [phase EXCEPT ![q] =
                 IF Asked(s.from, p) = {} THEN "filtering" ELSE "matching"],
             search' = [search EXCEPT ![q] = AtLevel(s, p, S)]
      PROVE  IInv'
  <2>1. AtLevel(s, p, S) \in Search
      BY <1>1, <1>3 DEF AtLevel, Search
  <2>2. /\ AtLevel(s, p, S).from = s.from
        /\ AtLevel(s, p, S).matched = s.matched
        /\ AtLevel(s, p, S).chosen = NoRule
        /\ AtLevel(s, p, S).trying \subseteq DOMAIN sets[s.from]
      BY <1>1 DEF AtLevel, Search
  <2>3. CASE Asked(s.from, p) = {}
      BY <1>4, <1>5, <1>7, <2>1, <2>2, <2>3, SearchStep
  <2>4. CASE Asked(s.from, p) # {}
      BY <1>4, <1>5, <1>7, <2>1, <2>2, <2>4, SearchStep
  <2> QED BY <2>3, <2>4
<1> QED BY <1>6, <1>7, Zenon DEF EnterLevel

LEMMA ArriveIInv ==
    ASSUME IInv, NEW q \in Request, Arrive(q)
    PROVE  IInv'
<1> USE ConstantsAssumption DEF IInv
<1>1. gen \in Generation /\ sets[gen] \in Seq(Rule)
    BY DEF TypeOK
<1>2. NewSearch \in Search
    BY <1>1 DEF NewSearch, NoSearch, Search, Generation, Position
<1>3. /\ NewSearch.from = gen
      /\ NewSearch.trying = {} /\ NewSearch.matched = {}
      /\ NewSearch.chosen = NoRule
    BY DEF NewSearch, NoSearch
<1>4. PrioritiesOf(gen) \in SUBSET Nat
    BY <1>1 DEF PrioritiesOf, RulesOf
<1>5. arrivals' \in 0..MaxArrivals
    BY DEF Arrive, TypeOK
<1>6. EnterLevel(q, NewSearch, PrioritiesOf(gen)) /\ UNCHANGED <<ruleVars, count>>
    BY DEF Arrive
<1>7. gen <= gen
    BY <1>1 DEF Generation
<1> QED BY <1>2, <1>3, <1>4, <1>5, <1>6, <1>7, EnterLevelIInv

LEMMA FallThroughIInv ==
    ASSUME IInv, NEW q \in Request, FallThrough(q)
    PROVE  IInv'
<1>1. search[q] \in Search /\ search[q].left \in SUBSET Nat
    BY DEF IInv, TypeOK, Search
<1>2. /\ search[q].from <= gen
      /\ search[q].trying \subseteq DOMAIN sets[search[q].from]
      /\ search[q].matched \subseteq DOMAIN sets[search[q].from]
    BY DEF IInv, PositionsOK
<1>3. search[q].chosen = NoRule
    BY DEF IInv, ChosenOK, FallThrough
<1>4. /\ EnterLevel(q, search[q], search[q].left)
      /\ UNCHANGED <<ruleVars, count>>
      /\ arrivals' \in 0..MaxArrivals
    BY DEF FallThrough, IInv, TypeOK
<1> QED BY <1>1, <1>2, <1>3, <1>4, EnterLevelIInv

(* The steps of the loop over one level.                                   *)
LEMMA TryIInv ==
    ASSUME IInv, NEW q \in Request, NEW i \in search[q].trying,
           TakeFirst(q, i) \/ PassOver(q, i) \/ Mismatch(q, i)
    PROVE  IInv'
<1>1. /\ search[q] \in Search
      /\ search[q].from \in Generation
      /\ sets[search[q].from] \in Seq(Rule)
    BY DEF IInv, TypeOK, Search
<1>2. /\ search[q].from <= gen
      /\ search[q].trying \subseteq DOMAIN sets[search[q].from]
      /\ search[q].matched \subseteq DOMAIN sets[search[q].from]
    BY DEF IInv, PositionsOK
<1>3. i \in Position /\ RuleAt(q, i) \in Rule
    BY <1>1, <1>2 DEF RuleAt, Position
<1>4. phase[q] = "matching" /\ search[q].chosen = NoRule
    BY DEF TakeFirst, PassOver, Mismatch, IsAwaited, IInv, ChosenOK
<1>5. UNCHANGED ruleVars /\ count' \in [Rule -> Nat] /\ arrivals' \in 0..MaxArrivals
    BY DEF IInv, TypeOK, TakeFirst, PassOver, Mismatch
<1>6. NextTry(q, i) \in Phase /\ NextTry(q, i) # "returned" /\ "returned" \in Phase
    BY DEF NextTry, Phase
<1>7. CASE TakeFirst(q, i)
  <2> DEFINE t == [AfterMatch(search[q], i) EXCEPT !.chosen = RuleAt(q, i)]
  <2>1. t \in Search
      BY <1>1, <1>3 DEF Search, AfterMatch
  <2>2. /\ t.from = search[q].from
        /\ t.trying = search[q].trying \ {i}
        /\ t.matched = search[q].matched \cup {i}
      BY <1>1 DEF Search, AfterMatch
  <2>3. search' = [search EXCEPT ![q] = t]
      BY <1>7, Zenon DEF TakeFirst
  <2>4. phase' = [phase EXCEPT ![q] = "returned"]
      BY <1>7 DEF TakeFirst
  <2> HIDE DEF t
  <2> QED BY <1>2, <1>5, <1>6, <2>1, <2>2, <2>3, <2>4, SearchStep
<1>8. CASE PassOver(q, i)
  <2> DEFINE t == AfterMatch(search[q], i)
  <2>1. t \in Search
      BY <1>1, <1>3 DEF Search, AfterMatch
  <2>2. /\ t.from = search[q].from
        /\ t.trying = search[q].trying \ {i}
        /\ t.matched = search[q].matched \cup {i}
        /\ t.chosen = NoRule
      BY <1>1, <1>4 DEF Search, AfterMatch
  <2>3. search' = [search EXCEPT ![q] = t]
      BY <1>8, Zenon DEF PassOver
  <2>4. phase' = [phase EXCEPT ![q] = NextTry(q, i)]
      BY <1>8 DEF PassOver
  <2> HIDE DEF t
  <2> QED BY <1>2, <1>5, <1>6, <2>1, <2>2, <2>3, <2>4, SearchStep
<1>9. CASE Mismatch(q, i)
  <2> DEFINE t == AfterMismatch(search[q], i)
  <2>1. t \in Search
      BY <1>1, <1>3 DEF Search, AfterMismatch
  <2>2. /\ t.from = search[q].from
        /\ t.trying = search[q].trying \ {i}
        /\ t.matched = search[q].matched
        /\ t.chosen = NoRule
      BY <1>1, <1>4 DEF Search, AfterMismatch
  <2>3. search' = [search EXCEPT ![q] = t]
      BY <1>9, Zenon DEF Mismatch
  <2>4. phase' = [phase EXCEPT ![q] = NextTry(q, i)]
      BY <1>9 DEF Mismatch
  <2> HIDE DEF t
  <2> QED BY <1>2, <1>5, <1>6, <2>1, <2>2, <2>3, <2>4, SearchStep
<1> QED BY <1>7, <1>8, <1>9

LEMMA TakeLastIInv ==
    ASSUME IInv, NEW q \in Request, NEW i \in MatchedHere(q), TakeLast(q, i)
    PROVE  IInv'
<1>1. /\ search[q] \in Search
      /\ search[q].from \in Generation
      /\ sets[search[q].from] \in Seq(Rule)
    BY DEF IInv, TypeOK, Search
<1>2. /\ search[q].from <= gen
      /\ search[q].trying \subseteq DOMAIN sets[search[q].from]
      /\ search[q].matched \subseteq DOMAIN sets[search[q].from]
    BY DEF IInv, PositionsOK
<1>3. RuleAt(q, i) \in Rule
    BY <1>1, <1>2 DEF RuleAt, MatchedHere
<1> DEFINE t == [search[q] EXCEPT !.chosen = RuleAt(q, i)]
<1>4. t \in Search
    BY <1>1, <1>3 DEF Search
<1>5. /\ t.from = search[q].from
      /\ t.trying = search[q].trying
      /\ t.matched = search[q].matched
    BY <1>1 DEF Search
<1>6. search' = [search EXCEPT ![q] = t]
    BY <1>1 DEF TakeLast, IInv, TypeOK
<1>7. /\ phase' = [phase EXCEPT ![q] = "returned"] /\ "returned" \in Phase
      /\ UNCHANGED ruleVars /\ count' \in [Rule -> Nat] /\ arrivals' \in 0..MaxArrivals
    BY DEF TakeLast, IInv, TypeOK, Phase
<1> HIDE DEF t
<1> QED BY <1>2, <1>4, <1>5, <1>6, <1>7, SearchStep

(* The steps that end a request.                                           *)
LEMMA SettleIInv ==
    ASSUME IInv, NEW q \in Request,
           \/ \E i \in search[q].trying : MatcherFails(q, i)
           \/ Handle(q)
           \/ SendUnmatchedRequestError(q)
    PROVE  IInv'
<1>1. NoSearch \in Search
    BY ConstantsAssumption DEF NoSearch, Search, Generation
<1>2. /\ NoSearch.from <= gen
      /\ NoSearch.trying = {} /\ NoSearch.matched = {} /\ NoSearch.chosen = NoRule
    BY DEF NoSearch, IInv, TypeOK, Generation
<1>3. UNCHANGED ruleVars /\ arrivals' \in 0..MaxArrivals
    BY DEF MatcherFails, Handle, SendUnmatchedRequestError, IInv, TypeOK
<1>4. search[q].chosen \in Rule \cup {NoRule}
    BY DEF IInv, TypeOK, Search
<1>5. count' \in [Rule -> Nat]
    BY <1>4 DEF MatcherFails, Handle, SendUnmatchedRequestError, IInv, TypeOK
<1>6. PICK x \in {"failed", "handled", "unmatched"} : Settle(q, x)
    BY DEF MatcherFails, Handle, SendUnmatchedRequestError
<1>7. x \in Phase /\ x # "returned"
    BY <1>6 DEF Phase, Finished
<1> QED BY <1>1, <1>2, <1>3, <1>5, <1>6, <1>7, SearchStep DEF Settle

LEMMA NextIInv == IInv /\ [Next]_vars => IInv'
<1> SUFFICES ASSUME IInv, [Next]_vars PROVE IInv'
    OBVIOUS
<1>1. CASE Configure
  <2>1. <<>> \in Seq(Rule)
      OBVIOUS
  <2> QED BY <1>1, <2>1, BatchIsSeq, SetRulesIInv, AddRulesIInv,
             SetRulesRejectedIInv DEF Configure, Reset
<1>2. ASSUME NEW q \in Request, Arrive(q) PROVE IInv'
    BY <1>2, ArriveIInv
<1>3. ASSUME NEW q \in Request, Resume(q) PROVE IInv'
    BY <1>3, TryIInv, TakeLastIInv, SettleIInv, FallThroughIInv DEF Resume
<1>4. CASE UNCHANGED vars
    BY <1>4 DEF vars, IInv, TypeOK, PositionsOK, ChosenOK
<1> QED BY <1>1, <1>2, <1>3, <1>4 DEF Next

(***************************************************************************)
(* Rule matching is type correct, for any rules and requests.              *)
(***************************************************************************)
THEOREM MatchingTypeOK == Spec => []TypeOK
<1>1. IInv => TypeOK
    BY DEF IInv
<1> QED BY <1>1, InitIInv, NextIInv, PTL DEF Spec

-----------------------------------------------------------------------------
(* How many requests can have been given a rule that has not counted them. *)
LEMMA AwaitingFinite ==
    ASSUME NEW r \in Rule
    PROVE  /\ IsFiniteSet(AwaitingHandle(r))
           /\ Cardinality(AwaitingHandle(r)) \in Nat
           /\ Cardinality(Request) \in Nat
           /\ Cardinality(AwaitingHandle(r)) <= Cardinality(Request)
<1>1. AwaitingHandle(r) \subseteq Request
    BY DEF AwaitingHandle
<1> QED BY <1>1, RequestFinite, FS_Subset, FS_CardinalityType

LEMMA AwaitingFiniteNext ==
    ASSUME NEW r \in Rule
    PROVE  /\ IsFiniteSet(AwaitingHandle(r)')
           /\ Cardinality(AwaitingHandle(r)') \in Nat
           /\ Cardinality(AwaitingHandle(r)') <= Cardinality(Request)
<1>1. AwaitingHandle(r)' \subseteq Request
    BY DEF AwaitingHandle
<1> QED BY <1>1, RequestFinite, FS_Subset, FS_CardinalityType

(* Steps that neither count a request nor give one a rule.                 *)
LEMMA OverrunUnaffected ==
    ASSUME IInv, OverrunBounded,
           UNCHANGED count,
           \A r \in Rule : AwaitingHandle(r)' \subseteq AwaitingHandle(r)
    PROVE  OverrunBounded'
<1> SUFFICES ASSUME NEW r \in Rule, Kind[r] = "times"
             PROVE  count[r] + Cardinality(AwaitingHandle(r)')
                      <= IF Times[r] = 0 THEN 0
                         ELSE Times[r] - 1 + Cardinality(Request)
    BY DEF OverrunBounded
<1>1. Cardinality(AwaitingHandle(r)') <= Cardinality(AwaitingHandle(r))
    BY AwaitingFinite, FS_Subset
<1>2. count[r] + Cardinality(AwaitingHandle(r))
        <= IF Times[r] = 0 THEN 0 ELSE Times[r] - 1 + Cardinality(Request)
    BY DEF OverrunBounded
<1>3. count[r] \in Nat /\ Times[r] \in Nat
    BY ConstantsAssumption DEF IInv, TypeOK
<1> QED BY <1>1, <1>2, <1>3, AwaitingFinite, AwaitingFiniteNext

(* A rule is taken only while it is below its limit.                       *)
LEMMA OverrunTaken ==
    ASSUME IInv, OverrunBounded, NEW q \in Request, NEW c \in Rule,
           ~IsComplete(c),
           UNCHANGED count,
           \A r \in Rule \ {c} : AwaitingHandle(r)' \subseteq AwaitingHandle(r)
    PROVE  OverrunBounded'
<1> SUFFICES ASSUME NEW r \in Rule, Kind[r] = "times"
             PROVE  count[r] + Cardinality(AwaitingHandle(r)')
                      <= IF Times[r] = 0 THEN 0
                         ELSE Times[r] - 1 + Cardinality(Request)
    BY DEF OverrunBounded
<1>1. count[r] \in Nat /\ Times[r] \in Nat
    BY ConstantsAssumption DEF IInv, TypeOK
<1>2. CASE r = c
  <2>1. count[r] < Times[r]
      BY <1>1, <1>2 DEF IsComplete
  <2> QED BY <1>1, <2>1, AwaitingFinite, AwaitingFiniteNext
<1>3. CASE r # c
  <2>1. Cardinality(AwaitingHandle(r)') <= Cardinality(AwaitingHandle(r))
      BY <1>3, AwaitingFinite, FS_Subset
  <2>2. count[r] + Cardinality(AwaitingHandle(r))
          <= IF Times[r] = 0 THEN 0 ELSE Times[r] - 1 + Cardinality(Request)
      BY DEF OverrunBounded
  <2> QED BY <1>1, <2>1, <2>2, AwaitingFinite, AwaitingFiniteNext
<1> QED BY <1>2, <1>3

(* Counting a request takes it off the ones awaited.                       *)
LEMMA OverrunHandled ==
    ASSUME IInv, OverrunBounded, NEW q \in Request, Handle(q)
    PROVE  OverrunBounded'
<1> SUFFICES ASSUME NEW r \in Rule, Kind[r] = "times"
             PROVE  count'[r] + Cardinality(AwaitingHandle(r)')
                      <= IF Times[r] = 0 THEN 0
                         ELSE Times[r] - 1 + Cardinality(Request)
    BY DEF OverrunBounded
<1>1. count[r] \in Nat /\ Times[r] \in Nat
    BY ConstantsAssumption DEF IInv, TypeOK
<1>2. count[r] + Cardinality(AwaitingHandle(r))
        <= IF Times[r] = 0 THEN 0 ELSE Times[r] - 1 + Cardinality(Request)
    BY DEF OverrunBounded
<1>3. AwaitingHandle(r)' = AwaitingHandle(r) \ {q}
    BY DEF AwaitingHandle, Handle, Settle, IInv, TypeOK, NoSearch
<1>4. CASE r = search[q].chosen
  <2>1. q \in AwaitingHandle(r)
      BY <1>4 DEF AwaitingHandle, Handle
  <2>2. Cardinality(AwaitingHandle(r)') = Cardinality(AwaitingHandle(r)) - 1
      BY <1>3, <2>1, AwaitingFinite, FS_RemoveElement
  <2>3. count'[r] = count[r] + 1
      BY <1>4 DEF Handle, IInv, TypeOK
  <2> QED BY <1>1, <1>2, <2>2, <2>3, AwaitingFinite
<1>5. CASE r # search[q].chosen
  <2>1. count'[r] = count[r]
      BY <1>5 DEF Handle, IInv, TypeOK
  <2>2. Cardinality(AwaitingHandle(r)') <= Cardinality(AwaitingHandle(r))
      BY <1>3, AwaitingFinite, FS_Subset
  <2> QED BY <1>1, <1>2, <2>1, <2>2, AwaitingFinite, AwaitingFiniteNext
<1> QED BY <1>4, <1>5

LEMMA OverrunNext == IInv /\ OverrunBounded /\ [Next]_vars => OverrunBounded'
<1> SUFFICES ASSUME IInv, OverrunBounded, [Next]_vars PROVE OverrunBounded'
    OBVIOUS
<1>1. CASE Configure \/ UNCHANGED vars
  <2>1. UNCHANGED <<count, phase, search>>
      BY <1>1 DEF Configure, SetRules, AddRules, SetRulesRejected, Reset, vars
  <2>2. \A r \in Rule : AwaitingHandle(r)' = AwaitingHandle(r)
      BY <2>1 DEF AwaitingHandle
  <2> QED BY <2>1, <2>2, OverrunUnaffected
<1>2. ASSUME NEW q \in Request, NEW s, NEW S, EnterLevel(q, s, S),
             s.chosen = NoRule, UNCHANGED count
      PROVE  OverrunBounded'
  <2>1. ASSUME NEW r \in Rule, NEW o \in AwaitingHandle(r)'
        PROVE  o \in AwaitingHandle(r)
    <3>1. CASE o # q
        BY <1>2, <2>1, <3>1 DEF EnterLevel, AwaitingHandle, IInv, TypeOK
    <3>2. CASE o = q
      <4>1. phase'[q] = "returned" /\ search'[q].chosen = r
          BY <2>1, <3>2 DEF AwaitingHandle
      <4>2. search'[q] = s
          BY <1>2, <4>1 DEF EnterLevel, IInv, TypeOK
      <4> QED BY <1>2, <4>1, <4>2, ConstantsAssumption
    <3> QED BY <3>1, <3>2
  <2> QED BY <1>2, <2>1, OverrunUnaffected
<1>3. ASSUME NEW q \in Request, Arrive(q) PROVE OverrunBounded'
  <2>1. NewSearch.chosen = NoRule
      BY DEF NewSearch
  <2> QED BY <1>2, <1>3, <2>1 DEF Arrive
<1>4. ASSUME NEW q \in Request, FallThrough(q) PROVE OverrunBounded'
  <2>1. search[q].chosen = NoRule
      BY <1>4 DEF FallThrough, IInv, ChosenOK
  <2> QED BY <1>2, <1>4, <2>1 DEF FallThrough
<1>5. ASSUME NEW q \in Request, NEW i \in search[q].trying, TakeFirst(q, i)
      PROVE  OverrunBounded'
  <2>1. /\ search[q] \in Search
        /\ search[q].from \in Generation
        /\ sets[search[q].from] \in Seq(Rule)
        /\ search[q].trying \subseteq DOMAIN sets[search[q].from]
      BY DEF IInv, TypeOK, Search, PositionsOK
  <2>2. RuleAt(q, i) \in Rule
      BY <2>1 DEF RuleAt
  <2>3. ~IsComplete(RuleAt(q, i))
      BY <1>5 DEF TakeFirst, Incomplete
  <2>4. search'[q].chosen = RuleAt(q, i)
      BY <1>5, <2>1 DEF TakeFirst, AfterMatch, IInv, TypeOK, Search
  <2>5. \A r \in Rule \ {RuleAt(q, i)} :
           AwaitingHandle(r)' \subseteq AwaitingHandle(r)
      BY <1>5, <2>4 DEF TakeFirst, AwaitingHandle, IInv, TypeOK
  <2> QED BY <1>5, <2>2, <2>3, <2>5, OverrunTaken DEF TakeFirst
<1>6. ASSUME NEW q \in Request, NEW i \in MatchedHere(q), TakeLast(q, i)
      PROVE  OverrunBounded'
  <2>1. /\ search[q] \in Search
        /\ search[q].from \in Generation
        /\ sets[search[q].from] \in Seq(Rule)
        /\ search[q].matched \subseteq DOMAIN sets[search[q].from]
      BY DEF IInv, TypeOK, Search, PositionsOK
  <2>2. RuleAt(q, i) \in Rule
      BY <2>1 DEF RuleAt, MatchedHere
  <2>3. search'[q].chosen = RuleAt(q, i)
      BY <1>6, <2>1 DEF TakeLast, IInv, TypeOK, Search
  <2>4. \A r \in Rule \ {RuleAt(q, i)} :
           AwaitingHandle(r)' \subseteq AwaitingHandle(r)
      BY <1>6, <2>3 DEF TakeLast, AwaitingHandle, IInv, TypeOK
  <2> QED BY <1>6, <2>2, <2>4, OverrunTaken DEF TakeLast
<1>7. ASSUME NEW q \in Request, NEW i \in search[q].trying,
             PassOver(q, i) \/ Mismatch(q, i)
      PROVE  OverrunBounded'
  <2>1. phase'[q] # "returned"
      BY <1>7 DEF PassOver, Mismatch, NextTry, IInv, TypeOK
  <2>2. \A r \in Rule : AwaitingHandle(r)' \subseteq AwaitingHandle(r)
      BY <1>7, <2>1 DEF PassOver, Mismatch, AwaitingHandle, IInv, TypeOK
  <2> QED BY <1>7, <2>2, OverrunUnaffected DEF PassOver, Mismatch
<1>8. ASSUME NEW q \in Request, NEW i \in search[q].trying,
             MatcherFails(q, i)
      PROVE  OverrunBounded'
  <2>1. \A r \in Rule : AwaitingHandle(r)' \subseteq AwaitingHandle(r)
      BY <1>8 DEF MatcherFails, Settle, AwaitingHandle, IInv, TypeOK
  <2> QED BY <1>8, <2>1, OverrunUnaffected DEF MatcherFails
<1>9. ASSUME NEW q \in Request, SendUnmatchedRequestError(q) PROVE OverrunBounded'
  <2>1. \A r \in Rule : AwaitingHandle(r)' \subseteq AwaitingHandle(r)
      BY <1>9 DEF SendUnmatchedRequestError, Settle, AwaitingHandle, IInv, TypeOK
  <2> QED BY <1>9, <2>1, OverrunUnaffected DEF SendUnmatchedRequestError
<1> QED BY <1>1, <1>3, <1>4, <1>5, <1>6, <1>7, <1>8, <1>9, OverrunHandled
        DEF Next, Resume

(***************************************************************************)
(* once(), twice(), thrice() and times(n) can overrun by no more than the  *)
(* number of other requests in progress together.                          *)
(***************************************************************************)
THEOREM MatchingOverrunBounded == Spec => []OverrunBounded
<1>1. Init => OverrunBounded
  <2> SUFFICES ASSUME Init, NEW r \in Rule, Kind[r] = "times"
               PROVE  count[r] + Cardinality(AwaitingHandle(r))
                        <= IF Times[r] = 0 THEN 0
                           ELSE Times[r] - 1 + Cardinality(Request)
      BY DEF OverrunBounded
  <2>1. AwaitingHandle(r) = {} /\ count[r] = 0 /\ Times[r] \in Nat
      BY ConstantsAssumption DEF Init, AwaitingHandle
  <2>2. Cardinality(AwaitingHandle(r)) = 0
      BY <2>1, FS_EmptySet
  <2> QED BY <2>1, <2>2, AwaitingFinite
<1> QED BY <1>1, InitIInv, NextIInv, OverrunNext, PTL DEF Spec

-----------------------------------------------------------------------------
(* What a step of one request looks like through the refinement mapping.   *)
busyFn == [q \in Request |-> phase[q] \notin Finished]
grantFn == [q \in Request |-> search[q].chosen]

LEMMA StepMapped ==
    ASSUME IInv,
           NEW q \in Request, NEW x, NEW t,
           phase' = [phase EXCEPT ![q] = x],
           search' = [search EXCEPT ![q] = t]
    PROVE  /\ busyFn' = [busyFn EXCEPT ![q] = x \notin Finished]
           /\ grantFn' = [grantFn EXCEPT ![q] = t.chosen]
BY DEF IInv, TypeOK, busyFn, grantFn

LEMMA StepSame ==
    ASSUME NEW q \in Request
    PROVE  /\ [busyFn EXCEPT ![q] = phase[q] \notin Finished] = busyFn
           /\ [grantFn EXCEPT ![q] = search[q].chosen] = grantFn
           /\ busyFn[q] = (phase[q] \notin Finished)
           /\ grantFn[q] = search[q].chosen
BY DEF busyFn, grantFn

LEMMA EnterLevelMapped ==
    ASSUME IInv, NEW q \in Request, NEW s \in Search, NEW S, EnterLevel(q, s, S),
           search[q].chosen = NoRule, s.chosen = NoRule
    PROVE  /\ busyFn' = [busyFn EXCEPT ![q] = TRUE]
           /\ grantFn' = grantFn
<1>1. \A p : AtLevel(s, p, S).chosen = NoRule
    BY DEF AtLevel, Search
<1>2. ASSUME NEW x \in {"returned", "filtering", "matching"}, NEW t,
             phase' = [phase EXCEPT ![q] = x],
             search' = [search EXCEPT ![q] = t],
             t.chosen = NoRule
      PROVE  busyFn' = [busyFn EXCEPT ![q] = TRUE] /\ grantFn' = grantFn
  <2>1. (x \notin Finished) = TRUE
      BY DEF Finished
  <2>2. /\ busyFn' = [busyFn EXCEPT ![q] = x \notin Finished]
        /\ grantFn' = [grantFn EXCEPT ![q] = t.chosen]
      BY <1>2, StepMapped
  <2> QED BY <1>2, <2>1, <2>2, StepSame
<1>3. CASE S = {} /\ phase' = [phase EXCEPT ![q] = "returned"]
                  /\ search' = [search EXCEPT ![q] = s]
    BY <1>2, <1>3
<1>4. ASSUME NEW p \in S,
             phase' = [phase EXCEPT ![q] =
                 IF Asked(s.from, p) = {} THEN "filtering" ELSE "matching"],
             search' = [search EXCEPT ![q] = AtLevel(s, p, S)]
      PROVE  busyFn' = [busyFn EXCEPT ![q] = TRUE] /\ grantFn' = grantFn
  <2>1. CASE Asked(s.from, p) = {}
      BY <1>1, <1>2, <1>4, <2>1
  <2>2. CASE Asked(s.from, p) # {}
      BY <1>1, <1>2, <1>4, <2>2
  <2> QED BY <2>1, <2>2
<1> QED BY <1>3, <1>4, Zenon DEF EnterLevel

LEMMA NextRefines ==
    ASSUME IInv, IInv', [Next]_vars
    PROVE  [Dispatch!Next]_(Dispatch!vars)
<1> USE DEF Dispatch!Next, Dispatch!vars
<1>0. /\ busyFn = [q \in Request |-> phase[q] \notin Finished]
      /\ grantFn = [q \in Request |-> search[q].chosen]
    BY DEF busyFn, grantFn
<1>1. CASE Configure \/ UNCHANGED vars
  <2>1. UNCHANGED <<count, phase, search>>
      BY <1>1 DEF Configure, SetRules, AddRules, SetRulesRejected, Reset, vars
  <2> QED BY <2>1
<1>2. ASSUME NEW q \in Request, Arrive(q) PROVE Dispatch!Begin(q)
  <2>1. NewSearch \in Search /\ NewSearch.chosen = NoRule
      BY ConstantsAssumption DEF NewSearch, Search, IInv, TypeOK, Position, Generation
  <2>2. search[q].chosen = NoRule
      BY <1>2 DEF Arrive, IInv, ChosenOK, Finished
  <2>3. busyFn' = [busyFn EXCEPT ![q] = TRUE] /\ grantFn' = grantFn
      BY <1>2, <2>1, <2>2, EnterLevelMapped DEF Arrive
  <2>4. ~busyFn[q] /\ UNCHANGED count
      BY <1>2, StepSame DEF Arrive
  <2> QED BY <2>3, <2>4 DEF Dispatch!Begin, busyFn, grantFn
<1>3. ASSUME NEW q \in Request, FallThrough(q)
      PROVE  UNCHANGED <<count, busyFn, grantFn>>
  <2>1. search[q] \in Search /\ search[q].chosen = NoRule
      BY <1>3 DEF FallThrough, IInv, TypeOK, ChosenOK
  <2>2. busyFn' = [busyFn EXCEPT ![q] = TRUE] /\ grantFn' = grantFn
      BY <1>3, <2>1, EnterLevelMapped DEF FallThrough
  <2>3. phase[q] \notin Finished
      BY <1>3 DEF FallThrough, Finished
  <2> QED BY <1>3, <2>2, <2>3, StepSame DEF FallThrough
<1>4. ASSUME NEW q \in Request, NEW i, PassOver(q, i) \/ Mismatch(q, i)
      PROVE  UNCHANGED <<count, busyFn, grantFn>>
  <2>1. PICK t \in {AfterMatch(search[q], i), AfterMismatch(search[q], i)} :
            /\ phase' = [phase EXCEPT ![q] = NextTry(q, i)]
            /\ search' = [search EXCEPT ![q] = t]
      BY <1>4 DEF PassOver, Mismatch
  <2>2. t.chosen = search[q].chosen
      BY DEF AfterMatch, AfterMismatch, IInv, TypeOK, Search
  <2>3. (NextTry(q, i) \notin Finished) = (phase[q] \notin Finished)
      BY <1>4 DEF PassOver, Mismatch, IsAwaited, NextTry, Finished
  <2>4. /\ busyFn' = [busyFn EXCEPT ![q] = NextTry(q, i) \notin Finished]
        /\ grantFn' = [grantFn EXCEPT ![q] = t.chosen]
      BY <2>1, StepMapped
  <2>5. busyFn' = busyFn
      BY <2>3, <2>4, StepSame, Zenon
  <2>6. grantFn' = grantFn
      BY <2>2, <2>4, StepSame, Zenon
  <2> QED BY <1>4, <2>5, <2>6 DEF PassOver, Mismatch
<1>5. ASSUME NEW q \in Request, NEW r \in Rule, NEW t,
             ~IsComplete(r), t.chosen = r,
             phase[q] \in {"matching", "filtering"},
             phase' = [phase EXCEPT ![q] = "returned"],
             search' = [search EXCEPT ![q] = t],
             UNCHANGED count
      PROVE  Dispatch!Grant(q)
  <2>1. search[q].chosen = NoRule
      BY <1>5 DEF IInv, ChosenOK
  <2>2. phase[q] \notin Finished /\ "returned" \notin Finished
      BY <1>5 DEF Finished
  <2>3. busyFn' = busyFn /\ grantFn' = [grantFn EXCEPT ![q] = r]
      BY <1>5, <2>2, StepMapped, StepSame
  <2>4. busyFn[q] /\ grantFn[q] = NoRule
      BY <2>1, <2>2, StepSame
  <2> QED BY <1>5, <2>3, <2>4
          DEF Dispatch!Grant, Dispatch!Exhausted, IsComplete, busyFn, grantFn
<1>6. ASSUME NEW q \in Request, NEW i \in search[q].trying, TakeFirst(q, i)
      PROVE  Dispatch!Grant(q)
  <2>1. /\ search[q].from \in Generation
        /\ sets[search[q].from] \in Seq(Rule)
        /\ search[q].trying \subseteq DOMAIN sets[search[q].from]
      BY DEF IInv, TypeOK, Search, PositionsOK
  <2>2. RuleAt(q, i) \in Rule /\ ~IsComplete(RuleAt(q, i))
      BY <1>6, <2>1 DEF RuleAt, TakeFirst, Incomplete
  <2>3. [AfterMatch(search[q], i) EXCEPT !.chosen = RuleAt(q, i)].chosen = RuleAt(q, i)
      BY DEF AfterMatch, IInv, TypeOK, Search
  <2>4. phase[q] = "matching" /\ UNCHANGED count
      BY <1>6 DEF TakeFirst, IsAwaited
  <2> QED BY <1>5, <1>6, <2>2, <2>3, <2>4 DEF TakeFirst
<1>7. ASSUME NEW q \in Request, NEW i \in MatchedHere(q), TakeLast(q, i)
      PROVE  Dispatch!Grant(q)
  <2>1. /\ search[q].from \in Generation
        /\ sets[search[q].from] \in Seq(Rule)
        /\ search[q].matched \subseteq DOMAIN sets[search[q].from]
      BY DEF IInv, TypeOK, Search, PositionsOK
  <2>2. RuleAt(q, i) \in Rule /\ ~IsComplete(RuleAt(q, i))
      BY <1>7, <2>1 DEF RuleAt, TakeLast, MatchedHere
  <2>3. [search[q] EXCEPT !.chosen = RuleAt(q, i)].chosen = RuleAt(q, i)
      BY DEF IInv, TypeOK, Search
  <2>4. /\ search' = [search EXCEPT ![q] =
                        [search[q] EXCEPT !.chosen = RuleAt(q, i)]]
        /\ phase[q] = "filtering" /\ UNCHANGED count
      BY <1>7 DEF TakeLast, IInv, TypeOK
  <2> QED BY <1>5, <1>7, <2>2, <2>3, <2>4 DEF TakeLast
<1>8. ASSUME NEW q \in Request, Handle(q) PROVE Dispatch!Serve(q)
  <2>1. busyFn[q] /\ grantFn[q] = search[q].chosen /\ grantFn[q] # NoRule
      BY <1>8, StepSame DEF Handle, Finished
  <2>2. "handled" \in Finished /\ NoSearch.chosen = NoRule
      BY DEF Finished, NoSearch
  <2>3. /\ busyFn' = [busyFn EXCEPT ![q] = FALSE]
        /\ grantFn' = [grantFn EXCEPT ![q] = NoRule]
      BY <1>8, <2>2, StepMapped DEF Handle, Settle
  <2>4. count' = [count EXCEPT ![grantFn[q]] = @ + 1]
      BY <1>8, <2>1 DEF Handle
  <2> QED BY <2>1, <2>3, <2>4 DEF Dispatch!Serve, busyFn, grantFn
<1>9. ASSUME NEW q \in Request,
             \/ SendUnmatchedRequestError(q)
             \/ \E i \in search[q].trying : MatcherFails(q, i)
      PROVE  Dispatch!GiveUp(q)
  <2>1. phase[q] \notin Finished /\ search[q].chosen = NoRule /\ UNCHANGED count
      BY <1>9 DEF SendUnmatchedRequestError, MatcherFails, IsAwaited, Finished,
                  IInv, ChosenOK
  <2>2. NoSearch.chosen = NoRule /\ {"unmatched", "failed"} \subseteq Finished
      BY DEF Finished, NoSearch
  <2>3. PICK x \in {"unmatched", "failed"} : Settle(q, x)
      BY <1>9 DEF SendUnmatchedRequestError, MatcherFails
  <2>4. /\ busyFn' = [busyFn EXCEPT ![q] = x \notin Finished]
        /\ grantFn' = [grantFn EXCEPT ![q] = NoRule]
      BY <2>2, <2>3, StepMapped DEF Settle
  <2>5. (x \notin Finished) = FALSE
      BY <2>2
  <2>6. busyFn' = [busyFn EXCEPT ![q] = FALSE] /\ grantFn' = grantFn
      BY <2>1, <2>4, <2>5, StepSame
  <2>7. busyFn[q] /\ grantFn[q] = NoRule
      BY <2>1, StepSame
  <2> QED BY <2>1, <2>6, <2>7 DEF Dispatch!GiveUp, busyFn, grantFn
<1>10. ASSUME UNCHANGED <<count, busyFn, grantFn>>
       PROVE  UNCHANGED Dispatch!vars
    BY <1>10 DEF busyFn, grantFn
<1> QED BY <1>1, <1>2, <1>3, <1>4, <1>6, <1>7, <1>8, <1>9, <1>10 DEF Next, Resume

(***************************************************************************)
(* However the matching of several requests and the configuration calls    *)
(* interleave, the server implements RuleDispatch.                         *)
(***************************************************************************)
THEOREM MatchingImplementsDispatch == Spec => ImplementsDispatch
<1>1. ASSUME Init PROVE Dispatch!Init
  <2>1. \A q \in Request : (phase[q] \notin Finished) = FALSE
      BY <1>1 DEF Init, Finished
  <2>2. \A q \in Request : search[q].chosen = NoRule
      BY <1>1 DEF Init, NoSearch
  <2>3. [q \in Request |-> phase[q] \notin Finished] = [q \in Request |-> FALSE]
      BY <2>1, Zenon
  <2> QED BY <1>1, <2>2, <2>3 DEF Init, Dispatch!Init
<1> QED BY <1>1, InitIInv, NextIInv, NextRefines, PTL
        DEF Spec, ImplementsDispatch, Dispatch!Spec


-----------------------------------------------------------------------------
(***************************************************************************)
(* What a search s knows in phase x, besides its position in the loops.    *)
(***************************************************************************)
At(s, i) == sets[s.from][i]
LevelAt(s, i) == Priority[At(s, i)]

WholePriorities == \A r \in Rule : IsWhole(Priority[r])

\* The rules that were asked, at this level or at those before it, whose levels are behind.
TriedOK(s) ==
    /\ s.horizon <= Len(sets[s.from])
    /\ s.left \subseteq {Priority[r] : r \in Rule}
    /\ \A i \in s.trying \cup s.matched \cup s.refused :
           i \in DOMAIN sets[s.from] /\ LevelAt(s, i) \notin s.left
    /\ \A i \in s.trying : LevelAt(s, i) = s.level
    /\ s.trying \cap (s.matched \cup s.refused) = {}
    /\ s.matched \cap s.refused = {}

\* A rule that still owed a response is to come, did not match, or is the one chosen.
NeededOK(s) ==
    \A i \in 1..s.horizon :
        i \notin s.refused \cup s.trying /\ LevelAt(s, i) \notin s.left =>
            ~Incomplete(At(s, i)) \/ At(s, i) = s.chosen

\* The rule at i does not have to answer: it or one after it, of its level, is complete.
Excused(s, i) ==
    \E j \in Positions(s.from, LevelAt(s, i)) \ s.refused : j >= i /\ IsComplete(At(s, j))

\* The rules of the levels S and of those before them are excused.
ExcusedBefore(s, S) ==
    \A i \in (1..s.horizon) \ s.refused : LevelAt(s, i) \in S \/ Excused(s, i)

\* While a level is visited, its rules have been asked, unless they were complete.
AskedOK(s) ==
    \A i \in 1..s.horizon :
        LevelAt(s, i) = s.level =>
            IsComplete(At(s, i)) \/ i \in s.trying \cup s.matched \cup s.refused

\* Levels are visited in descending order, if they are integers.
DescendsOK(s) == WholePriorities => \A p \in s.left : p < s.level

SearchOK(s, x) ==
    /\ TriedOK(s) /\ NeededOK(s)
    /\ x \in {"matching", "filtering"} => AskedOK(s)
    /\ x = "filtering" => s.trying = {}
    /\ x # "returned" \/ s.chosen # NoRule =>
           DescendsOK(s) /\ ExcusedBefore(s, s.left \cup {s.level})
    /\ x = "returned" /\ s.chosen = NoRule => ExcusedBefore(s, {})
    /\ x = "returned" /\ s.chosen # NoRule =>
           s.chosen \in RulesOf(s.from) /\ Priority[s.chosen] = s.level

Searching == {"matching", "filtering", "returned"}

SearchesOK == \A q \in Request : phase[q] \in Searching => SearchOK(search[q], phase[q])

\* A rule that was disposed was added before; those of the current object are not, unless their
\* replacement was rejected.
DisposedOK ==
    /\ \A r \in disposed : \E g \in 0..gen : r \in RulesOf(g)
    /\ gen \notin rejected => RulesOf(gen) \cap disposed = {}

-----------------------------------------------------------------------------
(* Some position is the last of a set of positions: of the sets of those   *)
(* that come after one of them, the smallest has none.                     *)
LEMMA LastOfPositions ==
    ASSUME NEW n \in Nat, NEW S, S \subseteq 1..n, S # {}
    PROVE  \E i \in S : \A j \in S : i >= j
<1> DEFINE Beyond(i) == {j \in S : j > i}
           T == {Beyond(i) : i \in S}
<1>1. IsFiniteSet(1..n)
    BY FS_Interval
<1>2. IsWellFoundedOn(StrictSubsetOrdering(1..n), SUBSET (1..n))
    BY <1>1, FS_StrictSubsetOrderingWellFounded, FS_FiniteSubsetsOfFinite, Zenon
<1>3. T \subseteq SUBSET (1..n) /\ T # {}
    OBVIOUS
<1>4. PICK x \in T : \A y \in T : ~(<<y, x>> \in StrictSubsetOrdering(1..n))
    BY <1>2, <1>3, WFMin
<1>5. PICK i \in S : x = Beyond(i)
    OBVIOUS
<1>6. ASSUME NEW j \in S, j > i PROVE FALSE
  <2>0. Beyond(j) \in T
      OBVIOUS
  <2>1. Beyond(j) \subseteq x
    <3> SUFFICES ASSUME NEW k \in Beyond(j) PROVE k \in Beyond(i)
        BY <1>5
    <3>1. i \in Int /\ j \in Int /\ k \in S /\ k \in Int /\ k > j
        OBVIOUS
    <3>2. k > i
        BY <1>6, <3>1
    <3> QED BY <3>1, <3>2
  <2>2. j \in x /\ j \notin Beyond(j)
      BY <1>5, <1>6
  <2>3. <<Beyond(j), x>> \in StrictSubsetOrdering(1..n)
      BY <1>3, <2>0, <2>1, <2>2 DEF StrictSubsetOrdering
  <2> QED BY <1>4, <2>0, <2>3
<1> QED BY <1>6

(* The rule at a position that a search saw.                               *)
LEMMA AtTyped ==
    ASSUME TypeOK, NEW s \in Search, TriedOK(s)
    PROVE  /\ s.from \in Generation /\ sets[s.from] \in Seq(Rule)
           /\ 1..s.horizon \subseteq DOMAIN sets[s.from]
           /\ \A i \in DOMAIN sets[s.from] : At(s, i) \in Rule /\ LevelAt(s, i) \in Nat
<1>1. s.from \in Generation /\ s.horizon \in Nat
    BY DEF Search
<1>2. sets[s.from] \in Seq(Rule)
    BY <1>1 DEF TypeOK
<1>3. 1..s.horizon \subseteq DOMAIN sets[s.from]
    BY <1>1, <1>2 DEF TriedOK
<1>4. \A i \in DOMAIN sets[s.from] : At(s, i) \in Rule
    BY <1>2 DEF At
<1> QED BY <1>1, <1>2, <1>3, <1>4, ConstantsAssumption DEF LevelAt

(* Other requests complete rules, and rules are added, but a search that   *)
(* was right stays right: positions keep their rules, and counts grow.     *)
LEMMA OthersKeepRight ==
    ASSUME TypeOK, NEW s \in Search, NEW x \in Searching, SearchOK(s, x),
           sets'[s.from] \in Seq(Rule), Len(sets[s.from]) <= Len(sets'[s.from]),
           \A i \in DOMAIN sets[s.from] : sets'[s.from][i] = sets[s.from][i],
           count' \in [Rule -> Nat],
           \A r \in Rule : count[r] <= count'[r]
    PROVE  SearchOK(s, x)'
<1>1. /\ s.from \in Generation /\ sets[s.from] \in Seq(Rule)
      /\ 1..s.horizon \subseteq DOMAIN sets[s.from]
      /\ \A i \in DOMAIN sets[s.from] : At(s, i) \in Rule /\ LevelAt(s, i) \in Nat
    BY AtTyped DEF SearchOK
<1>2. \A i \in DOMAIN sets[s.from] :
          /\ i \in DOMAIN sets'[s.from]
          /\ At(s, i)' = At(s, i) /\ LevelAt(s, i)' = LevelAt(s, i)
  <2> SUFFICES ASSUME NEW i \in DOMAIN sets[s.from]
               PROVE  /\ i \in DOMAIN sets'[s.from]
                      /\ At(s, i)' = At(s, i) /\ LevelAt(s, i)' = LevelAt(s, i)
      OBVIOUS
  <2>1. i \in DOMAIN sets'[s.from]
      BY <1>1
  <2>2. At(s, i)' = At(s, i)
      BY DEF At
  <2>3. LevelAt(s, i)' = LevelAt(s, i)
      BY <2>2, Zenon DEF LevelAt
  <2> QED BY <2>1, <2>2, <2>3
<1>3. \A r \in Rule : /\ IsComplete(r) => IsComplete(r)'
                      /\ Incomplete(r)' => Incomplete(r)
  <2> SUFFICES ASSUME NEW r \in Rule
               PROVE  /\ IsComplete(r) => IsComplete(r)'
                      /\ Incomplete(r)' => Incomplete(r)
      OBVIOUS
  <2>1. count[r] \in Nat /\ count'[r] \in Nat /\ count[r] <= count'[r] /\ Times[r] \in Nat
      BY ConstantsAssumption DEF TypeOK
  <2> QED BY <2>1 DEF Incomplete, IsComplete, MaybeComplete
<1>4. TriedOK(s)'
  <2>1. s.horizon <= Len(sets'[s.from])
    <3>1. s.horizon \in Nat /\ s.horizon <= Len(sets[s.from])
        BY DEF SearchOK, TriedOK, Search
    <3> QED BY <1>1, <3>1
  <2>2. \A i \in s.trying \cup s.matched \cup s.refused :
            i \in DOMAIN sets'[s.from] /\ LevelAt(s, i)' \notin s.left
      BY <1>2 DEF SearchOK, TriedOK
  <2>3. \A i \in s.trying : LevelAt(s, i)' = s.level
      BY <1>2 DEF SearchOK, TriedOK
  <2> QED BY <2>1, <2>2, <2>3 DEF SearchOK, TriedOK
<1>5. NeededOK(s)'
    BY <1>1, <1>2, <1>3 DEF SearchOK, NeededOK
<1>6. AskedOK(s) => AskedOK(s)'
    BY <1>1, <1>2, <1>3 DEF AskedOK
<1>7. \A i \in 1..s.horizon : Excused(s, i) => Excused(s, i)'
  <2> SUFFICES ASSUME NEW i \in 1..s.horizon, Excused(s, i) PROVE Excused(s, i)'
      OBVIOUS
  <2>1. PICK j \in Positions(s.from, LevelAt(s, i)) \ s.refused : j >= i /\ IsComplete(At(s, j))
      BY DEF Excused
  <2>2. j \in DOMAIN sets[s.from] /\ LevelAt(s, j) = LevelAt(s, i)
      BY DEF Positions, LevelAt, At
  <2>3. j \in Positions(s.from, LevelAt(s, i))'
      BY <1>1, <1>2, <2>2 DEF Positions, LevelAt, At
  <2> QED BY <1>1, <1>2, <1>3, <2>1, <2>2, <2>3 DEF Excused
<1>8. \A S : ExcusedBefore(s, S) => ExcusedBefore(s, S)'
    BY <1>1, <1>2, <1>7 DEF ExcusedBefore
<1>9. s.chosen \in RulesOf(s.from) => s.chosen \in RulesOf(s.from)'
    BY <1>1, <1>2 DEF RulesOf, At
<1>10. DescendsOK(s) => DescendsOK(s)'
    BY DEF DescendsOK
<1> QED BY <1>4, <1>5, <1>6, <1>8, <1>9, <1>10 DEF SearchOK


-----------------------------------------------------------------------------
(* What a search s has done before it enters the first of the levels S.    *)
Entering(s, S) ==
    /\ s.horizon <= Len(sets[s.from])
    /\ S \subseteq {Priority[r] : r \in Rule}
    /\ \A i \in s.matched \cup s.refused : i \in DOMAIN sets[s.from] /\ LevelAt(s, i) \notin S
    /\ s.matched \cap s.refused = {}
    /\ s.trying = {} /\ s.chosen = NoRule
    /\ \A i \in (1..s.horizon) \ s.refused : LevelAt(s, i) \notin S => ~Incomplete(At(s, i))
    /\ ExcusedBefore(s, S)

(* There are no levels left: the search returns nothing.                   *)
LEMMA EnterNone ==
    ASSUME NEW s \in Search, s.left = {}, Entering(s, {})
    PROVE  SearchOK(s, "returned")
<1>1. TriedOK(s)
    BY DEF Entering, TriedOK
<1>2. NeededOK(s)
    BY DEF Entering, NeededOK
<1> QED BY <1>1, <1>2 DEF Entering, SearchOK

(* An integer level comes first if it is the highest.                      *)
LEMMA FirstIsHighest ==
    ASSUME NEW g, NEW S, S \subseteq {Priority[r] : r \in Rule}, NEW p \in S,
           IsFirstLevel(g, p, S), WholePriorities
    PROVE  \A o \in S \ {p} : o < p
<1> SUFFICES ASSUME NEW o \in S \ {p} PROVE o < p
    OBVIOUS
<1>1. o \in Nat /\ p \in Nat
    BY ConstantsAssumption
<1>2. IsWhole(o) /\ IsWhole(p)
    BY DEF WholePriorities
<1>3. VisitedBefore(g, p, o)
    BY DEF IsFirstLevel
<1>4. p > o
    BY <1>2, <1>3, Zenon DEF VisitedBefore
<1> QED BY <1>1, <1>4

(* The search asks every rule of the level that is not complete.           *)
LEMMA EnterFirst ==
    ASSUME TypeOK, NEW s \in Search, NEW S, NEW p \in S, Entering(s, S),
           IsFirstLevel(s.from, p, S),
           NEW t \in Search, t.from = s.from, t.horizon = s.horizon,
           t.matched = s.matched, t.refused = s.refused, t.chosen = s.chosen,
           t.level = p, t.left = S \ {p}, t.trying = Asked(s.from, p),
           NEW x \in {"matching", "filtering"}, x = "filtering" => Asked(s.from, p) = {}
    PROVE  SearchOK(t, x)
<1>1. \A i : At(t, i) = At(s, i) /\ LevelAt(t, i) = LevelAt(s, i)
    BY DEF At, LevelAt
<1>2. \A i \in DOMAIN sets[s.from] :
          LevelAt(s, i) = p => (i \in Asked(s.from, p) <=> ~IsComplete(At(s, i)))
    BY DEF Asked, Positions, At, LevelAt
<1>3. \A i \in Asked(s.from, p) : i \in DOMAIN sets[s.from] /\ LevelAt(s, i) = p
    BY DEF Asked, Positions, At, LevelAt
<1>4. 1..s.horizon \subseteq DOMAIN sets[s.from]
  <2>1. s.horizon \in Nat /\ sets[s.from] \in Seq(Rule)
      BY DEF Search, TypeOK
  <2> QED BY <2>1 DEF Entering
<1>5. TriedOK(t)
    BY <1>1, <1>3 DEF Entering, TriedOK
<1>6. NeededOK(t)
  <2> SUFFICES ASSUME NEW i \in 1..s.horizon, i \notin s.refused, i \notin Asked(s.from, p),
                      LevelAt(s, i) \notin S \ {p}
               PROVE  ~Incomplete(At(s, i))
      BY <1>1 DEF NeededOK
  <2>1. CASE LevelAt(s, i) = p
      BY <1>2, <1>4, <2>1 DEF Incomplete
  <2>2. CASE LevelAt(s, i) # p
      BY <2>2 DEF Entering
  <2> QED BY <2>1, <2>2
<1>7. AskedOK(t)
    BY <1>1, <1>2, <1>4 DEF AskedOK
<1>8. DescendsOK(t)
    BY FirstIsHighest DEF DescendsOK, Entering
<1>9. \A i : Excused(s, i) => Excused(t, i)
    BY <1>1 DEF Excused
<1>10. ExcusedBefore(t, t.left \cup {t.level})
    BY <1>1, <1>9 DEF Entering, ExcusedBefore
<1> QED BY <1>5, <1>6, <1>7, <1>8, <1>10 DEF SearchOK

(* A rule of the level that is left behind is excused by the last that     *)
(* matched: it matched itself, or it is complete.                          *)
LEMMA LevelExcused ==
    ASSUME TypeOK, NEW s \in Search, SearchOK(s, "filtering"), s.chosen = NoRule,
           \A i \in s.matched \cap Positions(s.from, s.level) :
               (\A j \in s.matched \cap Positions(s.from, s.level) : i >= j) =>
                   IsComplete(At(s, i))
    PROVE  Entering(s, s.left)
<1>1. /\ TriedOK(s) /\ NeededOK(s) /\ AskedOK(s) /\ s.trying = {}
      /\ ExcusedBefore(s, s.left \cup {s.level})
    BY DEF SearchOK
<1>2. /\ s.from \in Generation /\ sets[s.from] \in Seq(Rule)
      /\ 1..s.horizon \subseteq DOMAIN sets[s.from]
      /\ \A i \in DOMAIN sets[s.from] : At(s, i) \in Rule /\ LevelAt(s, i) \in Nat
    BY <1>1, AtTyped
<1>3. \A i \in (1..s.horizon) \ s.refused : LevelAt(s, i) \notin s.left => ~Incomplete(At(s, i))
    BY <1>1, <1>2, ConstantsAssumption DEF NeededOK
<1>4. ASSUME NEW i \in (1..s.horizon) \ s.refused, LevelAt(s, i) = s.level PROVE Excused(s, i)
  <2> DEFINE here == s.matched \cap Positions(s.from, s.level)
  <2>1. i \in Positions(s.from, s.level)
      BY <1>2, <1>4 DEF Positions, LevelAt, At
  <2>2. CASE IsComplete(At(s, i))
    <3>1. i \in Int
        OBVIOUS
    <3> QED BY <1>4, <2>1, <2>2, <3>1 DEF Excused
  <2>3. CASE ~IsComplete(At(s, i))
    <3>1. i \in here
        BY <1>1, <1>4, <2>1, <2>3 DEF AskedOK
    <3>2. here \subseteq 1..Len(sets[s.from]) /\ Len(sets[s.from]) \in Nat
        BY <1>2 DEF Positions
    <3>3. PICK m \in here : \A j \in here : m >= j
        BY <3>1, <3>2, LastOfPositions
    <3>4. IsComplete(At(s, m)) /\ m >= i
        BY <3>1, <3>3
    <3>5. m \notin s.refused
        BY <1>1, <3>3 DEF TriedOK
    <3>6. m \in Positions(s.from, LevelAt(s, i))
        BY <1>4, <3>3
    <3> QED BY <3>4, <3>5, <3>6 DEF Excused
  <2> QED BY <2>2, <2>3
<1>5. ExcusedBefore(s, s.left)
    BY <1>1, <1>4 DEF ExcusedBefore
<1> QED BY <1>1, <1>3, <1>5 DEF Entering, TriedOK

(* A match or mismatch is read at position i of the level.                 *)
LEMMA ReadKeeps ==
    ASSUME TypeOK, NEW s \in Search, SearchOK(s, "matching"), s.chosen = NoRule,
           NEW i \in s.trying,
           NEW t \in Search, t.from = s.from, t.horizon = s.horizon, t.level = s.level,
           t.left = s.left, t.trying = s.trying \ {i},
           \/ t.matched = s.matched \cup {i} /\ t.refused = s.refused
           \/ t.matched = s.matched /\ t.refused = s.refused \cup {i},
           i \in t.refused \/ ~Incomplete(At(s, i)) \/ At(s, i) = t.chosen
    PROVE  /\ TriedOK(t) /\ NeededOK(t) /\ AskedOK(t) /\ DescendsOK(t)
           /\ ExcusedBefore(t, t.left \cup {t.level})
<1>1. \A j : At(t, j) = At(s, j) /\ LevelAt(t, j) = LevelAt(s, j)
    BY DEF At, LevelAt
<1>2. /\ TriedOK(s) /\ NeededOK(s) /\ AskedOK(s) /\ DescendsOK(s)
      /\ ExcusedBefore(s, s.left \cup {s.level})
    BY DEF SearchOK
<1>3. /\ 1..s.horizon \subseteq DOMAIN sets[s.from]
      /\ \A j \in DOMAIN sets[s.from] : At(s, j) \in Rule
    BY <1>2, AtTyped
<1>4. LevelAt(s, i) = s.level /\ i \notin s.matched \cup s.refused
    BY <1>2 DEF TriedOK
<1>5. TriedOK(t)
    BY <1>1, <1>2 DEF TriedOK
<1>6. NeededOK(t)
  <2> SUFFICES ASSUME NEW j \in 1..s.horizon, j \notin t.refused, j \notin t.trying,
                      LevelAt(s, j) \notin s.left
               PROVE  ~Incomplete(At(s, j)) \/ At(s, j) = t.chosen
      BY <1>1 DEF NeededOK
  <2>1. CASE j = i
      BY <2>1
  <2>2. CASE j # i
    <3>1. ~Incomplete(At(s, j)) \/ At(s, j) = NoRule
        BY <1>2, <2>2 DEF NeededOK
    <3> QED BY <1>3, <3>1, ConstantsAssumption
  <2> QED BY <2>1, <2>2
<1>7. AskedOK(t)
    BY <1>1, <1>2 DEF AskedOK
<1>8. ExcusedBefore(t, t.left \cup {t.level})
  <2> SUFFICES ASSUME NEW j \in (1..s.horizon) \ t.refused,
                      LevelAt(s, j) \notin s.left \cup {s.level}
               PROVE  Excused(t, j)
      BY <1>1 DEF ExcusedBefore
  <2>1. Excused(s, j)
      BY <1>2 DEF ExcusedBefore
  <2>2. PICK k \in Positions(s.from, LevelAt(s, j)) \ s.refused : k >= j /\ IsComplete(At(s, k))
      BY <2>1 DEF Excused
  <2>3. k # i
      BY <1>4, <2>2 DEF Positions, LevelAt, At
  <2> QED BY <1>1, <2>2, <2>3 DEF Excused
<1> QED BY <1>2, <1>5, <1>6, <1>7, <1>8 DEF DescendsOK

(* The loop goes on after position i.                                      *)
LEMMA ReadOn ==
    ASSUME TypeOK, NEW s \in Search, SearchOK(s, "matching"), s.chosen = NoRule,
           NEW i \in s.trying,
           NEW t \in Search, t.from = s.from, t.horizon = s.horizon, t.level = s.level,
           t.left = s.left, t.trying = s.trying \ {i}, t.chosen = NoRule,
           \/ t.matched = s.matched \cup {i} /\ t.refused = s.refused /\ ~Incomplete(At(s, i))
           \/ t.matched = s.matched /\ t.refused = s.refused \cup {i},
           NEW x \in {"matching", "filtering"}, x = "filtering" => s.trying = {i}
    PROVE  SearchOK(t, x)
<1>1. i \in t.refused \/ ~Incomplete(At(s, i))
    OBVIOUS
<1>2. /\ TriedOK(t) /\ NeededOK(t) /\ AskedOK(t) /\ DescendsOK(t)
      /\ ExcusedBefore(t, t.left \cup {t.level})
    BY <1>1, ReadKeeps
<1>3. x = "filtering" => t.trying = {}
    OBVIOUS
<1> QED BY <1>2, <1>3 DEF SearchOK

(* The rule at i is chosen in the loop.                                    *)
LEMMA ReadTaken ==
    ASSUME TypeOK, NEW s \in Search, SearchOK(s, "matching"), s.chosen = NoRule,
           NEW i \in s.trying,
           NEW t \in Search, t.from = s.from, t.horizon = s.horizon, t.level = s.level,
           t.left = s.left, t.trying = s.trying \ {i}, t.chosen = At(s, i),
           t.matched = s.matched \cup {i}, t.refused = s.refused
    PROVE  SearchOK(t, "returned")
<1>1. /\ TriedOK(t) /\ NeededOK(t) /\ DescendsOK(t)
      /\ ExcusedBefore(t, t.left \cup {t.level})
    BY ReadKeeps
<1>2. /\ i \in DOMAIN sets[s.from] /\ LevelAt(s, i) = s.level
      /\ At(s, i) \in Rule
    BY AtTyped DEF SearchOK, TriedOK
<1>3. t.chosen \in RulesOf(t.from) /\ Priority[t.chosen] = t.level
    BY <1>2 DEF RulesOf, At, LevelAt
<1>4. t.chosen # NoRule
    BY <1>2, ConstantsAssumption
<1> QED BY <1>1, <1>3, <1>4 DEF SearchOK

(* The last rule of the level that matched is chosen.                      *)
LEMMA LastTaken ==
    ASSUME TypeOK, NEW s \in Search, SearchOK(s, "filtering"), s.chosen = NoRule,
           NEW i \in s.matched \cap Positions(s.from, s.level),
           NEW t \in Search, t.from = s.from, t.horizon = s.horizon, t.level = s.level,
           t.left = s.left, t.trying = s.trying, t.chosen = At(s, i),
           t.matched = s.matched, t.refused = s.refused
    PROVE  SearchOK(t, "returned")
<1>1. \A j : At(t, j) = At(s, j) /\ LevelAt(t, j) = LevelAt(s, j)
    BY DEF At, LevelAt
<1>2. /\ TriedOK(s) /\ NeededOK(s) /\ DescendsOK(s)
      /\ ExcusedBefore(s, s.left \cup {s.level})
    BY DEF SearchOK
<1>3. /\ 1..s.horizon \subseteq DOMAIN sets[s.from]
      /\ \A j \in DOMAIN sets[s.from] : At(s, j) \in Rule
    BY <1>2, AtTyped
<1>4. i \in DOMAIN sets[s.from] /\ LevelAt(s, i) = s.level
    BY DEF Positions, LevelAt, At
<1>5. TriedOK(t)
    BY <1>1, <1>2 DEF TriedOK
<1>6. NeededOK(t)
  <2>1. \A j \in 1..s.horizon : At(s, j) # NoRule
      BY <1>3, ConstantsAssumption
  <2> QED BY <1>1, <1>2, <2>1 DEF NeededOK
<1>7. ExcusedBefore(t, t.left \cup {t.level})
    BY <1>1, <1>2 DEF ExcusedBefore, Excused
<1>8. t.chosen \in RulesOf(t.from) /\ Priority[t.chosen] = t.level
    BY <1>4 DEF RulesOf, At, LevelAt
<1>9. t.chosen # NoRule
    BY <1>3, <1>4, ConstantsAssumption
<1> QED BY <1>2, <1>5, <1>6, <1>7, <1>8, <1>9 DEF SearchOK, DescendsOK


-----------------------------------------------------------------------------
(* One request moves to search t, in phase x; counts may grow.             *)
LEMMA OwnStep ==
    ASSUME TypeOK, TypeOK', SearchesOK, NEW q \in Request, NEW t \in Search, NEW x,
           phase' = [phase EXCEPT ![q] = x], search' = [search EXCEPT ![q] = t],
           sets' = sets, \A r \in Rule : count[r] <= count'[r],
           x \in Searching => SearchOK(t, x)
    PROVE  SearchesOK'
<1>1. count' \in [Rule -> Nat] /\ search' \in [Request -> Search]
    BY DEF TypeOK
<1> SUFFICES ASSUME NEW o \in Request, NEW s \in Search, s = search'[o],
                    NEW y \in Searching, y = phase'[o]
             PROVE  SearchOK(s, y)'
    BY <1>1 DEF SearchesOK
<1>2. SearchOK(s, y)
    BY DEF SearchesOK, TypeOK
<1>3. sets'[s.from] \in Seq(Rule) /\ Len(sets[s.from]) <= Len(sets'[s.from])
    BY DEF TypeOK, Search
<1> QED BY <1>1, <1>2, <1>3, OthersKeepRight

(* Rules are added or replaced; the searches keep the objects they have.   *)
LEMMA ConfigureKeepsRight ==
    ASSUME TypeOK, TypeOK', SearchesOK, UNCHANGED <<count, phase, search>>,
           \A q \in Request :
               /\ Len(sets[search[q].from]) <= Len(sets'[search[q].from])
               /\ \A i \in DOMAIN sets[search[q].from] :
                      sets'[search[q].from][i] = sets[search[q].from][i]
    PROVE  SearchesOK'
<1> SUFFICES ASSUME NEW o \in Request, NEW s \in Search, s = search'[o],
                    NEW y \in Searching, y = phase'[o]
             PROVE  SearchOK(s, y)'
    BY DEF SearchesOK, TypeOK
<1>1. s = search[o] /\ y = phase[o]
    OBVIOUS
<1>2. SearchOK(s, y)
    BY <1>1 DEF SearchesOK
<1>3. /\ sets'[s.from] \in Seq(Rule)
      /\ Len(sets[s.from]) <= Len(sets'[s.from])
      /\ \A i \in DOMAIN sets[s.from] : sets'[s.from][i] = sets[s.from][i]
    BY <1>1 DEF TypeOK, Search
<1>4. count' \in [Rule -> Nat] /\ \A r \in Rule : count[r] <= count'[r]
    BY DEF TypeOK
<1> QED BY <1>2, <1>3, <1>4, OthersKeepRight

LEMMA SetRulesRight ==
    ASSUME IInv, IInv', SearchesOK, NEW s \in Seq(Rule), SetRules(s)
    PROVE  SearchesOK'
<1>1. \A q \in Request : sets'[search[q].from] = sets[search[q].from]
  <2> SUFFICES ASSUME NEW q \in Request PROVE sets'[search[q].from] = sets[search[q].from]
      OBVIOUS
  <2>1. search[q].from \in Generation /\ search[q].from <= gen
      BY DEF IInv, TypeOK, Search, PositionsOK
  <2>2. gen \in Nat /\ search[q].from \in Nat /\ search[q].from # gen + 1
      BY <2>1 DEF IInv, TypeOK, Generation
  <2> QED BY <2>1, <2>2 DEF SetRules, IInv, TypeOK
<1>2. \A q \in Request : Len(sets[search[q].from]) <= Len(sets'[search[q].from])
  <2> SUFFICES ASSUME NEW q \in Request
               PROVE  Len(sets[search[q].from]) <= Len(sets'[search[q].from])
      OBVIOUS
  <2>1. sets[search[q].from] \in Seq(Rule)
      BY DEF IInv, TypeOK, Search
  <2> QED BY <1>1, <2>1
<1> QED BY <1>1, <1>2, ConfigureKeepsRight DEF IInv, SetRules

LEMMA AddRulesRight ==
    ASSUME IInv, IInv', SearchesOK, NEW s \in Seq(Rule), AddRules(s)
    PROVE  SearchesOK'
<1>1. ASSUME NEW g \in Generation
      PROVE  /\ Len(sets[g]) <= Len(sets'[g])
             /\ \A i \in DOMAIN sets[g] : sets'[g][i] = sets[g][i]
  <2>1. sets[g] \in Seq(Rule)
      BY DEF IInv, TypeOK
  <2>2. sets'[g] = sets[g] \/ sets'[g] = sets[g] \o s
      BY DEF AddRules, IInv, TypeOK
  <2>3. CASE sets'[g] = sets[g]
      BY <2>1, <2>3
  <2>4. CASE sets'[g] = sets[g] \o s
      BY <2>1, <2>4
  <2> QED BY <2>2, <2>3, <2>4
<1>2. \A q \in Request : search[q].from \in Generation
    BY DEF IInv, TypeOK, Search
<1> QED BY <1>1, <1>2, ConfigureKeepsRight DEF IInv, AddRules

LEMMA RejectedRight ==
    ASSUME IInv, IInv', SearchesOK, SetRulesRejected
    PROVE  SearchesOK'
<1>1. \A q \in Request : sets[search[q].from] \in Seq(Rule) /\ sets' = sets
    BY DEF IInv, TypeOK, Search, SetRulesRejected
<1>2. \A q \in Request : Len(sets[search[q].from]) <= Len(sets[search[q].from])
    BY <1>1
<1> QED BY <1>1, <1>2, ConfigureKeepsRight DEF IInv, SetRulesRejected

(* A request that enters the first of the levels S is right, if it was     *)
(* right to enter them.                                                    *)
LEMMA EnterLevelRight ==
    ASSUME TypeOK, TypeOK', SearchesOK, NEW q \in Request, NEW s \in Search,
           NEW S \in SUBSET Nat, Entering(s, S), S = {} => s.left = {},
           EnterLevel(q, s, S), UNCHANGED <<ruleVars, count>>
    PROVE  SearchesOK'
<1>1. sets' = sets /\ \A r \in Rule : count[r] <= count'[r]
    BY DEF TypeOK, ruleVars
<1>2. CASE S = {} /\ phase' = [phase EXCEPT ![q] = "returned"]
                  /\ search' = [search EXCEPT ![q] = s]
    BY <1>1, <1>2, EnterNone, OwnStep
<1>3. ASSUME NEW p \in S, IsFirstLevel(s.from, p, S),
             phase' = [phase EXCEPT ![q] =
                 IF Asked(s.from, p) = {} THEN "filtering" ELSE "matching"],
             search' = [search EXCEPT ![q] = AtLevel(s, p, S)]
      PROVE  SearchesOK'
  <2> DEFINE x == IF Asked(s.from, p) = {} THEN "filtering" ELSE "matching"
  <2>1. PICK t \in Search : t = AtLevel(s, p, S)
    <3>1. search'[q] = AtLevel(s, p, S) /\ search'[q] \in Search
        BY <1>3 DEF TypeOK
    <3> QED BY <3>1
  <2>2. /\ t.from = s.from /\ t.horizon = s.horizon
        /\ t.matched = s.matched /\ t.refused = s.refused /\ t.chosen = s.chosen
        /\ t.level = p /\ t.left = S \ {p} /\ t.trying = Asked(s.from, p)
      BY <2>1 DEF AtLevel, Search
  <2>3. x \in {"matching", "filtering"} /\ (x = "filtering" => Asked(s.from, p) = {})
      OBVIOUS
  <2>4. phase' = [phase EXCEPT ![q] = x] /\ search' = [search EXCEPT ![q] = t]
      BY <1>3, <2>1
  <2> HIDE DEF x
  <2>5. SearchOK(t, x)
      BY <1>3, <2>2, <2>3, EnterFirst
  <2> QED BY <1>1, <2>4, <2>5, OwnStep
<1> QED BY <1>2, <1>3, Zenon DEF EnterLevel

LEMMA ArriveRight ==
    ASSUME IInv, IInv', SearchesOK, NEW q \in Request, Arrive(q)
    PROVE  SearchesOK'
<1>1. gen \in Generation /\ sets[gen] \in Seq(Rule)
    BY DEF IInv, TypeOK
<1>2. NewSearch \in Search
    BY <1>1, ConstantsAssumption DEF NewSearch, Search, Generation, Position
<1>3. /\ NewSearch.from = gen /\ NewSearch.horizon = Len(sets[gen]) /\ NewSearch.left = {}
      /\ NewSearch.trying = {} /\ NewSearch.matched = {} /\ NewSearch.refused = {}
      /\ NewSearch.chosen = NoRule
    BY DEF NewSearch
<1>4. \A i \in 1..Len(sets[gen]) : LevelAt(NewSearch, i) \in PrioritiesOf(gen)
    BY <1>1, <1>3 DEF LevelAt, At, PrioritiesOf, RulesOf
<1>5. /\ PrioritiesOf(gen) \subseteq {Priority[r] : r \in Rule}
      /\ PrioritiesOf(gen) \in SUBSET Nat
    BY <1>1, ConstantsAssumption DEF PrioritiesOf, RulesOf
<1>6. Len(sets[gen]) \in Nat
    BY <1>1
<1>7. ExcusedBefore(NewSearch, PrioritiesOf(gen))
    BY <1>3, <1>4 DEF ExcusedBefore
<1>8. Entering(NewSearch, PrioritiesOf(gen))
    BY <1>3, <1>4, <1>5, <1>6, <1>7 DEF Entering
<1> QED BY <1>2, <1>3, <1>5, <1>8, EnterLevelRight DEF Arrive, IInv

LEMMA FallThroughRight ==
    ASSUME IInv, IInv', SearchesOK, NEW q \in Request, FallThrough(q)
    PROVE  SearchesOK'
<1> DEFINE s == search[q]
<1>1. s \in Search /\ s.left \in SUBSET Nat
    BY DEF IInv, TypeOK, Search
<1>2. SearchOK(s, "filtering") /\ s.chosen = NoRule
    BY DEF FallThrough, SearchesOK, Searching, IInv, ChosenOK
<1>3. \A i \in s.matched \cap Positions(s.from, s.level) :
          (\A j \in s.matched \cap Positions(s.from, s.level) : i >= j) => IsComplete(At(s, i))
    BY DEF FallThrough, MatchedHere, IsLastMatched, RuleAt, At
<1>4. EnterLevel(q, s, s.left) /\ UNCHANGED <<ruleVars, count>>
    BY DEF FallThrough
<1> HIDE DEF s
<1>5. Entering(s, s.left)
    BY <1>1, <1>2, <1>3, LevelExcused DEF IInv
<1> QED BY <1>1, <1>4, <1>5, EnterLevelRight DEF IInv


(* The steps of the loop over one level.                                   *)
LEMMA TryRight ==
    ASSUME IInv, IInv', SearchesOK, NEW q \in Request, NEW i \in search[q].trying,
           TakeFirst(q, i) \/ PassOver(q, i) \/ Mismatch(q, i)
    PROVE  SearchesOK'
<1>1. /\ search[q] \in Search /\ phase[q] = "matching"
      /\ sets' = sets /\ \A r \in Rule : count[r] <= count'[r]
    BY DEF TakeFirst, PassOver, Mismatch, IsAwaited, IInv, TypeOK, ruleVars
<1>2. SearchOK(search[q], "matching") /\ search[q].chosen = NoRule
    BY <1>1 DEF SearchesOK, Searching, IInv, ChosenOK
<1> DEFINE s == search[q]
           y == NextTry(q, i)
<1>3. y \in {"matching", "filtering"} /\ (y = "filtering" => s.trying = {i})
    BY DEF NextTry
<1>4. PICK t \in Search : t = search'[q]
    BY DEF IInv, TypeOK
<1>5. CASE TakeFirst(q, i)
  <2>1. t = [AfterMatch(s, i) EXCEPT !.chosen = RuleAt(q, i)]
      BY <1>4, <1>5 DEF TakeFirst, IInv, TypeOK
  <2>2. /\ t.from = s.from /\ t.horizon = s.horizon /\ t.level = s.level /\ t.left = s.left
        /\ t.trying = s.trying \ {i} /\ t.chosen = At(s, i)
        /\ t.matched = s.matched \cup {i} /\ t.refused = s.refused
      BY <1>1, <2>1 DEF AfterMatch, Search, RuleAt, At
  <2>3. SearchOK(t, "returned")
    <3> HIDE DEF s
    <3> QED BY <1>1, <1>2, <2>2, ReadTaken DEF IInv, s
  <2>4. phase' = [phase EXCEPT ![q] = "returned"] /\ search' = [search EXCEPT ![q] = t]
      BY <1>5, <2>1, Zenon DEF TakeFirst
  <2> QED BY <1>1, <2>3, <2>4, OwnStep DEF IInv
<1>6. CASE PassOver(q, i)
  <2>1. t = AfterMatch(s, i) /\ ~Incomplete(At(s, i))
      BY <1>4, <1>6 DEF PassOver, IInv, TypeOK, RuleAt, At
  <2>2. /\ t.from = s.from /\ t.horizon = s.horizon /\ t.level = s.level /\ t.left = s.left
        /\ t.trying = s.trying \ {i} /\ t.chosen = NoRule
        /\ t.matched = s.matched \cup {i} /\ t.refused = s.refused
      BY <1>1, <1>2, <2>1 DEF AfterMatch, Search
  <2>3. SearchOK(t, y)
    <3> HIDE DEF s, y
    <3> QED BY <1>1, <1>2, <1>3, <2>1, <2>2, ReadOn DEF IInv, s
  <2>4. phase' = [phase EXCEPT ![q] = y] /\ search' = [search EXCEPT ![q] = t]
      BY <1>6, <2>1, Zenon DEF PassOver
  <2> HIDE DEF y
  <2> QED BY <1>1, <2>3, <2>4, OwnStep DEF IInv
<1>7. CASE Mismatch(q, i)
  <2>1. t = AfterMismatch(s, i)
      BY <1>4, <1>7 DEF Mismatch, IInv, TypeOK
  <2>2. /\ t.from = s.from /\ t.horizon = s.horizon /\ t.level = s.level /\ t.left = s.left
        /\ t.trying = s.trying \ {i} /\ t.chosen = NoRule
        /\ t.matched = s.matched /\ t.refused = s.refused \cup {i}
      BY <1>1, <1>2, <2>1 DEF AfterMismatch, Search
  <2>3. SearchOK(t, y)
    <3> HIDE DEF s, y
    <3> QED BY <1>1, <1>2, <1>3, <2>2, ReadOn DEF IInv, s
  <2>4. phase' = [phase EXCEPT ![q] = y] /\ search' = [search EXCEPT ![q] = t]
      BY <1>7, <2>1, Zenon DEF Mismatch
  <2> HIDE DEF y
  <2> QED BY <1>1, <2>3, <2>4, OwnStep DEF IInv
<1> QED BY <1>5, <1>6, <1>7

LEMMA TakeLastRight ==
    ASSUME IInv, IInv', SearchesOK, NEW q \in Request, NEW i \in MatchedHere(q), TakeLast(q, i)
    PROVE  SearchesOK'
<1> DEFINE s == search[q]
<1>1. /\ s \in Search /\ phase[q] = "filtering"
      /\ sets' = sets /\ \A r \in Rule : count[r] <= count'[r]
    BY DEF TakeLast, IInv, TypeOK, ruleVars
<1>2. SearchOK(s, "filtering") /\ s.chosen = NoRule
    BY <1>1 DEF SearchesOK, Searching, IInv, ChosenOK
<1>3. PICK t \in Search : t = search'[q]
    BY DEF IInv, TypeOK
<1>4. t = [s EXCEPT !.chosen = RuleAt(q, i)]
    BY <1>3 DEF TakeLast, IInv, TypeOK
<1>5. /\ t.from = s.from /\ t.horizon = s.horizon /\ t.level = s.level /\ t.left = s.left
      /\ t.trying = s.trying /\ t.chosen = At(s, i)
      /\ t.matched = s.matched /\ t.refused = s.refused
    BY <1>1, <1>4 DEF Search, RuleAt, At
<1>6. i \in s.matched \cap Positions(s.from, s.level)
    BY DEF MatchedHere
<1>7. phase' = [phase EXCEPT ![q] = "returned"] /\ search' = [search EXCEPT ![q] = t]
    BY <1>3 DEF TakeLast, IInv, TypeOK
<1>8. SearchOK(t, "returned")
  <2> HIDE DEF s
  <2> QED BY <1>1, <1>2, <1>5, <1>6, LastTaken DEF IInv
<1> QED BY <1>1, <1>7, <1>8, OwnStep DEF IInv

(* A request that ends has no search; others may find its rule complete.   *)
LEMMA SettleRight ==
    ASSUME IInv, IInv', SearchesOK, NEW q \in Request,
           \/ \E i \in search[q].trying : MatcherFails(q, i)
           \/ Handle(q)
           \/ SendUnmatchedRequestError(q)
    PROVE  SearchesOK'
<1>1. PICK x \in {"failed", "handled", "unmatched"} : Settle(q, x)
    BY DEF MatcherFails, Handle, SendUnmatchedRequestError
<1>2. sets' = sets
    BY DEF MatcherFails, Handle, SendUnmatchedRequestError, ruleVars
<1>3. count' = count \/ \E r \in Rule : count' = [count EXCEPT ![r] = @ + 1]
  <2>1. Handle(q) => search[q].chosen \in Rule
      BY DEF Handle, IInv, TypeOK, Search
  <2> QED BY <2>1 DEF MatcherFails, Handle, SendUnmatchedRequestError
<1>4. \A r \in Rule : count[r] <= count'[r]
  <2> SUFFICES ASSUME NEW r \in Rule PROVE count[r] <= count'[r]
      OBVIOUS
  <2>1. count \in [Rule -> Nat] /\ count[r] \in Nat
      BY DEF IInv, TypeOK
  <2>2. count'[r] = count[r] \/ count'[r] = count[r] + 1
      BY <1>3, <2>1
  <2> QED BY <2>1, <2>2
<1>5. NoSearch \in Search
    BY ConstantsAssumption DEF NoSearch, Search, Generation
<1>6. x \notin Searching
    BY <1>1 DEF Searching
<1> QED BY <1>1, <1>2, <1>4, <1>5, <1>6, OwnStep DEF IInv, Settle

LEMMA NextRight == IInv /\ SearchesOK /\ [Next]_vars => SearchesOK'
<1> SUFFICES ASSUME IInv, IInv', SearchesOK, [Next]_vars PROVE SearchesOK'
    BY NextIInv
<1>1. CASE Configure
  <2>1. <<>> \in Seq(Rule)
      OBVIOUS
  <2> QED BY <1>1, <2>1, BatchIsSeq, SetRulesRight, AddRulesRight, RejectedRight
          DEF Configure, Reset
<1>2. ASSUME NEW q \in Request, Arrive(q) PROVE SearchesOK'
    BY <1>2, ArriveRight
<1>3. ASSUME NEW q \in Request, Resume(q) PROVE SearchesOK'
    BY <1>3, TryRight, TakeLastRight, SettleRight, FallThroughRight DEF Resume
<1>4. CASE UNCHANGED vars
  <2>1. \A q \in Request : Len(sets[search[q].from]) <= Len(sets[search[q].from])
    <3>1. \A q \in Request : sets[search[q].from] \in Seq(Rule)
        BY DEF IInv, TypeOK, Search
    <3> QED BY <3>1
  <2> QED BY <1>4, <2>1, ConfigureKeepsRight DEF vars, IInv
<1> QED BY <1>1, <1>2, <1>3, <1>4 DEF Next

LEMMA SearchesAlwaysOK == Spec => [](IInv /\ SearchesOK)
<1>1. Init => SearchesOK
    BY DEF Init, SearchesOK, Searching
<1> QED BY <1>1, InitIInv, NextIInv, NextRight, PTL DEF Spec

(***************************************************************************)
(* Whatever other requests and configuration calls do during a search, a   *)
(* rule that matched and still owed a response is not passed over: for any *)
(* rules, any priorities and any number of requests.                       *)
(***************************************************************************)
THEOREM MatchingNeededNotPassedOver == Spec => []NeededRuleNotPassedOver
<1>1. IInv /\ SearchesOK => NeededRuleNotPassedOver
    BY DEF SearchesOK, SearchOK, NeededOK, NeededRuleNotPassedOver, Decided, RuleAt, At, LevelAt,
           Searching
<1> QED BY <1>1, SearchesAlwaysOK, PTL

(***************************************************************************)
(* With integer priorities, the rule that is chosen is the one that should *)
(* be: no needed rule is passed over, and a rule of a higher priority that *)
(* is not chosen is complete, or followed by one of its level that is.     *)
(***************************************************************************)
THEOREM MatchingRightRuleChosen ==
    ASSUME WholePriorities
    PROVE  Spec => []RightRuleChosen
<1>1. IInv /\ SearchesOK => PriorityRespected
  <2> SUFFICES ASSUME IInv, SearchesOK, NEW q \in Request, phase[q] = "returned",
                      NEW i \in Candidate(q)
               PROVE  \/ search[q].chosen # NoRule
                            /\ LevelAt(search[q], i) <= Priority[search[q].chosen]
                      \/ Excused(search[q], i)
      BY DEF PriorityRespected, RuleAt, LevelAt, At, Excused
  <2> DEFINE s == search[q]
  <2>1. s \in Search /\ SearchOK(s, "returned") /\ i \in (1..s.horizon) \ s.refused
      BY DEF SearchesOK, Searching, Candidate, IInv, TypeOK
  <2> HIDE DEF s
  <2>2. CASE s.chosen = NoRule
      BY <2>1, <2>2 DEF SearchOK, ExcusedBefore, s
  <2>3. CASE s.chosen # NoRule
    <3>1. /\ DescendsOK(s) /\ ExcusedBefore(s, s.left \cup {s.level})
          /\ Priority[s.chosen] = s.level
        BY <2>1, <2>3 DEF SearchOK
    <3>2. s.level \in Nat /\ LevelAt(s, i) \in Nat
        BY <2>1, AtTyped DEF SearchOK, IInv, Search
    <3>3. Excused(s, i) \/ LevelAt(s, i) <= s.level
        BY <2>1, <3>1, <3>2 DEF ExcusedBefore, DescendsOK
    <3> QED BY <2>3, <3>1, <3>3 DEF s
  <2> QED BY <2>2, <2>3
<1>2. IInv /\ SearchesOK => RightRuleChosen
  <2>1. SearchesOK => NeededRuleNotPassedOver
      BY DEF SearchesOK, SearchOK, NeededOK, NeededRuleNotPassedOver, Decided, RuleAt, At,
             LevelAt, Searching
  <2> QED BY <1>1, <2>1 DEF RightRuleChosen
<1> QED BY <1>2, SearchesAlwaysOK, PTL

-----------------------------------------------------------------------------
LEMMA NextDisposed == IInv /\ DisposedOK /\ [Next]_vars => DisposedOK'
<1> SUFFICES ASSUME IInv, DisposedOK, [Next]_vars PROVE DisposedOK'
    OBVIOUS
<1>0. gen \in Generation /\ gen \in Nat /\ sets \in [Generation -> Seq(Rule)]
    BY DEF IInv, TypeOK, Generation
<1>1. ASSUME NEW s \in Seq(Rule), SetRules(s) PROVE DisposedOK'
  <2>1. PICK h \in Generation : h = gen + 1 /\ gen' = h
      BY <1>0, <1>1, ConstantsAssumption DEF SetRules, Generation
  <2>2. \A g \in 0..gen : g \in Generation /\ g # h
      BY <1>0, <2>1, ConstantsAssumption DEF Generation
  <2>3. sets'[h] = s /\ \A g \in 0..gen : sets'[g] = sets[g]
      BY <1>0, <1>1, <2>1, <2>2 DEF SetRules
  <2>4. RulesOf(h)' = {s[i] : i \in DOMAIN s} /\ \A g \in 0..gen : RulesOf(g)' = RulesOf(g)
      BY <2>3 DEF RulesOf
  <2>5. \A r \in disposed' : \E g \in 0..gen : r \in RulesOf(g)
      BY <1>0, <1>1 DEF SetRules, DisposedOK
  <2>6. \A i \in DOMAIN s : \A g \in 0..gen : s[i] \notin RulesOf(g)
      BY <1>1, <2>2 DEF SetRules, Fresh
  <2>7. \A g \in 0..gen : g \in 0..h
      BY <1>0, <2>1
  <2>8. RulesOf(h)' \cap disposed' = {}
      BY <2>4, <2>5, <2>6
  <2>9. \A r \in disposed' : \E g \in 0..h : r \in RulesOf(g)'
      BY <2>4, <2>5, <2>7
  <2> QED BY <2>1, <2>8, <2>9 DEF DisposedOK, RulesOf
<1>2. CASE SetRulesRejected
    BY <1>0, <1>2 DEF SetRulesRejected, DisposedOK, RulesOf
<1>3. ASSUME NEW s \in Seq(Rule), AddRules(s) PROVE DisposedOK'
  <2>1. sets[gen] \in Seq(Rule)
      BY <1>0
  <2>2. RulesOf(gen)' = RulesOf(gen) \cup {s[i] : i \in DOMAIN s}
    <3>1. sets'[gen] = sets[gen] \o s /\ gen' = gen
        BY <1>0, <1>3 DEF AddRules
    <3>2. {(sets[gen] \o s)[i] : i \in DOMAIN (sets[gen] \o s)}
              = {sets[gen][i] : i \in DOMAIN sets[gen]} \cup {s[i] : i \in DOMAIN s}
      <4> DEFINE u == sets[gen]
      <4>1. u \in Seq(Rule)
          BY <2>1
      <4> HIDE DEF u
      <4>2. ASSUME NEW i \in DOMAIN (u \o s)
            PROVE  (u \o s)[i] \in {u[j] : j \in DOMAIN u} \cup {s[j] : j \in DOMAIN s}
        <5>1. CASE i <= Len(u)
            BY <4>1, <4>2, <5>1
        <5>2. CASE i > Len(u)
          <6>1. i - Len(u) \in DOMAIN s /\ (u \o s)[i] = s[i - Len(u)]
              BY <4>1, <4>2, <5>2
          <6> QED BY <6>1
        <5> QED BY <4>1, <5>1, <5>2
      <4>3. ASSUME NEW j \in DOMAIN u PROVE u[j] \in {(u \o s)[i] : i \in DOMAIN (u \o s)}
        <5>1. j \in DOMAIN (u \o s) /\ (u \o s)[j] = u[j]
            BY <4>1
        <5> QED BY <5>1
      <4>4. ASSUME NEW j \in DOMAIN s PROVE s[j] \in {(u \o s)[i] : i \in DOMAIN (u \o s)}
        <5>1. Len(u) + j \in DOMAIN (u \o s) /\ (u \o s)[Len(u) + j] = s[j]
            BY <4>1
        <5> QED BY <5>1
      <4> QED BY <4>2, <4>3, <4>4 DEF u
    <3> QED BY <3>1, <3>2 DEF RulesOf
  <2>3. \A g \in 0..gen : RulesOf(g) \subseteq RulesOf(g)'
    <3>1. \A g \in 0..gen : g \in Generation
        BY <1>0, ConstantsAssumption DEF Generation
    <3>2. \A g \in 0..gen : g # gen => sets'[g] = sets[g]
        BY <1>0, <1>3, <3>1 DEF AddRules
    <3>3. gen' = gen
        BY <1>3 DEF AddRules
    <3>4. \A g \in 0..gen : g # gen => RulesOf(g)' = RulesOf(g)
        BY <3>2 DEF RulesOf
    <3>5. \A g : g = gen => RulesOf(g)' = RulesOf(gen)'
        BY <3>3 DEF RulesOf
    <3> QED BY <2>2, <3>4, <3>5
  <2>4. \A i \in DOMAIN s : s[i] \notin disposed
    <3>1. \A i \in DOMAIN s : \A g \in 0..gen : s[i] \notin RulesOf(g)
      <4>1. 0..gen \subseteq Generation
          BY <1>0, ConstantsAssumption DEF Generation
      <4> QED BY <1>3, <4>1 DEF AddRules, Fresh
    <3> QED BY <3>1 DEF DisposedOK
  <2> QED BY <1>3, <2>2, <2>3, <2>4 DEF AddRules, DisposedOK
<1>4. CASE UNCHANGED ruleVars
    BY <1>4 DEF ruleVars, DisposedOK, RulesOf
<1>5. ASSUME NEW q \in Request, Arrive(q) \/ Resume(q) PROVE UNCHANGED ruleVars
    BY <1>5 DEF Arrive, Resume, TakeFirst, PassOver, Mismatch, MatcherFails, TakeLast,
                FallThrough, Handle, SendUnmatchedRequestError
<1>6. UNCHANGED vars => UNCHANGED ruleVars
    BY DEF vars, ruleVars
<1>7. <<>> \in Seq(Rule)
    OBVIOUS
<1> QED BY <1>1, <1>2, <1>3, <1>4, <1>5, <1>6, <1>7, BatchIsSeq DEF Next, Configure, Reset

(***************************************************************************)
(* A request is given a disposed rule only across a replacement of the     *)
(* rules, or after one that was rejected half done.                        *)
(***************************************************************************)
THEOREM MatchingDisposedOnlyAcrossReplacement == Spec => []DisposedOnlyAcrossReplacement
<1>1. Init => DisposedOK
    BY DEF Init, DisposedOK, RulesOf
<1>2. Spec => []DisposedOK
    BY <1>1, InitIInv, NextIInv, NextDisposed, PTL DEF Spec
<1>3. IInv /\ SearchesOK /\ DisposedOK => DisposedOnlyAcrossReplacement
  <2> SUFFICES ASSUME IInv, SearchesOK, DisposedOK, NEW q \in Request, phase[q] = "returned",
                      search[q].chosen \in disposed, search[q].from = gen, gen \notin rejected
               PROVE  FALSE
      BY DEF DisposedOnlyAcrossReplacement
  <2>1. search[q].chosen # NoRule
      BY ConstantsAssumption DEF IInv, TypeOK
  <2>2. search[q].chosen \in RulesOf(gen)
      BY <2>1 DEF SearchesOK, Searching, SearchOK
  <2> QED BY <2>2 DEF DisposedOK
<1> QED BY <1>2, <1>3, SearchesAlwaysOK, PTL

-----------------------------------------------------------------------------
(* Matchers, for any names, ports, paths, parameters and bodies.           *)

\* A URL as a request has it when it arrived: no default port is written.
IsRequestUrl(r) ==
    /\ r.scheme \in Http \cup WebSocket
    /\ r.port \in Nat
    /\ r.port # DefaultOf(r.scheme)

LEMMA HostMatchersSay ==
    ASSUME NEW r, IsRequestUrl(r), NEW name, NEW port \in Nat \ {0}
    PROVE  /\ PortMatches(port, r) <=>
                  (EffectivePortOf(r) = port /\ (r.scheme \in Http \/ port # DefaultOf(r.scheme)))
           /\ HostMatches(name, port, r) <=> (HostnameMatches(name, r) /\ PortMatches(port, r))
           /\ HostMatches(name, 0, r) <=>
                  (HostnameMatches(name, r) /\ EffectivePortOf(r) = DefaultOf(r.scheme))
<1> USE DEF IsRequestUrl, Http, WebSocket, DefaultOf, EffectivePortOf, ErasedHere
<1>1. PortMatches(port, r) <=>
          (EffectivePortOf(r) = port /\ (r.scheme \in Http \/ port # DefaultOf(r.scheme)))
    BY DEF PortMatches
<1>2. HostMatches(name, port, r) <=> (HostnameMatches(name, r) /\ PortMatches(port, r))
    BY DEF HostMatches, HostnameMatches, PortMatches
<1>3. HostMatches(name, 0, r) <=>
          (HostnameMatches(name, r) /\ EffectivePortOf(r) = DefaultOf(r.scheme))
    BY DEF HostMatches, HostnameMatches
<1> QED BY <1>1, <1>2, <1>3

\* A URL as a matcher has it, with a protocol of HTTP or none.
IsWrittenUrl(u) == u.scheme \in Http \cup {"none"} /\ u.port \in Nat

\* It has no other fields.
IsRecord(u) ==
    u = [scheme |-> u.scheme, name |-> u.name, port |-> u.port, path |-> u.path]

CanonicalPath(u) == Canonical(IF u.path = "" THEN "/" ELSE u.path)

NormalPort(u, scheme) == IF u.port = DefaultOf(scheme) THEN 0 ELSE u.port

LEMMA NormalRequest ==
    ASSUME NEW r, IsRequestUrl(r), r.scheme \in Http, r.name # "A"
    PROVE  NormalUrl(r) = [scheme |-> r.scheme, name |-> Undotted(r.name), port |-> r.port,
                           path |-> CanonicalPath(r)]
<1>1. r.scheme \notin WebSocket /\ r.scheme # "none"
    BY DEF Http, WebSocket
<1>2. Lower(r.name) = r.name
    BY DEF Lower
<1>3. r.port # DefaultOf(r.scheme)
    BY DEF IsRequestUrl
<1> QED BY <1>1, <1>2, <1>3 DEF NormalUrl, CanonicalPath

LEMMA NormalWritten ==
    ASSUME NEW u, IsWrittenUrl(u)
    PROVE  NormalUrl(u) =
               [scheme |-> u.scheme, name |-> Undotted(Lower(u.name)),
                port |-> NormalPort(u, IF u.scheme = "none" THEN "http" ELSE u.scheme),
                path |-> CanonicalPath(u)]
<1>1. u.scheme \notin WebSocket
    BY DEF IsWrittenUrl, Http, WebSocket
<1> QED BY <1>1 DEF NormalUrl, NormalPort, CanonicalPath

\* A URL with a protocol is its protocol, its name, its port and its path.
LEMMA UrlPartsAgree ==
    ASSUME NEW r, IsRequestUrl(r), r.scheme \in Http, r.name # "A",
           NEW u, IsWrittenUrl(u), u.scheme # "none"
    PROVE  /\ UrlMatches(u, r) <=> RegexUrlMatches({NormalUrl(u)}, r)
           /\ UrlMatches(u, r) <=>
                  (/\ Undotted(r.name) = Undotted(Lower(u.name))
                   /\ PathMatches(u, r)
                   /\ ProtocolMatches(u.scheme, r)
                   /\ PortMatches(EffectivePortOf(u), r))
<1>1. u.scheme \in Http
    BY DEF IsWrittenUrl
<1>2. UrlMatches(u, r) <=> NormalUrl(r) = NormalUrl(u)
    BY <1>1 DEF UrlMatches
<1>3. NormalUrl(r) = NormalUrl(u) <=>
          /\ r.scheme = u.scheme /\ Undotted(r.name) = Undotted(Lower(u.name))
          /\ r.port = NormalPort(u, u.scheme) /\ CanonicalPath(r) = CanonicalPath(u)
  <2> DEFINE rn == Undotted(r.name)
             un == Undotted(Lower(u.name))
             rp == CanonicalPath(r)
             up == CanonicalPath(u)
             port == NormalPort(u, u.scheme)
  <2>1. NormalUrl(r) = [scheme |-> r.scheme, name |-> rn, port |-> r.port, path |-> rp]
      BY NormalRequest
  <2>2. NormalUrl(u) = [scheme |-> u.scheme, name |-> un, port |-> port, path |-> up]
      BY NormalWritten
  <2> HIDE DEF rn, un, rp, up, port
  <2>3. NormalUrl(r) = NormalUrl(u) <=> (r.scheme = u.scheme /\ rn = un /\ r.port = port /\ rp = up)
      BY <2>1, <2>2
  <2> QED BY <2>3 DEF rn, un, rp, up, port
<1>4. PathMatches(u, r) <=> CanonicalPath(r) = CanonicalPath(u)
  <2> DEFINE name == Undotted(r.name)
             path == CanonicalPath(r)
  <2>1. NormalUrl(r) = [scheme |-> r.scheme, name |-> name, port |-> r.port, path |-> path]
      BY NormalRequest
  <2> HIDE DEF name, path
  <2>2. NormalUrl(r).path = path
      BY <2>1
  <2> QED BY <2>2 DEF path, PathMatches, RelativePathMatches, CanonicalPath
<1>5. r.scheme = u.scheme => (PortMatches(EffectivePortOf(u), r) <=> r.port = NormalPort(u, u.scheme))
  <2>1. EffectivePortOf(u) = IF u.port = 0 THEN DefaultOf(u.scheme) ELSE u.port
      BY DEF EffectivePortOf
  <2>2. DefaultOf(u.scheme) \in Nat \ {0} /\ r.port # DefaultOf(r.scheme)
      BY DEF DefaultOf, IsRequestUrl
  <2> QED BY <1>1, <2>1, <2>2 DEF PortMatches, NormalPort, ErasedHere
<1> QED BY <1>2, <1>3, <1>4, <1>5 DEF ProtocolMatches, RegexUrlMatches

\* Without a protocol it is the same URL with either, unless its port is a default.
LEMMA UrlWithoutProtocolAgrees ==
    ASSUME NEW r, IsRequestUrl(r), r.scheme \in Http, r.name # "A",
           NEW u, IsRecord(u), u.scheme = "none", u.port \in Nat
    PROVE  /\ PathMatches(u, r) <=> RegexPathMatches({}, {NormalUrl(u).path}, r)
           /\ u.port \notin {80, 443} =>
                  (UrlMatches(u, r) <=> MatchesWithEither(u, r))
<1> DEFINE rn == Undotted(r.name)
           un == Undotted(Lower(u.name))
           rp == CanonicalPath(r)
           up == CanonicalPath(u)
<1>1. NormalUrl(r) = [scheme |-> r.scheme, name |-> rn, port |-> r.port, path |-> rp]
    BY NormalRequest
<1>2. NormalUrl(u) = [scheme |-> "none", name |-> un, port |-> NormalPort(u, "http"), path |-> up]
    BY NormalWritten DEF IsWrittenUrl
<1>3. ASSUME NEW scheme \in Http
      PROVE  NormalUrl([u EXCEPT !.scheme = scheme]) =
                 [scheme |-> scheme, name |-> un, port |-> NormalPort(u, scheme), path |-> up]
  <2> DEFINE v == [u EXCEPT !.scheme = scheme]
  <2>1. v.scheme = scheme /\ v.name = u.name /\ v.port = u.port /\ v.path = u.path
      BY DEF IsRecord
  <2> HIDE DEF v
  <2>2. IsWrittenUrl(v) /\ CanonicalPath(v) = CanonicalPath(u) /\ scheme # "none"
      BY <2>1 DEF IsWrittenUrl, CanonicalPath, Http
  <2>3. NormalPort(v, scheme) = NormalPort(u, scheme)
      BY <2>1 DEF NormalPort
  <2>4. NormalUrl(v) = [scheme |-> scheme, name |-> un, port |-> NormalPort(v, scheme), path |-> up]
      BY <2>1, <2>2, NormalWritten
  <2> QED BY <2>3, <2>4 DEF v
<1> HIDE DEF rn, un, rp, up
<1>4. PathMatches(u, r) <=> RegexPathMatches({}, {NormalUrl(u).path}, r)
  <2>1. NormalUrl(r).path = rp
      BY <1>1
  <2>2. NormalUrl(u).path = up
      BY <1>2
  <2> QED BY <2>1, <2>2, Zenon
      DEF PathMatches, RelativePathMatches, RegexPathMatches, CanonicalPath, up
<1>5. ASSUME u.port \notin {80, 443}
      PROVE  UrlMatches(u, r) <=> MatchesWithEither(u, r)
  <2>1. \A scheme \in Http : NormalPort(u, scheme) = u.port
      BY <1>5 DEF NormalPort, DefaultOf
  <2>2. UrlMatches(u, r) <=> rn = un /\ r.port = u.port /\ rp = up
    <3>1. WithoutProtocol(NormalUrl(r)) = [scheme |-> "none", name |-> rn, port |-> r.port, path |-> rp]
        BY <1>1 DEF WithoutProtocol, Http, WebSocket
    <3>2. NormalUrl(u) = [scheme |-> "none", name |-> un, port |-> u.port, path |-> up]
        BY <1>2, <2>1 DEF Http
    <3>3. UrlMatches(u, r) <=> WithoutProtocol(NormalUrl(r)) = NormalUrl(u)
        BY DEF UrlMatches, Http
    <3> QED BY <3>1, <3>2, <3>3
  <2>3. ASSUME NEW scheme \in Http
        PROVE  UrlMatches([u EXCEPT !.scheme = scheme], r) <=>
                   scheme = r.scheme /\ rn = un /\ r.port = u.port /\ rp = up
    <3>1. NormalUrl([u EXCEPT !.scheme = scheme]) =
              [scheme |-> scheme, name |-> un, port |-> u.port, path |-> up]
        BY <1>3, <2>1
    <3>2. UrlMatches([u EXCEPT !.scheme = scheme], r) <=>
              NormalUrl(r) = NormalUrl([u EXCEPT !.scheme = scheme])
        BY DEF UrlMatches
    <3> QED BY <1>1, <3>1, <3>2
  <2> QED BY <2>2, <2>3 DEF MatchesWithEither
<1> QED BY <1>4, <1>5

LEMMA SampleSequences ==
    ASSUME NEW S, NEW n, NEW s \in BoundedSeq(S, n)
    PROVE  ToSet(s) \subseteq S
<1>1. PICK m \in 0..n : s \in [1..m -> S]
    BY DEF BoundedSeq, SeqOf
<1> QED BY <1>1 DEF ToSet

LEMMA MatchesItself ==
    ASSUME NEW object
    PROVE  IsMatch(object, object)
BY DEF IsMatch, ValuesMatch

LEMMA ExactQueryIsStricter ==
    ASSUME NEW r, NEW pairs, ExactQueryMatches(pairs, r)
    PROVE  QueryMatches(AsObject(pairs), r) /\ HeaderMatches(AsObject(pairs), AsObject(r.query))
<1>1. pairs = r.query
    BY DEF ExactQueryMatches
<1> QED BY <1>1, MatchesItself DEF QueryMatches, HeaderMatches

\* Exact matchers of a body are stricter than flexible ones, and none matches what can not be read.
LEMMA ExactBodyIsStricter ==
    ASSUME NEW body, NEW json, NEW Key, NEW Value, "any" \notin Key \cup Value,
           ToSet(json) \subseteq Key \X Value, ToSet(body.pairs) \subseteq Key \X Value
    PROVE  /\ JsonAnswer(json, body) = "true" => JsonFlexibleAnswer(json, body) = "true"
           /\ JsonFlexibleAnswer(json, body) = "true" /\ body.type = "form" =>
                  FormDataAnswer(json, body) = "true"
           /\ MultipartAnswer(ToSet(json), body) = "true" =>
                  /\ MultipartAnswer({<<pair[1], "any">> : pair \in ToSet(json)}, body) = "true"
                  /\ \A pair \in ToSet(json) : CookieMatches({pair}, ToSet(body.pairs))
           /\ body.text = Unreadable =>
                  "true" \notin {JsonAnswer(json, body), FormDataAnswer(json, body),
                                 RawBodyAnswer("text", body)}
<1> USE DEF Answer, OfText
<1>1. JsonAnswer(json, body) = "true" => JsonFlexibleAnswer(json, body) = "true"
    BY MatchesItself DEF JsonAnswer, JsonFlexibleAnswer
<1>2. JsonFlexibleAnswer(json, body) = "true" /\ body.type = "form" =>
          FormDataAnswer(json, body) = "true"
    BY DEF JsonFlexibleAnswer, FormDataAnswer
<1>3. ASSUME MultipartAnswer(ToSet(json), body) = "true"
      PROVE  /\ MultipartAnswer({<<pair[1], "any">> : pair \in ToSet(json)}, body) = "true"
             /\ \A pair \in ToSet(json) : CookieMatches({pair}, ToSet(body.pairs))
  <2> DEFINE parts == ToSet(body.pairs)
             asked == ToSet(json)
  <2> HIDE DEF parts, asked
  <2>1. /\ body.type = "multipart" /\ body.text # Unreadable
        /\ \A c \in asked : \E pair \in parts : c[1] \in {"any", pair[1]} /\ c[2] \in {"any", pair[2]}
      BY <1>3 DEF MultipartAnswer, parts, asked
  <2>2. \A c \in asked : \E pair \in parts : c[1] = pair[1] /\ c[2] = pair[2]
      BY <2>1 DEF asked
  <2>3. \A c \in asked : c \in parts
      BY <2>2 DEF asked, parts
  <2>4. MultipartAnswer({<<pair[1], "any">> : pair \in asked}, body) = "true"
      BY <2>1, <2>2 DEF MultipartAnswer, parts
  <2>5. \A pair \in asked : CookieMatches({pair}, parts)
      BY <2>3 DEF CookieMatches
  <2> QED BY <2>4, <2>5 DEF asked, parts
<1>4. ASSUME body.text = Unreadable
      PROVE  "true" \notin {JsonAnswer(json, body), FormDataAnswer(json, body),
                            RawBodyAnswer("text", body)}
    BY <1>4 DEF JsonAnswer, FormDataAnswer, RawBodyAnswer
<1> QED BY <1>1, <1>2, <1>3, <1>4

\* All of the answers count, however many there are.
LEMMA AllAnswersCount ==
    ASSUME NEW answers, ToSet(answers) \subseteq {"true", "false", "rejected", "no"}
    PROVE  /\ "true" \in MatchesAll(answers) <=> (ToSet(answers) \subseteq {"true"})
           /\ "rejected" \in MatchesAll(answers) => "rejected" \in ToSet(answers)
<1> DEFINE said == ToSet(answers)
<1>1. MatchesAll(answers) =
          IF "no" \in said THEN {"false"}
          ELSE IF said \cap {"false", "rejected"} # {} THEN said \cap {"false", "rejected"}
          ELSE {"true"}
    BY DEF MatchesAll
<1> HIDE DEF said
<1>2. said \subseteq {"true", "false", "rejected", "no"}
    BY DEF said
<1>3. CASE "no" \in said
    BY <1>1, <1>2, <1>3 DEF said
<1>4. CASE "no" \notin said /\ said \cap {"false", "rejected"} # {}
  <2>1. MatchesAll(answers) = said \cap {"false", "rejected"}
      BY <1>1, <1>4
  <2>2. "true" \notin MatchesAll(answers) /\ ~(said \subseteq {"true"})
      BY <1>4, <2>1
  <2> QED BY <2>1, <2>2 DEF said
<1>5. CASE "no" \notin said /\ said \cap {"false", "rejected"} = {}
  <2>1. MatchesAll(answers) = {"true"} /\ said \subseteq {"true"}
      BY <1>1, <1>2, <1>5
  <2> QED BY <2>1 DEF said
<1> QED BY <1>3, <1>4, <1>5

LEMMA SampleUrls ==
    /\ \A r \in RequestUrl : IsRequestUrl(r) /\ r.name \in Names
    /\ PortNumbers \subseteq Nat \ {0}
    /\ "A" \notin Names
BY DEF RequestUrl, IsRequestUrl, PortNumbers, Names

(***************************************************************************)
(* Matchers that say the same of a request in different ways agree, and    *)
(* exact ones are stricter than flexible ones.  The lemmas that it rests   *)
(* on take any names, ports, paths, parameters and answers, of which the   *)
(* laws have samples.                                                      *)
(***************************************************************************)
THEOREM MatchingMatchersAgree == Spec => []MatchersAgree
<1>1. HostMatchersAgree
    BY SampleUrls, HostMatchersSay DEF HostMatchersAgree
<1>2. UrlMatchersAgree
  <2>1. ASSUME NEW r \in RequestUrl, r.scheme \in Http, NEW u \in WrittenUrl
        PROVE  IF u.scheme # "none" THEN UrlIsItsParts(u, r) ELSE UrlIsOfEither(u, r)
    <3>1. IsRequestUrl(r) /\ r.name \in Names /\ r.name # "A"
        BY SampleUrls
    <3>2. /\ IsRecord(u)
          /\ IsWrittenUrl(u) /\ u.port \in Nat
      <4>1. u \in [scheme : Http \cup {"none"}, name : Names \cup {"A"}, port : {0} \cup PortNumbers,
                   path : {""} \cup Paths]
          BY DEF WrittenUrl
      <4>2. u.scheme \in Http \cup {"none"} /\ u.port \in {0} \cup PortNumbers
          BY <4>1
      <4>3. u.port \in Nat
          BY <4>2 DEF PortNumbers
      <4>4. IsRecord(u)
          BY <4>1 DEF IsRecord
      <4> QED BY <4>2, <4>3, <4>4 DEF IsWrittenUrl
    <3>3. NameMatches(u, r) <=> Undotted(r.name) = Undotted(Lower(u.name))
        BY <3>1 DEF NameMatches, HostnameMatches
    <3>4. CASE u.scheme # "none"
      <4>1. /\ UrlMatches(u, r) <=> RegexUrlMatches({NormalUrl(u)}, r)
            /\ UrlMatches(u, r) <=>
                   (/\ Undotted(r.name) = Undotted(Lower(u.name))
                    /\ PathMatches(u, r)
                    /\ ProtocolMatches(u.scheme, r)
                    /\ PortMatches(EffectivePortOf(u), r))
          BY <2>1, <3>1, <3>2, <3>4, UrlPartsAgree
      <4>2. UrlIsItsParts(u, r)
          BY <3>3, <4>1, Zenon DEF UrlIsItsParts
      <4> QED BY <3>4, <4>2
    <3>5. CASE u.scheme = "none"
      <4>1. u.port \in {0, 8000} => u.port \notin {80, 443}
          OBVIOUS
      <4>2. /\ PathMatches(u, r) <=> RegexPathMatches({}, {NormalUrl(u).path}, r)
            /\ u.port \notin {80, 443} => (UrlMatches(u, r) <=> MatchesWithEither(u, r))
          BY <2>1, <3>1, <3>2, <3>5, UrlWithoutProtocolAgrees
      <4>3. UrlIsOfEither(u, r)
          BY <4>1, <4>2 DEF UrlIsOfEither
      <4> QED BY <3>5, <4>3
    <3> QED BY <3>4, <3>5
  <2> QED BY <2>1, Zenon DEF UrlMatchersAgree
<1>3. ExactIsStricter
  <2>1. \A pairs \in Pairs : ToSet(pairs) \subseteq {"k", "l"} \X {"1", "2"}
      BY SampleSequences DEF Pairs
  <2>2. ASSUME NEW body \in BodySample, NEW json \in Pairs
        PROVE  /\ JsonAnswer(json, body) = "true" => JsonFlexibleAnswer(json, body) = "true"
               /\ JsonFlexibleAnswer(json, body) = "true" /\ body.type = "form" =>
                      FormDataAnswer(json, body) = "true"
               /\ MultipartAnswer(ToSet(json), body) = "true" =>
                      /\ MultipartAnswer({<<pair[1], "any">> : pair \in ToSet(json)}, body) = "true"
                      /\ \A pair \in ToSet(json) : CookieMatches({pair}, ToSet(body.pairs))
               /\ RawBodyAnswer("text", body) = RawBodyIncludesAnswer({"text", "other"}, body)
               /\ body.text = Unreadable =>
                      "true" \notin {JsonAnswer(json, body), FormDataAnswer(json, body),
                                     RawBodyAnswer("text", body)}
               /\ CallbackAnswer(ComparesText, body) = "true" <=> RawBodyAnswer("text", body) = "true"
               /\ CallbackAnswer(IgnoresText, body) = "true"
    <3>1. body.pairs \in Pairs /\ body.text \in {"text", Unreadable}
        BY DEF BodySample
    <3>2. RawBodyAnswer("text", body) = RawBodyIncludesAnswer({"text", "other"}, body)
        BY <3>1 DEF RawBodyAnswer, RawBodyIncludesAnswer, OfText, Answer, Unreadable
    <3>3. "any" \notin {"k", "l"} \cup {"1", "2"}
        OBVIOUS
    <3>4. TextRead(body) \in {"text", NoText}
        BY <3>1 DEF TextRead
    <3>5. CallbackAnswer(ComparesText, body) = "true" <=> RawBodyAnswer("text", body) = "true"
        BY <3>1, <3>4
        DEF CallbackAnswer, ComparesText, TextRead, NoText, RawBodyAnswer, OfText, Answer, Unreadable
    <3>6. CallbackAnswer(IgnoresText, body) = "true"
        BY <3>4 DEF CallbackAnswer, IgnoresText
    <3> QED BY <2>1, <3>1, <3>2, <3>3, <3>5, <3>6, ExactBodyIsStricter, Zenon
  <2>3. \A r \in {u \in RequestUrl : u.port = 0 /\ u.path = "/"}, pairs \in Pairs :
            ExactQueryMatches(pairs, r) =>
                QueryMatches(AsObject(pairs), r) /\ HeaderMatches(AsObject(pairs), AsObject(r.query))
      BY ExactQueryIsStricter
  <2> QED BY <2>2, <2>3, Zenon DEF ExactIsStricter
<1>4. AllMeansAll
    BY SampleSequences, AllAnswersCount DEF AllMeansAll
<1>5. MatchersAgree
    BY <1>1, <1>2, <1>3, <1>4 DEF MatchersAgree, MatcherLaws
<1> QED BY <1>5, PTL

-----------------------------------------------------------------------------
(* Induction, with sets for predicates, and functions defined by recursion.*)

LEMMA LeastOf ==
    ASSUME NEW T \in SUBSET Nat, T # {}
    PROVE  \E n \in T : \A m \in T : n <= m
<1> DEFINE R == OpToRel(<, Nat)
<1>1. IsWellFoundedOn(R, Nat)
    BY NatLessThanWellFounded
<1>2. \A m, n \in Nat : <<m, n>> \in R <=> m < n
    BY DEF OpToRel
<1> HIDE DEF R
<1>3. PICK n \in T : \A m \in T : ~(<<m, n>> \in R)
    BY <1>1, WFMin
<1>4. \A m \in T : ~(m < n)
    BY <1>2, <1>3
<1>5. \A m \in T : n <= m
    BY <1>4
<1> QED BY <1>5

LEMMA Induction ==
    ASSUME NEW T \in SUBSET Nat, 0 \in T, \A n \in T : n + 1 \in T
    PROVE  T = Nat
<1>1. SUFFICES ASSUME Nat \ T # {}
               PROVE  FALSE
    OBVIOUS
<1>2. PICK n \in Nat \ T : \A m \in Nat \ T : n <= m
    BY <1>1, LeastOf
<1>3. n - 1 \in Nat /\ ~(n <= n - 1)
    BY <1>2
<1> QED BY <1>2, <1>3

\* Up to k, each value of f is what D makes of the one before.
Follows(f, D, start, k) == f[0] = start /\ \A n \in 1..k : f[n] = D[<<f[n - 1], n>>]

LEMMA Recursion ==
    ASSUME NEW S, NEW start \in S, NEW D \in [S \X Nat -> S], NEW k \in Nat
    PROVE  \E f \in [0..k -> S] : Follows(f, D, start, k)
<1> DEFINE Good(f, j) == Follows(f, D, start, j)
           T == {j \in Nat : \E f \in [0..j -> S] : Good(f, j)}
<1>1. 0 \in T
  <2> DEFINE f == [n \in 0..0 |-> start]
  <2>1. f \in [0..0 -> S] /\ Good(f, 0)
      BY DEF Follows
  <2> QED BY <2>1
<1>2. ASSUME NEW j \in T
      PROVE  j + 1 \in T
  <2>1. j \in Nat
      OBVIOUS
  <2>2. PICK f \in [0..j -> S] : Good(f, j)
      OBVIOUS
  <2> HIDE DEF T
  <2> DEFINE x == D[<<f[j], j + 1>>]
             g == [n \in 0..(j + 1) |-> IF n = j + 1 THEN x ELSE f[n]]
  <2>3. /\ f[j] \in S /\ j + 1 \in Nat /\ 0 \in 0..j /\ 0 # j + 1 /\ j + 1 \in 0..(j + 1)
        /\ \A n \in 0..j : n # j + 1 /\ n \in 0..(j + 1)
        /\ \A n \in 0..(j + 1) : n = j + 1 \/ n \in 0..j
      BY <2>1
  <2>4. x \in S
      BY <2>3
  <2> HIDE DEF x
  <2>5. g \in [0..(j + 1) -> S]
      BY <2>3, <2>4
  <2>6. g[0] = start /\ g[j + 1] = x /\ \A n \in 0..j : g[n] = f[n]
      BY <2>2, <2>3 DEF Follows
  <2> HIDE DEF g
  <2>7. ASSUME NEW n \in 1..(j + 1)
        PROVE  g[n] = D[<<g[n - 1], n>>]
    <3>1. CASE n = j + 1
      <4>1. n - 1 = j /\ j \in 0..j
          BY <2>1, <3>1
      <4> QED BY <2>6, <3>1, <4>1 DEF x
    <3>2. CASE n \in 1..j
      <4>1. n \in 0..j /\ n - 1 \in 0..j
          BY <2>1, <3>2
      <4> QED BY <2>2, <2>6, <3>2, <4>1 DEF Follows
    <3> QED BY <2>1, <3>1, <3>2
  <2>8. Good(g, j + 1)
      BY <2>6, <2>7 DEF Follows
  <2> QED BY <2>3, <2>5, <2>8 DEF T
<1> HIDE DEF T
<1>3. T = Nat
    BY <1>1, <1>2, Induction DEF T
<1> QED BY <1>3 DEF T

-----------------------------------------------------------------------------
(* Rules are made as their builders were told, by any number of calls.     *)

\* What the calls of a builder name.
Name ==
    {"wildcard", "host", "callback", "fallback", "high", "none", "once", "always", "delay", "reply",
     "passthrough", "path"}

MadeRule == [matchers : Seq(Name), steps : Seq(Name), prio : Name, checker : Name]
Builder ==
    [matchers : Seq(Name), steps : Seq(Name), prio : Name, checker : Name, made : Seq(MadeRule)]

LEMMA CallNames ==
    ASSUME NEW call \in Call
    PROVE  /\ call[1] \in {"match", "priority", "complete", "step", "then", "invalid"}
           /\ call[2] \in Name
           /\ call[1] = "step" => call[2] \notin Final
           /\ call[1] = "then" => call[2] \in Final
BY DEF Call, Name, Final

\* What two builders have in common but for one of their fields.
LEMMA Matched ==
    ASSUME NEW b \in Builder, NEW x \in Name
    PROVE  /\ Match(b, x) \in Builder
           /\ Match(b, x).matchers = Append(b.matchers, x)
           /\ Match(b, x).steps = b.steps /\ Match(b, x).prio = b.prio
           /\ Match(b, x).checker = b.checker /\ Match(b, x).made = b.made
<1>1. Append(b.matchers, x) \in Seq(Name)
    BY DEF Builder
<1> QED BY <1>1 DEF Match, Builder

LEMMA Prioritised ==
    ASSUME NEW b \in Builder, NEW x \in Name
    PROVE  /\ AsPriority(b, x) \in Builder
           /\ AsPriority(b, x).prio = x
           /\ AsPriority(b, x).matchers = b.matchers /\ AsPriority(b, x).steps = b.steps
           /\ AsPriority(b, x).checker = b.checker /\ AsPriority(b, x).made = b.made
BY DEF AsPriority, Builder

LEMMA Completed ==
    ASSUME NEW b \in Builder, NEW x \in Name
    PROVE  /\ Complete(b, x) \in Builder
           /\ Complete(b, x).checker = x
           /\ Complete(b, x).matchers = b.matchers /\ Complete(b, x).steps = b.steps
           /\ Complete(b, x).prio = b.prio /\ Complete(b, x).made = b.made
BY DEF Complete, Builder

LEMMA StepAdded ==
    ASSUME NEW b \in Builder, NEW x \in Name
    PROVE  /\ AddStep(b, x) \in Builder
           /\ AddStep(b, x).steps = Append(b.steps, x)
           /\ AddStep(b, x).matchers = b.matchers /\ AddStep(b, x).prio = b.prio
           /\ AddStep(b, x).checker = b.checker /\ AddStep(b, x).made = b.made
<1>1. Append(b.steps, x) \in Seq(Name)
    BY DEF Builder
<1> QED BY <1>1 DEF AddStep, Builder

\* A final step is accepted unless there was one before it.
LEMMA AcceptedOnce ==
    ASSUME NEW b \in Builder, NEW x \in Final, b.matchers # <<>>
    PROVE  IsAccepted(Build(AddStep(b, x))) <=> \A i \in DOMAIN b.steps : b.steps[i] \notin Final
<1> DEFINE steps == Append(b.steps, x)
           rule == Build(AddStep(b, x))
<1>1. x \in Name /\ b.steps \in Seq(Name)
    BY DEF Final, Name, Builder
<1>2. /\ steps # <<>> /\ DOMAIN steps = 1..(Len(b.steps) + 1) /\ Len(steps) = Len(b.steps) + 1
      /\ DOMAIN b.steps = 1..Len(b.steps) /\ Len(b.steps) \in Nat
      /\ \A i \in DOMAIN b.steps : steps[i] = b.steps[i]
    BY <1>1
<1>3. AddStep(b, x).steps = steps /\ AddStep(b, x).matchers = b.matchers
    BY <1>1, StepAdded
<1> HIDE DEF steps
<1>4. rule.steps = steps /\ rule.matchers = b.matchers
    BY <1>3 DEF Build
<1> HIDE DEF rule
<1>5. IsAccepted(rule) <=> \A i \in DOMAIN b.steps : b.steps[i] \notin Final
    BY <1>2, <1>4 DEF IsAccepted
<1> QED BY <1>5 DEF rule

LEMMA ThenDone ==
    ASSUME NEW b \in Builder, NEW x \in Final, b.matchers # <<>>
    PROVE  /\ Then(b, x) \in Builder
           /\ Then(b, x).steps = Append(b.steps, x)
           /\ Then(b, x).matchers = b.matchers /\ Then(b, x).prio = b.prio
           /\ Then(b, x).checker = b.checker
           /\ Then(b, x).made =
                  IF \A i \in DOMAIN b.steps : b.steps[i] \notin Final
                    THEN Append(b.made, Build(Then(b, x))) ELSE b.made
<1> DEFINE next == AddStep(b, x)
           rule == Build(next)
           made == IF IsAccepted(rule) THEN Append(next.made, rule) ELSE next.made
           c == [next EXCEPT !.made = made]
<1>1. x \in Name
    BY DEF Final, Name
<1>2. /\ next \in Builder /\ next.steps = Append(b.steps, x) /\ next.matchers = b.matchers
      /\ next.prio = b.prio /\ next.checker = b.checker /\ next.made = b.made
    BY <1>1, StepAdded
<1>3. IsAccepted(rule) <=> \A i \in DOMAIN b.steps : b.steps[i] \notin Final
    BY AcceptedOnce
<1>4. Then(b, x) = c
    BY DEF Then
<1> HIDE DEF next
<1>5. rule \in MadeRule
    BY <1>2 DEF Build, Builder, MadeRule
<1>6. /\ rule.matchers = next.matchers /\ rule.steps = next.steps /\ rule.prio = next.prio
      /\ rule.checker = next.checker
    BY DEF Build
<1>7. rule = [matchers |-> next.matchers, steps |-> next.steps, prio |-> next.prio, checker |-> next.checker]
    BY DEF Build
<1> HIDE DEF rule
<1>8. made \in Seq(MadeRule)
    BY <1>2, <1>5 DEF Builder
<1> HIDE DEF made
<1>9. /\ c \in Builder /\ c.made = made /\ c.steps = next.steps /\ c.matchers = next.matchers
      /\ c.prio = next.prio /\ c.checker = next.checker
    BY <1>2, <1>8 DEF Builder
<1> HIDE DEF c
<1>10. Build(c) = rule
    BY <1>7, <1>9 DEF Build
<1> QED BY <1>2, <1>3, <1>4, <1>9, <1>10 DEF made

LEMMA NamesNamed ==
    ASSUME NEW names \in Seq(Name), NEW call \in Call, NEW methods
    PROVE  Named(names, call, methods) \in Seq(Name)
<1>1. call[2] \in Name
    BY CallNames
<1> QED BY <1>1 DEF Named

NamedNext(calls, methods, names, n) ==
    IF n \in 1..Len(calls) THEN Named(names, calls[n], methods) ELSE names

LEMMA OperandsRun ==
    ASSUME NEW calls \in Seq(Call), NEW methods
    PROVE  LET operands == Operands(calls, methods)
           IN  /\ operands[0] = <<>>
               /\ \A n \in 1..Len(calls) : operands[n] = Named(operands[n - 1], calls[n], methods)
               /\ \A n \in 0..Len(calls) : operands[n] \in Seq(Name)
<1> DEFINE N == Len(calls)
           Lists == Seq(Name)
           D == [x \in Lists \X Nat |-> NamedNext(calls, methods, x[1], x[2])]
           IsRun(f) == f = [n \in 0..N |-> IF n = 0 THEN <<>> ELSE Named(f[n - 1], calls[n], methods)]
<1>1. N \in Nat /\ DOMAIN calls = 1..N /\ \A n \in 1..N : calls[n] \in Call
    OBVIOUS
<1>2. <<>> \in Lists
    OBVIOUS
<1>3. \A names \in Lists, call \in Call : Named(names, call, methods) \in Lists
    BY NamesNamed
<1> HIDE DEF Lists
<1>4. \A names \in Lists, n \in Nat : NamedNext(calls, methods, names, n) \in Lists
    BY <1>1, <1>3 DEF NamedNext
<1>5. /\ D \in [Lists \X Nat -> Lists]
      /\ \A names \in Lists, n \in Nat : D[<<names, n>>] = NamedNext(calls, methods, names, n)
    BY <1>4
<1> HIDE DEF D
<1>6. PICK f \in [0..N -> Lists] : f[0] = <<>> /\ \A n \in 1..N : f[n] = D[<<f[n - 1], n>>]
  <2>1. \E f \in [0..N -> Lists] : Follows(f, D, <<>>, N)
      BY <1>1, <1>2, <1>5, Recursion
  <2> QED BY <2>1 DEF Follows
<1>7. ASSUME NEW n \in 1..N
      PROVE  f[n] = Named(f[n - 1], calls[n], methods)
  <2>1. f[n - 1] \in Lists /\ n \in Nat
      BY <1>1, <1>6
  <2>2. f[n] = NamedNext(calls, methods, f[n - 1], n)
      BY <1>5, <1>6, <2>1
  <2> QED BY <2>2 DEF NamedNext
<1>8. IsRun(f)
    BY <1>1, <1>6, <1>7
<1> DEFINE run == CHOOSE g : IsRun(g)
<1>9. IsRun(run)
    BY <1>8, Zenon
<1>10. Operands(calls, methods) = run
    BY Zenon DEF Operands
<1> HIDE DEF run
<1>11. run[0] = <<>> /\ \A n \in 1..N : run[n] = Named(run[n - 1], calls[n], methods)
    BY <1>1, <1>9
<1> HIDE DEF IsRun
<1> DEFINE T == {k \in Nat : k \in 0..N => run[k] \in Lists}
<1>12. 0 \in T
    BY <1>2, <1>11
<1>13. ASSUME NEW k \in T
       PROVE  k + 1 \in T
  <2>1. CASE k + 1 \in 0..N
    <3>1. run[k] \in Lists /\ k + 1 \in 1..N /\ (k + 1) - 1 = k /\ calls[k + 1] \in Call
        BY <1>1, <2>1
    <3>2. run[k + 1] \in Lists
        BY <1>3, <1>11, <3>1
    <3> QED BY <3>2
  <2> QED BY <2>1
<1> HIDE DEF T
<1>14. T = Nat
    BY <1>12, <1>13, Induction DEF T
<1>15. \A n \in 0..N : run[n] \in Lists
    BY <1>1, <1>14 DEF T
<1> QED BY <1>10, <1>11, <1>15 DEF Lists

\* A builder always has a matcher.
Started == {b \in Builder : b.matchers # <<>>}

LEMMA Applied ==
    ASSUME NEW b \in Started, NEW call \in Call
    PROVE  Apply(b, call) \in Started
<1>1. b \in Builder /\ b.matchers # <<>> /\ b.matchers \in Seq(Name)
    BY DEF Started, Builder
<1>2. call[1] \in {"match", "priority", "complete", "step", "then", "invalid"} /\ call[2] \in Name
    BY CallNames
<1>3. CASE call[1] = "match"
  <2>1. Append(b.matchers, call[2]) # <<>>
      BY <1>1, <1>2
  <2>2. Apply(b, call) = Match(b, call[2])
      BY <1>3 DEF Apply
  <2> QED BY <1>1, <1>2, <2>1, <2>2, Matched DEF Started
<1>4. CASE call[1] = "priority"
    BY <1>1, <1>2, <1>4, Prioritised DEF Started, Apply
<1>5. CASE call[1] = "complete"
    BY <1>1, <1>2, <1>5, Completed DEF Started, Apply
<1>6. CASE call[1] = "step"
    BY <1>1, <1>2, <1>6, StepAdded DEF Started, Apply
<1>7. CASE call[1] = "then"
    BY <1>1, <1>7, ThenDone, CallNames DEF Started, Apply
<1>8. CASE call[1] = "invalid"
    BY <1>8 DEF Apply
<1> QED BY <1>2, <1>3, <1>4, <1>5, <1>6, <1>7, <1>8

AppliedNext(calls, b, n) == IF n \in 1..Len(calls) THEN Apply(b, calls[n]) ELSE b

LEMMA AfterRun ==
    ASSUME NEW calls \in Seq(Call), NEW builder \in Started
    PROVE  LET after == After(builder, calls)
           IN  /\ after[0] = builder
               /\ \A n \in 1..Len(calls) : after[n] = Apply(after[n - 1], calls[n])
               /\ \A n \in 0..Len(calls) : after[n] \in Started
<1> DEFINE N == Len(calls)
           D == [x \in Started \X Nat |-> AppliedNext(calls, x[1], x[2])]
           IsRun(f) == f = [n \in 0..N |-> IF n = 0 THEN builder ELSE Apply(f[n - 1], calls[n])]
<1>1. N \in Nat /\ DOMAIN calls = 1..N /\ \A n \in 1..N : calls[n] \in Call
    OBVIOUS
<1>2. \A b \in Started, n \in Nat : AppliedNext(calls, b, n) \in Started
    BY <1>1, Applied DEF AppliedNext
<1>3. /\ D \in [Started \X Nat -> Started]
      /\ \A b \in Started, n \in Nat : D[<<b, n>>] = AppliedNext(calls, b, n)
    BY <1>2
<1> HIDE DEF D
<1>4. PICK f \in [0..N -> Started] : f[0] = builder /\ \A n \in 1..N : f[n] = D[<<f[n - 1], n>>]
  <2>1. \E f \in [0..N -> Started] : Follows(f, D, builder, N)
      BY <1>1, <1>3, Recursion
  <2> QED BY <2>1 DEF Follows
<1>5. ASSUME NEW n \in 1..N
      PROVE  f[n] = Apply(f[n - 1], calls[n])
  <2>1. f[n - 1] \in Started /\ n \in Nat
      BY <1>1, <1>4
  <2>2. f[n] = AppliedNext(calls, f[n - 1], n)
      BY <1>3, <1>4, <2>1
  <2> QED BY <2>2 DEF AppliedNext
<1>6. IsRun(f)
    BY <1>1, <1>4, <1>5
<1> DEFINE run == CHOOSE g : IsRun(g)
<1>7. IsRun(run)
    BY <1>6, Zenon
<1>8. After(builder, calls) = run
    BY Zenon DEF After
<1> HIDE DEF run
<1>9. run[0] = builder /\ \A n \in 1..N : run[n] = Apply(run[n - 1], calls[n])
    BY <1>1, <1>7
<1> HIDE DEF IsRun
<1> DEFINE T == {k \in Nat : k \in 0..N => run[k] \in Started}
<1>10. 0 \in T
    BY <1>9
<1>11. ASSUME NEW k \in T
       PROVE  k + 1 \in T
  <2>1. CASE k + 1 \in 0..N
    <3>1. run[k] \in Started /\ k + 1 \in 1..N /\ (k + 1) - 1 = k /\ calls[k + 1] \in Call
        BY <1>1, <2>1
    <3>2. run[k + 1] \in Started
        BY <1>9, <3>1, Applied
    <3> QED BY <3>2
  <2> QED BY <2>1
<1> HIDE DEF T
<1>12. T = Nat
    BY <1>10, <1>11, Induction DEF T
<1>13. \A n \in 0..N : run[n] \in Started
    BY <1>1, <1>12 DEF T
<1> QED BY <1>8, <1>9, <1>13

LEMMA WildcardFirst ==
    ASSUME NEW names \in Seq(Name), NEW x \in Name
    PROVE  /\ <<"wildcard">> \o names \in Seq(Name)
           /\ <<"wildcard">> \o Append(names, x) = Append(<<"wildcard">> \o names, x)
<1>1. <<"wildcard">> \in Seq(Name) /\ <<x>> \in Seq(Name)
    BY DEF Name
<1>2. <<"wildcard">> \o names \in Seq(Name)
    BY <1>1, ConcatProperties
<1>3. Append(names, x) = names \o <<x>>
    BY AppendIsConcat
<1>4. Append(<<"wildcard">> \o names, x) = (<<"wildcard">> \o names) \o <<x>>
    BY <1>2, AppendIsConcat
<1>5. (<<"wildcard">> \o names) \o <<x>> = <<"wildcard">> \o (names \o <<x>>)
    BY <1>1, ConcatAssociative
<1> QED BY <1>2, <1>3, <1>4, <1>5

LEMMA LatestNext ==
    ASSUME NEW calls \in Seq(Call), NEW n \in 1..Len(calls), NEW method, NEW otherwise
    PROVE  LatestOf(calls, n, method, otherwise) =
               IF calls[n][1] = method THEN calls[n][2] ELSE LatestOf(calls, n - 1, method, otherwise)
<1> DEFINE before == Operands(calls, {method})[n - 1]
           now == Operands(calls, {method})[n]
<1>1. calls[n] \in Call /\ calls[n][2] \in Name /\ n - 1 \in 0..Len(calls)
    BY CallNames
<1>2. before \in Seq(Name) /\ now = Named(before, calls[n], {method})
    BY <1>1, OperandsRun
<1> HIDE DEF before, now
<1>3. CASE calls[n][1] = method
  <2>1. now = Append(before, calls[n][2])
      BY <1>2, <1>3 DEF Named
  <2>2. now # <<>> /\ now[Len(now)] = calls[n][2]
      BY <1>1, <1>2, <2>1, AppendProperties
  <2>3. LatestOf(calls, n, method, otherwise) = calls[n][2]
      BY <2>2 DEF LatestOf, Last, now
  <2> QED BY <1>3, <2>3
<1>4. CASE calls[n][1] # method
  <2>1. now = before
      BY <1>2, <1>4 DEF Named
  <2> QED BY <1>4, <2>1 DEF LatestOf, now, before
<1> QED BY <1>3, <1>4

\* What the rule that was said becomes with one more call.
LEMMA SaidNext ==
    ASSUME NEW calls \in Seq(Call), NEW n \in 1..Len(calls)
    PROVE  LET r == RuleSaid(calls, n - 1)
               s == RuleSaid(calls, n)
               call == calls[n]
           IN  /\ s.matchers = IF call[1] = "match" THEN Append(r.matchers, call[2]) ELSE r.matchers
               /\ s.steps = IF call[1] \in {"step", "then"} THEN Append(r.steps, call[2]) ELSE r.steps
               /\ s.prio = IF call[1] = "priority" THEN call[2] ELSE r.prio
               /\ s.checker = IF call[1] = "complete" THEN call[2] ELSE r.checker
<1>1. calls[n] \in Call /\ calls[n][2] \in Name /\ n - 1 \in 0..Len(calls)
    BY CallNames
<1>2. MatchersSaid(calls, n) = IF calls[n][1] = "match" THEN Append(MatchersSaid(calls, n - 1), calls[n][2])
                               ELSE MatchersSaid(calls, n - 1)
  <2> DEFINE before == Operands(calls, {"match"})[n - 1]
             now == Operands(calls, {"match"})[n]
  <2>1. before \in Seq(Name) /\ now = Named(before, calls[n], {"match"})
      BY <1>1, OperandsRun
  <2> HIDE DEF before, now
  <2>2. <<"wildcard">> \o Append(before, calls[n][2]) = Append(<<"wildcard">> \o before, calls[n][2])
      BY <1>1, <2>1, WildcardFirst
  <2>3. MatchersSaid(calls, n) = <<"wildcard">> \o now /\ MatchersSaid(calls, n - 1) = <<"wildcard">> \o before
      BY DEF MatchersSaid, now, before
  <2>4. CASE calls[n][1] = "match"
    <3>1. now = Append(before, calls[n][2])
        BY <2>1, <2>4 DEF Named
    <3> QED BY <2>2, <2>3, <2>4, <3>1, Zenon
  <2>5. CASE calls[n][1] # "match"
    <3>1. now = before
        BY <2>1, <2>5 DEF Named
    <3> QED BY <2>3, <2>5, <3>1, Zenon
  <2> QED BY <2>4, <2>5
<1>3. Operands(calls, {"step", "then"})[n] =
          IF calls[n][1] \in {"step", "then"} THEN Append(Operands(calls, {"step", "then"})[n - 1], calls[n][2])
          ELSE Operands(calls, {"step", "then"})[n - 1]
    BY <1>1, OperandsRun DEF Named
<1>4. LatestOf(calls, n, "priority", "fallback") =
          IF calls[n][1] = "priority" THEN calls[n][2] ELSE LatestOf(calls, n - 1, "priority", "fallback")
    BY LatestNext
<1>5. LatestOf(calls, n, "complete", "none") =
          IF calls[n][1] = "complete" THEN calls[n][2] ELSE LatestOf(calls, n - 1, "complete", "none")
    BY LatestNext
<1>6. \A k : /\ RuleSaid(calls, k).matchers = MatchersSaid(calls, k)
             /\ RuleSaid(calls, k).steps = Operands(calls, {"step", "then"})[k]
             /\ RuleSaid(calls, k).prio = LatestOf(calls, k, "priority", "fallback")
             /\ RuleSaid(calls, k).checker = LatestOf(calls, k, "complete", "none")
    BY DEF RuleSaid
<1>7. /\ RuleSaid(calls, n).matchers = MatchersSaid(calls, n)
      /\ RuleSaid(calls, n - 1).matchers = MatchersSaid(calls, n - 1)
      /\ RuleSaid(calls, n).steps = Operands(calls, {"step", "then"})[n]
      /\ RuleSaid(calls, n - 1).steps = Operands(calls, {"step", "then"})[n - 1]
      /\ RuleSaid(calls, n).prio = LatestOf(calls, n, "priority", "fallback")
      /\ RuleSaid(calls, n - 1).prio = LatestOf(calls, n - 1, "priority", "fallback")
      /\ RuleSaid(calls, n).checker = LatestOf(calls, n, "complete", "none")
      /\ RuleSaid(calls, n - 1).checker = LatestOf(calls, n - 1, "complete", "none")
    BY <1>6
<1> QED BY <1>2, <1>3, <1>4, <1>5, <1>7, Zenon

\* What a builder would make of its calls so far is what they said.
Agrees(b, r) ==
    b.matchers = r.matchers /\ b.steps = r.steps /\ b.prio = r.prio /\ b.checker = r.checker

LEMMA AgreesAfter ==
    ASSUME NEW calls \in Seq(Call), NEW n \in 1..Len(calls), NEW b \in Started,
           Agrees(b, RuleSaid(calls, n - 1))
    PROVE  Agrees(Apply(b, calls[n]), RuleSaid(calls, n))
<1> DEFINE r == RuleSaid(calls, n - 1)
           s == RuleSaid(calls, n)
           call == calls[n]
<1>1. call \in Call
    OBVIOUS
<1>2. /\ s.matchers = IF call[1] = "match" THEN Append(r.matchers, call[2]) ELSE r.matchers
      /\ s.steps = IF call[1] \in {"step", "then"} THEN Append(r.steps, call[2]) ELSE r.steps
      /\ s.prio = IF call[1] = "priority" THEN call[2] ELSE r.prio
      /\ s.checker = IF call[1] = "complete" THEN call[2] ELSE r.checker
    BY SaidNext
<1>3. b.matchers = r.matchers /\ b.steps = r.steps /\ b.prio = r.prio /\ b.checker = r.checker
    BY DEF Agrees
<1>4. b \in Builder /\ b.matchers # <<>>
    BY DEF Started
<1>5. /\ call[1] \in {"match", "priority", "complete", "step", "then", "invalid"}
      /\ call[2] \in Name /\ (call[1] = "then" => call[2] \in Final)
    BY <1>1, CallNames
<1> HIDE DEF r, s, call
<1>6. Agrees(Apply(b, call), s)
  <2>1. CASE call[1] = "match"
      BY <1>2, <1>3, <1>4, <1>5, <2>1, Matched DEF Apply, Agrees
  <2>2. CASE call[1] = "priority"
      BY <1>2, <1>3, <1>4, <1>5, <2>2, Prioritised DEF Apply, Agrees
  <2>3. CASE call[1] = "complete"
      BY <1>2, <1>3, <1>4, <1>5, <2>3, Completed DEF Apply, Agrees
  <2>4. CASE call[1] = "step"
      BY <1>2, <1>3, <1>4, <1>5, <2>4, StepAdded DEF Apply, Agrees
  <2>5. CASE call[1] = "then"
      BY <1>2, <1>3, <1>4, <1>5, <2>5, ThenDone DEF Apply, Agrees
  <2>6. CASE call[1] = "invalid"
      BY <1>2, <1>3, <2>6 DEF Apply, Agrees
  <2> QED BY <1>5, <2>1, <2>2, <2>3, <2>4, <2>5, <2>6
<1> QED BY <1>6 DEF s, call

LEMMA BuiltAsSaid ==
    ASSUME NEW calls, NEW n, NEW b, Agrees(b, RuleSaid(calls, n))
    PROVE  Build(b) = RuleSaid(calls, n)
BY DEF Agrees, Build, RuleSaid

HasFinal(b) == \E i \in DOMAIN b.steps : b.steps[i] \in Final

LEMMA FinalAdded ==
    ASSUME NEW names \in Seq(Name), NEW x \in Name
    PROVE  (\E i \in DOMAIN Append(names, x) : Append(names, x)[i] \in Final) <=>
               ((\E i \in DOMAIN names : names[i] \in Final) \/ x \in Final)
<1>1. /\ DOMAIN Append(names, x) = 1..(Len(names) + 1) /\ DOMAIN names = 1..Len(names) /\ Len(names) \in Nat
      /\ \A i \in 1..Len(names) : Append(names, x)[i] = names[i]
      /\ Append(names, x)[Len(names) + 1] = x
    BY AppendProperties
<1>2. \A i \in 1..(Len(names) + 1) : i \in 1..Len(names) \/ i = Len(names) + 1
    BY <1>1
<1>3. \A i \in 1..Len(names) : i \in 1..(Len(names) + 1)
    BY <1>1
<1>4. Len(names) + 1 \in 1..(Len(names) + 1)
    BY <1>1
<1> HIDE DEF Final
<1> QED BY <1>1, <1>2, <1>3, <1>4, Zenon

\* A call changes nothing but what it names; a final step makes a rule if none was made.
LEMMA MadeByThen ==
    ASSUME NEW b \in Started, NEW call \in Call
    PROVE  /\ call[1] # "then" =>
                  Apply(b, call).made = b.made /\ (HasFinal(Apply(b, call)) <=> HasFinal(b))
           /\ call[1] = "then" =>
                  /\ HasFinal(Apply(b, call))
                  /\ Apply(b, call).made =
                         IF HasFinal(b) THEN b.made ELSE Append(b.made, Build(Apply(b, call)))
<1>1. b \in Builder /\ b.matchers # <<>> /\ b.steps \in Seq(Name)
    BY DEF Started, Builder
<1>2. /\ call[1] \in {"match", "priority", "complete", "step", "then", "invalid"} /\ call[2] \in Name
      /\ call[1] = "step" => call[2] \notin Final
      /\ call[1] = "then" => call[2] \in Final
    BY CallNames
<1>3. CASE call[1] \in {"match", "priority", "complete", "invalid"}
  <2>1. Apply(b, call).made = b.made /\ Apply(b, call).steps = b.steps
      BY <1>1, <1>2, <1>3, Matched, Prioritised, Completed DEF Apply
  <2> QED BY <1>3, <2>1 DEF HasFinal
<1>4. CASE call[1] = "step"
  <2>1. Apply(b, call).made = b.made /\ Apply(b, call).steps = Append(b.steps, call[2])
      BY <1>1, <1>2, <1>4, StepAdded DEF Apply
  <2>2. HasFinal(Apply(b, call)) <=> HasFinal(b)
      BY <1>1, <1>2, <1>4, <2>1, FinalAdded DEF HasFinal
  <2> QED BY <1>4, <2>1, <2>2
<1>5. CASE call[1] = "then"
  <2>1. Apply(b, call) = Then(b, call[2])
      BY <1>5 DEF Apply
  <2>2. /\ Then(b, call[2]).steps = Append(b.steps, call[2])
        /\ Then(b, call[2]).made =
               IF \A i \in DOMAIN b.steps : b.steps[i] \notin Final
                 THEN Append(b.made, Build(Then(b, call[2]))) ELSE b.made
      BY <1>1, <1>2, <1>5, ThenDone
  <2>3. HasFinal(Apply(b, call))
      BY <1>1, <1>2, <1>5, <2>1, <2>2, FinalAdded DEF HasFinal
  <2>4. Apply(b, call).made = IF HasFinal(b) THEN b.made ELSE Append(b.made, Build(Apply(b, call)))
      BY <2>1, <2>2 DEF HasFinal
  <2> QED BY <1>5, <2>3, <2>4
<1> QED BY <1>2, <1>3, <1>4, <1>5

IsFirst(calls, m) == calls[m][1] = "then" /\ \A j \in 1..(m - 1) : calls[j][1] # "then"

\* A builder after n calls: it has made the rule that was said up to the first final step, if any.
AsSaid(calls, b, n) ==
    /\ b \in Started
    /\ Agrees(b, RuleSaid(calls, n))
    /\ (\A i \in 1..n : calls[i][1] # "then") => b.made = <<>> /\ ~HasFinal(b)
    /\ \A m \in 1..n : IsFirst(calls, m) => b.made = <<RuleSaid(calls, m)>> /\ HasFinal(b)

LEMMA AsSaidAfter ==
    ASSUME NEW calls \in Seq(Call), NEW n \in 1..Len(calls), NEW b, AsSaid(calls, b, n - 1)
    PROVE  AsSaid(calls, Apply(b, calls[n]), n)
<1> DEFINE c == Apply(b, calls[n])
<1>1. /\ b \in Started /\ calls[n] \in Call /\ n \in Nat /\ n \in 1..n
      /\ \A i \in 1..(n - 1) : i \in 1..n
      /\ \A i \in 1..n : i \in 1..(n - 1) \/ i = n
    BY DEF AsSaid
<1>2. c \in Started
    BY <1>1, Applied
<1>3. Agrees(c, RuleSaid(calls, n))
    BY <1>1, AgreesAfter DEF AsSaid
<1>4. Build(c) = RuleSaid(calls, n)
    BY <1>3, BuiltAsSaid
<1>5. /\ calls[n][1] # "then" => c.made = b.made /\ (HasFinal(c) <=> HasFinal(b))
      /\ calls[n][1] = "then" =>
             HasFinal(c) /\ c.made = IF HasFinal(b) THEN b.made ELSE Append(b.made, Build(c))
    BY <1>1, MadeByThen
<1>6. (\A i \in 1..n : calls[i][1] # "then") => c.made = <<>> /\ ~HasFinal(c)
    BY <1>1, <1>5 DEF AsSaid
<1>7. ASSUME NEW m \in 1..n, IsFirst(calls, m)
      PROVE  c.made = <<RuleSaid(calls, m)>> /\ HasFinal(c)
  <2>1. CASE m = n
    <3>1. \A i \in 1..(n - 1) : calls[i][1] # "then"
        BY <1>7, <2>1 DEF IsFirst
    <3>2. b.made = <<>> /\ ~HasFinal(b)
        BY <3>1 DEF AsSaid
    <3>3. calls[n][1] = "then"
        BY <1>7, <2>1 DEF IsFirst
    <3>4. c.made = Append(<<>>, RuleSaid(calls, n)) /\ HasFinal(c)
        BY <1>4, <1>5, <3>2, <3>3
    <3> QED BY <2>1, <3>4
  <2>2. CASE m \in 1..(n - 1)
    <3>1. b.made = <<RuleSaid(calls, m)>> /\ HasFinal(b)
        BY <1>7, <2>2 DEF AsSaid
    <3> QED BY <1>5, <3>1
  <2> QED BY <1>1, <2>1, <2>2
<1> HIDE DEF c
<1>8. AsSaid(calls, c, n)
    BY <1>2, <1>3, <1>6, <1>7 DEF AsSaid
<1> QED BY <1>8 DEF c

LEMMA StartOfUnmatched ==
    ASSUME NEW builder \in ForUnmatchedRequest
    PROVE  builder = [matchers |-> <<"wildcard">>, steps |-> <<>>, prio |-> "fallback",
                      checker |-> "none", made |-> <<>>]
<1>1. PICK b \in RequestBuilder("any", "none") : builder = [b EXCEPT !.prio = "fallback"]
    BY DEF ForUnmatchedRequest
<1>2. b = NewBuilder(<<>> \o <<PathMatcher["none"]>>)
    BY <1>1 DEF RequestBuilder
<1>3. PathMatcher["none"] = "wildcard"
    BY DEF PathMatcher
<1>4. <<>> \o <<"wildcard">> = <<"wildcard">>
    OBVIOUS
<1>5. b = NewBuilder(<<"wildcard">>)
    BY <1>2, <1>3, <1>4
<1> QED BY <1>1, <1>5 DEF NewBuilder

LEMMA NothingSaid ==
    ASSUME NEW calls \in Seq(Call), NEW builder \in ForUnmatchedRequest
    PROVE  AsSaid(calls, builder, 0)
<1>1. builder = [matchers |-> <<"wildcard">>, steps |-> <<>>, prio |-> "fallback",
                 checker |-> "none", made |-> <<>>]
    BY StartOfUnmatched
<1>2. builder \in Started
  <2>1. <<"wildcard">> \in Seq(Name) /\ <<"wildcard">> # <<>> /\ "fallback" \in Name /\ "none" \in Name
      BY DEF Name
  <2>2. <<>> \in Seq(Name) /\ <<>> \in Seq(MadeRule)
      OBVIOUS
  <2> QED BY <1>1, <2>1, <2>2 DEF Started, Builder
<1>3. \A methods : Operands(calls, methods)[0] = <<>>
    BY OperandsRun
<1>4. <<"wildcard">> \o <<>> = <<"wildcard">>
  <2>1. <<"wildcard">> \in Seq(Name)
      BY DEF Name
  <2> QED BY <2>1, ConcatEmptySeq
<1>5. Agrees(builder, RuleSaid(calls, 0))
    BY <1>1, <1>3, <1>4 DEF Agrees, RuleSaid, MatchersSaid, LatestOf
<1>6. builder.made = <<>> /\ ~HasFinal(builder)
    BY <1>1 DEF HasFinal
<1>7. 1..0 = {}
    OBVIOUS
<1> QED BY <1>2, <1>5, <1>6, <1>7 DEF AsSaid

LEMMA CallsAsSaid ==
    ASSUME NEW calls \in Seq(Call), NEW builder \in ForUnmatchedRequest
    PROVE  AsSaid(calls, After(builder, calls)[Len(calls)], Len(calls))
<1> DEFINE N == Len(calls)
           after == After(builder, calls)
<1>1. N \in Nat
    OBVIOUS
<1>2. AsSaid(calls, builder, 0)
    BY NothingSaid
<1>3. after[0] = builder /\ \A n \in 1..N : after[n] = Apply(after[n - 1], calls[n])
    BY <1>2, AfterRun DEF AsSaid
<1> HIDE DEF after
<1> DEFINE T == {k \in Nat : k \in 0..N => AsSaid(calls, after[k], k)}
<1>4. 0 \in T
    BY <1>2, <1>3
<1>5. ASSUME NEW k \in T
      PROVE  k + 1 \in T
  <2>1. CASE k + 1 \in 0..N
    <3>1. k \in 0..N /\ k + 1 \in 1..N /\ (k + 1) - 1 = k
        BY <1>1, <2>1
    <3>2. AsSaid(calls, after[k], k)
        BY <3>1
    <3>3. after[k + 1] = Apply(after[k], calls[k + 1])
        BY <1>3, <3>1
    <3>4. AsSaid(calls, after[k + 1], k + 1)
        BY <3>1, <3>2, <3>3, AsSaidAfter
    <3> QED BY <3>4
  <2> QED BY <2>1
<1> HIDE DEF T
<1>6. T = Nat
    BY <1>4, <1>5, Induction DEF T
<1>7. AsSaid(calls, after[N], N)
    BY <1>1, <1>6 DEF T
<1> QED BY <1>7 DEF after

\* However often, and in whatever order, a builder is called.
LEMMA BuilderMakesOneRule ==
    ASSUME NEW calls \in Seq(Call), NEW builder \in ForUnmatchedRequest
    PROVE  MadeAsSaid(calls, builder)
<1> DEFINE N == Len(calls)
           b == After(builder, calls)[N]
           finals == {i \in DOMAIN calls : calls[i][1] = "then"}
           first == CHOOSE i \in finals : \A j \in finals : i <= j
<1>1. N \in Nat /\ DOMAIN calls = 1..N
    OBVIOUS
<1>2. AsSaid(calls, b, N)
    BY CallsAsSaid
<1> HIDE DEF b
<1>3. CASE finals = {}
  <2>1. b.made = <<>>
      BY <1>1, <1>2, <1>3 DEF AsSaid
  <2> QED BY <1>3, <2>1 DEF MadeAsSaid, b
<1>4. CASE finals # {}
  <2>1. finals \in SUBSET Nat
      BY <1>1
  <2>2. \E i \in finals : \A j \in finals : i <= j
      BY <1>4, <2>1, LeastOf
  <2> HIDE DEF finals
  <2>3. first \in finals /\ \A j \in finals : first <= j
      BY <2>2
  <2> HIDE DEF first
  <2>4. first \in 1..N /\ calls[first][1] = "then"
      BY <1>1, <2>3 DEF finals
  <2>5. ASSUME NEW j \in 1..(first - 1)
        PROVE  calls[j][1] # "then"
    <3>1. j \in 1..N /\ ~(first <= j)
        BY <1>1, <2>4
    <3>2. j \notin finals
        BY <2>3, <3>1
    <3> QED BY <1>1, <3>1, <3>2 DEF finals
  <2>6. b.made = <<RuleSaid(calls, first)>>
      BY <1>2, <2>4, <2>5 DEF AsSaid, IsFirst
  <2>7. RuleSaid(calls, first).matchers = MatchersSaid(calls, first)
      BY DEF RuleSaid
  <2>8. MatchersNow(b, TRUE) = MatchersSaid(calls, first)
      BY <2>6, <2>7 DEF MatchersNow
  <2>9. b.matchers = RuleSaid(calls, N).matchers
      BY <1>2 DEF AsSaid, Agrees
  <2>10. MatchersNow(b, FALSE) = MatchersSaid(calls, N)
      BY <2>9 DEF MatchersNow, RuleSaid
  <2> QED BY <1>4, <2>6, <2>8, <2>10 DEF MadeAsSaid, finals, first, b
<1> QED BY <1>3, <1>4

LEMMA OneRuleLaw == OneRuleAsSaid
<1>1. ASSUME NEW calls \in UNION {[1..n -> Call] : n \in 0..MaxCalls}
      PROVE  calls \in Seq(Call)
  <2>1. PICK n \in 0..MaxCalls : calls \in [1..n -> Call]
      OBVIOUS
  <2>2. n \in Nat
      BY <2>1, MaxCallsAssumption
  <2> QED BY <2>1, <2>2
<1> QED BY <1>1, BuilderMakesOneRule DEF OneRuleAsSaid

LEMMA StartLaw == AnyStartIsAccepted
<1> DEFINE Path == {"none", "empty", "text", "regex"}
<1>1. ASSUME NEW path \in Path, path # "empty"
      PROVE  PathMatcher[path] \in {"wildcard", "simple-path", "regex-path"}
    BY <1>1 DEF PathMatcher
<1>2. ASSUME NEW matchers, matchers # <<>>
      PROVE  Len(Then(NewBuilder(matchers), "reply").made) = 1
  <2> DEFINE b == NewBuilder(matchers)
             next == AddStep(b, "reply")
  <2>1. b.made = <<>> /\ b.steps = <<>> /\ b.matchers = matchers
        /\ DOMAIN b = {"matchers", "steps", "prio", "checker", "made"}
      BY DEF NewBuilder
  <2>2. next = [matchers |-> matchers, steps |-> <<"reply">>, prio |-> "default", checker |-> "none",
                made |-> <<>>]
      BY DEF AddStep, NewBuilder
  <2> HIDE DEF b, next
  <2>3. Build(next) = [matchers |-> matchers, steps |-> <<"reply">>, prio |-> "default", checker |-> "none"]
      BY <2>2 DEF Build
  <2>4. IsAccepted(Build(next))
      BY <1>2, <2>3 DEF IsAccepted
  <2> DEFINE made == IF IsAccepted(Build(next)) THEN Append(next.made, Build(next)) ELSE next.made
  <2>5. Then(b, "reply") = [next EXCEPT !.made = made]
      BY DEF Then, next
  <2>6. Len(made) = 1
      BY <2>2, <2>4
  <2> HIDE DEF made
  <2>7. Then(b, "reply").made = made
      BY <2>2, <2>5
  <2> QED BY <2>6, <2>7 DEF b
<1>3. ASSUME NEW method \in {"any", "get", "options"}, NEW path \in Path
      PROVE  /\ \A b \in RequestBuilder(method, path) : Len(Then(b, "reply").made) = 1
             /\ RequestBuilder(method, path) = {} <=> path = "empty"
  <2>1. CASE path = "empty"
      BY <2>1 DEF RequestBuilder
  <2>2. CASE path # "empty"
    <3> DEFINE matchers == (IF method = "any" THEN <<>> ELSE <<"method">>) \o <<PathMatcher[path]>>
    <3>1. matchers # <<>>
        OBVIOUS
    <3>2. RequestBuilder(method, path) = {NewBuilder(matchers)}
        BY <2>2 DEF RequestBuilder
    <3> QED BY <1>2, <2>2, <3>1, <3>2
  <2> QED BY <2>1, <2>2
<1>4. ASSUME NEW path \in Path
      PROVE  \A b \in WebSocketBuilder(path) : Len(Then(b, "reply").made) = 1
  <2>1. <<IF path = "empty" THEN "wildcard" ELSE PathMatcher[path]>> # <<>>
      OBVIOUS
  <2> QED BY <1>2, <2>1 DEF WebSocketBuilder
<1> QED BY <1>3, <1>4 DEF AnyStartIsAccepted, ForMethod

LEMMA OverloadLaw == OverloadsAreDistinct
<1>1. ASSUME NEW data \in {"text", "buffer"}, NEW headers \in {"headers", "missing"},
             NEW trailers \in {"headers", "missing"}, NEW message \in {"text", "missing"}
      PROVE  /\ ReplyArguments(<<data, headers, trailers, "missing">>) =
                [message |-> "missing", data |-> data, headers |-> headers, trailers |-> trailers]
             /\ ReplyArguments(<<message, data, headers, trailers>>) =
                [message |-> message, data |-> data, headers |-> headers, trailers |-> trailers]
             /\ FileArguments(<<"text", headers, "missing">>).headers = headers
             /\ FileArguments(<<message, "text", headers>>).headers = headers
    BY DEF ReplyArguments, FileArguments, IsData
<1>2. ASSUME NEW names \in SUBSET {"Content-Type", "content-type", "a"}, NEW name \in names
      PROVE  JsonHeaders([n \in names |-> "user"])[name] = "user"
    BY DEF JsonHeaders
<1> QED BY <1>1, <1>2, Zenon DEF OverloadsAreDistinct

LEMMA OptionsChanged ==
    ASSUME NEW C, NEW T, NEW P, NEW H,
           NEW o \in [callback : C, transforms : T, protocol : P, host : H],
           NEW transforms, NEW protocol, NEW host
    PROVE  LET p == [o EXCEPT !.transforms = transforms, !.host = host, !.protocol = protocol]
               q == [o EXCEPT !.protocol = protocol]
           IN  /\ p.callback = o.callback /\ p.transforms = transforms /\ p.protocol = protocol
               /\ p.host = host
               /\ q.callback = o.callback /\ q.transforms = o.transforms /\ q.protocol = protocol
               /\ q.host = o.host
OBVIOUS

LEMMA ForwardLaw == ForwardsToTarget
<1> SUFFICES ASSUME NEW callback \in BOOLEAN,
                    NEW transforms \in SUBSET (HostTransforms \cup HeaderTransforms \cup BodyTransforms),
                    NEW protocol \in {"none", "http", "https", "ws"}, NEW path \in BOOLEAN,
                    NEW scheme \in {"none", "http", "https", "ftp"}
             PROVE  LET to == [scheme |-> scheme, path |-> path]
                        options == [callback |-> callback, transforms |-> transforms, protocol |-> protocol,
                                    host |-> [scheme |-> "none", path |-> FALSE]]
                    IN /\ \A o \in ForwardTo(options, to) :
                              /\ o.host = to /\ ~path /\ scheme # "ftp" /\ ~callback
                              /\ scheme \in {"none", o.protocol}
                              /\ "matchReplaceHost" \notin o.transforms
                       /\ \A o \in WebSocketForwardTo(options, to) :
                              o.host = to /\ ~path /\ o.protocol = WebSocketScheme(scheme) /\ scheme # "ftp"
                       /\ ForwardTo(options, to) # {} =>
                              PassThroughStep([options EXCEPT !.protocol = "none"]) # {}
    BY Zenon DEF ForwardsToTarget
<1> DEFINE to == [scheme |-> scheme, path |-> path]
           free == [scheme |-> "none", path |-> FALSE]
           options == [callback |-> callback, transforms |-> transforms, protocol |-> protocol, host |-> free]
           set == transforms \cup {"replaceHost"}
           sent == IF scheme = "none" THEN protocol ELSE scheme
           http == [options EXCEPT !.transforms = set, !.host = to, !.protocol = sent]
           websocket == [options EXCEPT !.transforms = set, !.host = to, !.protocol = WebSocketScheme(scheme)]
           plain == [options EXCEPT !.protocol = "none"]
<1>1. /\ options \in [callback : {callback}, transforms : {transforms}, protocol : {protocol}, host : {free}]
      /\ options.callback = callback /\ options.transforms = transforms /\ options.protocol = protocol
      /\ options.host = free /\ to.scheme = scheme /\ to.path = path /\ free.path = FALSE
    OBVIOUS
<1> HIDE DEF options, to, free
<1>2. ForwardTo(options, to) = PassThroughStep(http)
    BY <1>1 DEF ForwardTo
<1>3. WebSocketForwardTo(options, to) = PassThroughWebSocketStep(websocket)
    BY <1>1 DEF WebSocketForwardTo
<1> HIDE DEF http, websocket, plain
<1>4. ASSUME NEW o \in PassThroughStep(http)
      PROVE  /\ o.host = to /\ ~path /\ scheme # "ftp" /\ ~callback
             /\ scheme \in {"none", o.protocol}
             /\ "matchReplaceHost" \notin o.transforms
             /\ OneEach(transforms)
  <2>1. /\ http.host = to /\ http.protocol = sent /\ http.transforms = set /\ http.callback = callback
        /\ to.path = path
      BY <1>1, OptionsChanged DEF http
  <2>2. "replaceHost" \in set /\ transforms \subseteq set
      OBVIOUS
  <2> HIDE DEF set
  <2>3. o = http /\ ~callback /\ OneEach(set) /\ sent \in {"none", "http", "https"} /\ ValidHost(http)
      BY <2>1, <2>2 DEF PassThroughStep
  <2>4. ~path
      BY <2>1, <2>2, <2>3 DEF ValidHost, HostTransforms
  <2>5. "matchReplaceHost" \notin set
    <3>1. \A s, t \in HostTransforms \cap set : s = t
        BY <2>3 DEF OneEach
    <3> QED BY <2>2, <3>1 DEF HostTransforms
  <2>6. OneEach(transforms)
      BY <2>2, <2>3 DEF OneEach
  <2> QED BY <2>1, <2>3, <2>4, <2>5, <2>6
<1>5. ASSUME NEW o \in PassThroughWebSocketStep(websocket)
      PROVE  o.host = to /\ ~path /\ o.protocol = WebSocketScheme(scheme) /\ scheme # "ftp"
  <2>1. /\ websocket.host = to /\ websocket.protocol = WebSocketScheme(scheme)
        /\ websocket.transforms = set /\ to.path = path
      BY <1>1, OptionsChanged DEF websocket
  <2>2. "replaceHost" \in set
      OBVIOUS
  <2> HIDE DEF set
  <2>3. o = websocket /\ WebSocketScheme(scheme) \in {"none", "ws", "wss"} /\ ValidHost(websocket)
      BY <2>1 DEF PassThroughWebSocketStep
  <2>4. ~path
      BY <2>1, <2>2, <2>3 DEF ValidHost, HostTransforms
  <2> QED BY <2>1, <2>3, <2>4 DEF WebSocketScheme
<1>6. ASSUME ~callback, OneEach(transforms)
      PROVE  PassThroughStep(plain) # {}
  <2>1. /\ plain.callback = callback /\ plain.transforms = transforms /\ plain.protocol = "none"
        /\ plain.host.path = FALSE
      BY <1>1, OptionsChanged DEF plain
  <2>2. ValidHost(plain)
      BY <2>1 DEF ValidHost
  <2>3. plain \in PassThroughStep(plain)
      BY <1>6, <2>1, <2>2 DEF PassThroughStep
  <2> QED BY <2>3
<1>7. PassThroughStep(http) # {} => PassThroughStep(plain) # {}
  <2>1. ASSUME PassThroughStep(http) # {}
        PROVE  PassThroughStep(plain) # {}
    <3>1. PICK o : o \in PassThroughStep(http)
        BY <2>1
    <3>2. ~callback /\ OneEach(transforms)
        BY <1>4, <3>1
    <3> QED BY <1>6, <3>2
  <2> QED BY <2>1
<1>8. /\ \A o \in ForwardTo(options, to) :
             /\ o.host = to /\ ~path /\ scheme # "ftp" /\ ~callback
             /\ scheme \in {"none", o.protocol}
             /\ "matchReplaceHost" \notin o.transforms
      /\ \A o \in WebSocketForwardTo(options, to) :
             o.host = to /\ ~path /\ o.protocol = WebSocketScheme(scheme) /\ scheme # "ftp"
      /\ ForwardTo(options, to) # {} =>
             PassThroughStep([options EXCEPT !.protocol = "none"]) # {}
    BY <1>2, <1>3, <1>4, <1>5, <1>7, Zenon DEF plain
<1> QED BY <1>8, Zenon DEF options, to, free

(***************************************************************************)
(* However many calls it gets, in whatever order, a builder makes at most  *)
(* one rule, from exactly what it was told, every start of a rule can be   *)
(* completed, overloads are told apart, and what forwards goes to its      *)
(* target by the protocol that the target names.                           *)
(***************************************************************************)
THEOREM MatchingRulesAreAsSaid == Spec => []RulesAreAsSaid
<1>1. RulesAreAsSaid
    BY OneRuleLaw, StartLaw, OverloadLaw, ForwardLaw, Zenon DEF RulesAreAsSaid, BuilderLaws
<1> QED BY <1>1, PTL

=============================================================================
