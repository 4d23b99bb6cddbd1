------------------------- MODULE ReviewRetry_proofs -------------------------
(***************************************************************************)
(* The retry rounds for any list of analyzed items, with any urls twice or *)
(* more: every item is judged, none waits for another review, and no url   *)
(* is reviewed more often than its items and once more.                    *)
(***************************************************************************)
EXTENDS ReviewRetry, FiniteSetTheorems, FunctionTheorems, WellFoundedInduction, TLAPS

Copies(u) == {i \in Items : UrlOf[i] = u}
Listed(u) == {slot \in batch : UrlOf[slot[1]] = u}
Asked(entries, u) == {e \in Of(entries, u) : e.verdict = "retry"}
Retries(u) == retryCount[Matched(u)]

Reviewing == at \in {"review", "merge"}

\* The graph reviews every item once, a retry round first items of a url only.
Rounds ==
  Reviewing =>
    /\ round = 0 => /\ batch = {<<i, 1>> : i \in Items} /\ reviewed = {}
                    /\ retryCount = [i \in Items |-> 0]
                    /\ at = "review" => calls = [u \in Urls |-> 0]
                    /\ at = "merge" => \A u \in Urls : calls[u] = Cardinality(Copies(u))
    /\ round > 0 => \A slot \in batch : slot[1] = Matched(UrlOf[slot[1]])

\* The entries answer the slots of the batch, one each.
Answered ==
  at = "merge" =>
    /\ \A e \in answers : /\ <<e.item, e.time>> \in batch
                          /\ e.exhausted <=> Exhausted(e.item)
                          /\ e.exhausted => e.verdict = "discarded"
    /\ \A slot \in batch : \E e \in answers : e.item = slot[1] /\ e.time = slot[2]
    /\ \A e, f \in answers : e.item = f.item /\ e.time = f.time => e = f

(* In a retry round: whatever still says retry is reviewed again, and an   *)
(* item that is has used up its retries, or is listed once and has been    *)
(* reviewed with the other items of its url only.                          *)
Again(u) ==
  Reviewing /\ round > 0 =>
    /\ Of(reviewed, u) # {}
    /\ Listed(u) = {} => Asked(reviewed, u) = {}
    /\ Listed(u) # {} => Retries(u) >= 1
    /\ Listed(u) # {} /\ Retries(u) = 1 =>
         /\ Listed(u) = {<<Matched(u), 1>>} /\ round = 1
         /\ calls[u] = Cardinality(Copies(u)) + (IF at = "merge" THEN 1 ELSE 0)

Counts(u) ==
  /\ calls[u] <= Cardinality(Copies(u)) + 1
  /\ Retries(u) = 2 /\ Cardinality(Copies(u)) = 1 => calls[u] = 2
  /\ \A e \in Of(reviewed, u) : e.exhausted => Retries(u) = 2

Judged(u) ==
  /\ articles[u] # "retry"
  /\ Final => /\ itemRow[u] # "collected" \/ Of(reviewed, u) # {}
              /\ Asked(reviewed, u) = {}

Inv ==
  /\ TypeOK /\ Rounds /\ Answered
  /\ \A u \in Urls : Again(u) /\ Counts(u) /\ Judged(u)

-----------------------------------------------------------------------------
(* A set of naturals has a least member.                                   *)
LEMMA LeastExists ==
  ASSUME NEW S, S \subseteq Nat, S # {}
  PROVE  \E m \in S : \A x \in S : m <= x
<1>1. PICK m \in S : \A x \in S : ~ (<<x, m>> \in OpToRel(<, Nat))
  BY WFMin, NatLessThanWellFounded, Zenon
<1>2. ASSUME NEW x \in S PROVE ~ (x < m)
  BY <1>1, Zenon DEF OpToRel
<1>3. \A x \in S : m <= x
  BY <1>2
<1> QED
  BY <1>3

(* Items are their positions in the list of analyzed items.                *)
LEMMA ItemsAreNumbers == Items \subseteq Nat /\ \A i \in Items : UrlOf[i] \in Urls
<1>1. Cardinality(Items) \in Nat
  BY ItemsAssumption, FS_CardinalityType
<1>2. 1..Cardinality(Items) \subseteq Nat
  BY <1>1
<1> QED
  BY <1>2, ItemsAssumption DEF Urls

(* Every url has a first item.                                             *)
LEMMA FirstItem ==
  ASSUME NEW u \in Urls
  PROVE  Matched(u) \in Copies(u) /\ Matched(u) \in Items /\ UrlOf[Matched(u)] = u
<1>1. Copies(u) \subseteq Nat /\ Copies(u) # {}
  BY ItemsAreNumbers DEF Copies, Urls
<1>2. PICK m \in Copies(u) : \A x \in Copies(u) : m <= x
  BY <1>1, LeastExists
<1>3. \E i \in Items : UrlOf[i] = u /\ \A j \in Items : UrlOf[j] = u => i <= j
  BY <1>2 DEF Copies
<1>4. Matched(u) \in Items /\ UrlOf[Matched(u)] = u
  BY <1>3 DEF Matched
<1> QED
  BY <1>4 DEF Copies

(* Every url has one item or more.                                         *)
LEMMA CopiesCounted ==
  ASSUME NEW u \in Urls
  PROVE  IsFiniteSet(Copies(u)) /\ Cardinality(Copies(u)) \in Nat /\ Cardinality(Copies(u)) >= 1
<1>1. IsFiniteSet(Copies(u)) /\ Cardinality(Copies(u)) \in Nat
  BY ItemsAssumption, FS_Subset, FS_CardinalityType DEF Copies
<1>2. Cardinality(Copies(u)) # 0
  BY <1>1, FirstItem, FS_EmptySet
<1> QED
  BY <1>1, <1>2

(* A set with one member at most.                                          *)
LEMMA AtMostOne ==
  ASSUME NEW S, NEW x, S \subseteq {x}
  PROVE  IF S = {} THEN Cardinality(S) = 0 ELSE Cardinality(S) = 1
<1>1. S = {} \/ S = {x}
  OBVIOUS
<1> QED
  BY <1>1, FS_EmptySet, FS_Singleton

(* A run begins with the first round of the graph.                         *)
LEMMA InitInvariant == Init => Inv
<1> SUFFICES ASSUME Init PROVE Inv
  OBVIOUS
<1> USE DEF Init
<1>1. TypeOK
  <2>1. batch \subseteq Slots
    BY DEF Slots, MAX_RETRIES
  <2> QED
    BY <2>1 DEF TypeOK, MAX_RETRIES
<1>2. Rounds /\ Answered
  BY DEF Rounds, Answered
<1>3. ASSUME NEW u \in Urls PROVE Again(u) /\ Counts(u) /\ Judged(u)
  <2>1. Retries(u) = 0 /\ calls[u] = 0 /\ Of(reviewed, u) = {}
    BY FirstItem DEF Retries, Of
  <2>2. Counts(u)
    BY <2>1, CopiesCounted DEF Counts
  <2> QED
    BY <2>1, <2>2 DEF Again, Judged, Final
<1> QED
  BY <1>1, <1>2, <1>3 DEF Inv

-----------------------------------------------------------------------------
(* What a review adds to the calls: one for every listed slot whose item   *)
(* has not used up its retries.                                            *)
Called(u) == {slot \in batch : UrlOf[slot[1]] = u /\ ~ Exhausted(slot[1])}

(* The graph calls the model once for every item.                          *)
LEMMA FirstCalls ==
  ASSUME Inv, at = "review", round = 0, NEW u \in Urls
  PROVE  Cardinality(Called(u)) = Cardinality(Copies(u)) /\ calls[u] = 0
<1>1. batch = {<<i, 1>> : i \in Items} /\ \A i \in Items : ~ Exhausted(i)
  BY DEF Inv, Rounds, Reviewing, Exhausted, MAX_RETRIES
<1>2. Called(u) = {<<i, 1>> : i \in Copies(u)}
  BY <1>1 DEF Called, Copies
<1> DEFINE slotOf == [i \in Copies(u) |-> <<i, 1>>]
<1>3. slotOf \in Bijection(Copies(u), Called(u))
  <2>1. slotOf \in Injection(Copies(u), Called(u))
    BY <1>2 DEF Injection, IsInjective
  <2>2. slotOf \in Surjection(Copies(u), Called(u))
    BY <1>2 DEF Surjection
  <2> QED
    BY <2>1, <2>2 DEF Bijection
<1>4. Cardinality(Called(u)) = Cardinality(Copies(u))
  BY <1>3, CopiesCounted, FS_Bijection DEF ExistsBijection
<1> QED
  BY <1>4 DEF Inv, Rounds, Reviewing

(* A retry round calls it once for a url with one retry left, or not.      *)
LEMMA LaterCalls ==
  ASSUME Inv, at = "review", round > 0, NEW u \in Urls
  PROVE  /\ Called(u) = {} \/ (Called(u) = {<<Matched(u), 1>>} /\ Retries(u) = 1 /\ Listed(u) # {})
         /\ Listed(u) # {} /\ Retries(u) = 1 => Called(u) # {}
<1>1. /\ Listed(u) # {} => Retries(u) >= 1
      /\ Listed(u) # {} /\ Retries(u) = 1 => Listed(u) = {<<Matched(u), 1>>}
      /\ Retries(u) \in 0..2
      /\ \A slot \in Listed(u) : slot[1] = Matched(u)
  BY FirstItem DEF Inv, Again, Rounds, Reviewing, Retries, TypeOK, MAX_RETRIES, Listed
<1>2. \A slot \in Listed(u) : Exhausted(slot[1]) <=> Retries(u) >= 2
  BY <1>1 DEF Exhausted, Retries, MAX_RETRIES
<1>3. Called(u) = {slot \in Listed(u) : ~ Exhausted(slot[1])}
  BY DEF Called, Listed
<1>4. CASE Retries(u) = 1 /\ Listed(u) # {}
  BY <1>1, <1>2, <1>3, <1>4
<1>5. CASE Retries(u) = 2 \/ Listed(u) = {}
  BY <1>2, <1>3, <1>5
<1>6. Retries(u) \in {0, 1, 2}
  BY <1>1
<1>7. Retries(u) = 0 => Listed(u) = {}
  BY <1>1
<1> QED
  BY <1>4, <1>5, <1>6, <1>7

(* The reviewer answers every slot of the round.                           *)
LEMMA ReviewKeeps == Inv /\ Review => Inv'
<1> SUFFICES ASSUME Inv, Review PROVE Inv'
  OBVIOUS
<1>1. /\ at = "review" /\ at' = "merge"
      /\ UNCHANGED <<round, retryCount, batch, reviewed, articles, itemRow>>
      /\ calls' = [u \in Urls |-> calls[u] + Cardinality(Called(u))]
  BY DEF Review, Called
<1>2. PICK verdict \in [batch -> Verdicts] :
        /\ \A slot \in batch : Exhausted(slot[1]) => verdict[slot] = "discarded"
        /\ answers' = {[item |-> slot[1], time |-> slot[2], verdict |-> verdict[slot],
                        exhausted |-> Exhausted(slot[1])] : slot \in batch}
  BY DEF Review
<1>3. \A slot \in batch : /\ slot[1] \in Items /\ slot[2] \in 1..MAX_RETRIES
                          /\ slot = <<slot[1], slot[2]>>
  BY DEF Inv, TypeOK, Slots
<1>4. /\ answers' \subseteq Entry /\ Answered'
  <2>1. answers' \subseteq Entry
    <3>1. \A i : Exhausted(i) \in BOOLEAN
      BY DEF Exhausted
    <3> QED
      BY <1>2, <1>3, <3>1 DEF Entry
  <2>2. \A i : Exhausted(i)' <=> Exhausted(i)
    BY <1>1 DEF Exhausted
  <2>3. Answered'
    <3>1. ASSUME NEW e \in answers'
          PROVE  /\ <<e.item, e.time>> \in batch
                 /\ e.exhausted <=> Exhausted(e.item)
                 /\ e.exhausted => e.verdict = "discarded"
                 /\ e = [item |-> e.item, time |-> e.time, verdict |-> verdict[<<e.item, e.time>>],
                         exhausted |-> Exhausted(e.item)]
      BY <1>2, <1>3
    <3>2. ASSUME NEW slot \in batch
          PROVE  \E e \in answers' : e.item = slot[1] /\ e.time = slot[2]
      <4> DEFINE e == [item |-> slot[1], time |-> slot[2], verdict |-> verdict[slot],
                       exhausted |-> Exhausted(slot[1])]
      <4>1. e \in answers'
        BY <1>2
      <4>2. e.item = slot[1] /\ e.time = slot[2]
        OBVIOUS
      <4> HIDE DEF e
      <4> QED
        BY <4>1, <4>2
    <3>3. ASSUME NEW e \in answers', NEW f \in answers', e.item = f.item, e.time = f.time
          PROVE  e = f
      <4> DEFINE Made(g) == [item |-> g.item, time |-> g.time,
                             verdict |-> verdict[<<g.item, g.time>>],
                             exhausted |-> Exhausted(g.item)]
      <4>1. e = Made(e) /\ f = Made(f)
        BY <3>1
      <4>2. Made(e) = Made(f)
        BY <3>3
      <4> HIDE DEF Made
      <4> QED
        BY <4>1, <4>2
    <3> QED
      BY <1>1, <2>2, <3>1, <3>2, <3>3 DEF Answered
  <2> QED
    BY <2>1, <2>3
<1>5. ASSUME NEW u \in Urls
      PROVE  /\ calls[u] + Cardinality(Called(u)) \in Nat
             /\ round = 0 => calls'[u] = Cardinality(Copies(u))
             /\ round > 0 /\ Listed(u) # {} /\ Retries(u) = 1 =>
                  calls'[u] = Cardinality(Copies(u)) + 1
             /\ calls'[u] <= Cardinality(Copies(u)) + 1
             /\ Retries(u) = 2 => calls'[u] = calls[u]
  <2> DEFINE c == Cardinality(Copies(u))  a == Cardinality(Called(u))
  <2>1. c \in Nat /\ calls[u] \in Nat /\ calls[u] <= c + 1 /\ calls'[u] = calls[u] + a
        /\ round \in 0..2
    BY <1>1, CopiesCounted DEF Inv, TypeOK, Counts, MAX_RETRIES
  <2>2. CASE round = 0
    <3>1. a = c /\ calls[u] = 0
      BY <1>1, <2>2, FirstCalls
    <3>2. Retries(u) = 0
      BY <1>1, <2>2, FirstItem DEF Inv, Rounds, Reviewing, Retries
    <3> HIDE DEF a, c
    <3> QED
      BY <2>1, <2>2, <3>1, <3>2 DEF a, c
  <2>3. CASE round > 0
    <3>1. /\ Called(u) = {} \/ (Called(u) = {<<Matched(u), 1>>} /\ Retries(u) = 1 /\ Listed(u) # {})
          /\ Listed(u) # {} /\ Retries(u) = 1 => Called(u) # {}
      BY <1>1, <2>3, LaterCalls
    <3>2. Listed(u) # {} /\ Retries(u) = 1 => calls[u] = c
      <4>1. Listed(u) # {} /\ Retries(u) = 1 => calls[u] = c + 0
        BY <1>1, <2>3 DEF Inv, Again, Reviewing
      <4> HIDE DEF c
      <4> QED
        BY <2>1, <4>1
    <3>3. IF Called(u) = {} THEN a = 0 ELSE a = 1
      BY <3>1, AtMostOne
    <3> HIDE DEF a, c
    <3>4. CASE Called(u) = {}
      BY <2>1, <2>3, <3>1, <3>3, <3>4 DEF a, c
    <3>5. CASE Called(u) # {}
      BY <2>1, <2>3, <3>1, <3>2, <3>3, <3>5 DEF a, c
    <3> QED
      BY <3>4, <3>5
  <2> QED
    BY <2>1, <2>2, <2>3
<1>6. TypeOK'
  BY <1>1, <1>4, <1>5 DEF Inv, TypeOK
<1>7. Rounds'
  BY <1>1, <1>5 DEF Inv, Rounds, Reviewing
<1>8. ASSUME NEW u \in Urls PROVE (Again(u) /\ Counts(u) /\ Judged(u))'
  <2>1. Retries(u)' = Retries(u) /\ Listed(u)' = Listed(u)
    BY <1>1 DEF Retries, Listed
  <2>2. Again(u)'
    BY <1>1, <1>5, <2>1 DEF Inv, Again, Reviewing
  <2>3. Counts(u)'
    BY <1>1, <1>5, <2>1 DEF Inv, Counts
  <2>4. Judged(u)'
    BY <1>1 DEF Inv, Judged, Final
  <2> QED
    BY <2>2, <2>3, <2>4
<1> QED
  BY <1>4, <1>6, <1>7, <1>8 DEF Inv

-----------------------------------------------------------------------------
(* The entries after a round: no url loses its own, what is to be reviewed *)
(* again is known, and so is who has used up its retries.                  *)
All == IF round = 0 THEN answers ELSE Merged(reviewed, answers)

(* The merged entries are entries of the rounds.                           *)
LEMMA AllEntries == Inv => All \subseteq Entry
<1>1. Merged(reviewed, answers) \subseteq reviewed \union answers
  BY DEF Merged, Latest
<1> QED
  BY <1>1 DEF Inv, TypeOK, All

(* After the graph every item has one entry, so a url has as many that ask *)
(* for a retry as items at most, and none is exhausted.                    *)
LEMMA FirstRound ==
  ASSUME Inv, at = "merge", round = 0, NEW u \in Urls
  PROVE  /\ Of(All, u) # {}
         /\ IsFiniteSet(Asked(All, u)) /\ Cardinality(Asked(All, u)) <= Cardinality(Copies(u))
         /\ Retries(u) = 0 /\ calls[u] = Cardinality(Copies(u))
         /\ \A e \in Of(All, u) : ~ e.exhausted
<1>1. /\ batch = {<<i, 1>> : i \in Items} /\ retryCount = [i \in Items |-> 0]
      /\ calls[u] = Cardinality(Copies(u)) /\ All = answers
  BY DEF Inv, Rounds, Reviewing, All
<1>2. /\ \A e \in answers : /\ e.item \in Items /\ e.time = 1
                            /\ e.exhausted <=> Exhausted(e.item)
      /\ \A i \in Items : \E e \in answers : e.item = i
      /\ \A e, f \in answers : e.item = f.item => e = f
  <2>1. \A e \in answers : <<e.item, e.time>> \in batch /\ (e.exhausted <=> Exhausted(e.item))
    BY DEF Inv, Answered
  <2>2. \A e \in answers : e.item \in Items /\ e.time = 1
    BY <1>1, <2>1
  <2>3. \A i \in Items : \E e \in answers : e.item = i
    <3> TAKE i \in Items
    <3>1. <<i, 1>> \in batch
      BY <1>1
    <3>2. \E e \in answers : e.item = <<i, 1>>[1] /\ e.time = <<i, 1>>[2]
      BY <3>1 DEF Inv, Answered
    <3> QED
      BY <3>2
  <2>4. \A e, f \in answers : e.item = f.item /\ e.time = f.time => e = f
    BY DEF Inv, Answered
  <2> QED
    BY <2>1, <2>2, <2>3, <2>4
<1>3. Of(All, u) # {}
  <2>1. PICK e \in answers : e.item = Matched(u)
    BY <1>2, FirstItem
  <2> QED
    BY <1>1, <2>1, FirstItem DEF Of
<1>4. Retries(u) = 0 /\ \A i \in Items : ~ Exhausted(i)
  BY <1>1, FirstItem DEF Retries, Exhausted, MAX_RETRIES
<1> DEFINE itemOf == [e \in Asked(All, u) |-> e.item]
<1>5. itemOf \in Injection(Asked(All, u), Copies(u))
  <2>1. \A e \in Asked(All, u) : e \in answers /\ e.item \in Copies(u)
    BY <1>1, <1>2 DEF Asked, Of, Copies
  <2>2. \A e, f \in Asked(All, u) : e.item = f.item => e = f
    BY <1>2, <2>1
  <2> QED
    BY <2>1, <2>2 DEF Injection, IsInjective
<1>6. IsFiniteSet(Asked(All, u)) /\ Cardinality(Asked(All, u)) <= Cardinality(Copies(u))
  <2> HIDE DEF itemOf
  <2> QED
    BY <1>5, CopiesCounted, FS_Injection
<1> QED
  BY <1>1, <1>2, <1>3, <1>4, <1>6 DEF Of

(* After a retry round one entry of a url at most still asks for a retry,  *)
(* and it does so in the first such round, after one more call.            *)
LEMMA LaterRound ==
  ASSUME Inv, at = "merge", round > 0, NEW u \in Urls
  PROVE  /\ Of(All, u) # {}
         /\ \E e : Asked(All, u) \subseteq {e}
         /\ Asked(All, u) # {} =>
              /\ Retries(u) = 1 /\ round = 1
              /\ calls[u] = Cardinality(Copies(u)) + 1
         /\ \A e \in Of(All, u) : e.exhausted => Retries(u) = 2
<1>1. /\ Of(reviewed, u) # {}
      /\ Listed(u) = {} => Asked(reviewed, u) = {}
      /\ Listed(u) # {} => Retries(u) >= 1
      /\ Listed(u) # {} /\ Retries(u) = 1 =>
           /\ Listed(u) = {<<Matched(u), 1>>} /\ round = 1
           /\ calls[u] = Cardinality(Copies(u)) + 1
      /\ \A e \in Of(reviewed, u) : e.exhausted => Retries(u) = 2
      /\ Retries(u) \in {0, 1, 2}
      /\ \A slot \in batch : slot[1] = Matched(UrlOf[slot[1]]) /\ slot[2] \in {1, 2}
  <2>1. Retries(u) \in {0, 1, 2}
    BY FirstItem DEF Inv, TypeOK, Retries, MAX_RETRIES
  <2>2. \A slot \in batch : slot[1] = Matched(UrlOf[slot[1]]) /\ slot[2] \in {1, 2}
    BY DEF Inv, TypeOK, Slots, MAX_RETRIES, Rounds, Reviewing
  <2> QED
    BY <2>1, <2>2 DEF Inv, Again, Counts, Reviewing
<1>2. /\ \A e \in answers : /\ <<e.item, e.time>> \in batch
                            /\ e.exhausted <=> Exhausted(e.item)
                            /\ e.exhausted => e.verdict = "discarded"
      /\ \A slot \in batch : \E e \in answers : e.item = slot[1] /\ e.time = slot[2]
      /\ \A e, f \in answers : e.item = f.item /\ e.time = f.time => e = f
  BY DEF Inv, Answered
<1>3. All = {e \in reviewed : Of(answers, UrlOf[e.item]) = {}} \union Latest(answers)
  <2>1. round # 0
    BY DEF Inv, TypeOK, MAX_RETRIES
  <2> QED
    BY <2>1 DEF All, Merged
<1>4. ASSUME NEW e \in Of(answers, u)
      PROVE  /\ e \in answers /\ UrlOf[e.item] = u
             /\ e.item = Matched(u) /\ (e.time = 1 \/ e.time = 2)
             /\ <<e.item, e.time>> \in Listed(u)
             /\ Retries(u) >= 2 => e.verdict = "discarded"
             /\ Retries(u) < 2 => ~ e.exhausted
  <2>1. e \in answers /\ UrlOf[e.item] = u /\ <<e.item, e.time>> \in batch
    BY <1>2 DEF Of
  <2>2. e.item = Matched(u) /\ (e.time = 1 \/ e.time = 2)
    BY <1>1, <2>1
  <2>3. <<e.item, e.time>> \in Listed(u)
    BY <2>1 DEF Listed
  <2>4. Exhausted(e.item) <=> Retries(u) >= 2
    BY <2>2 DEF Exhausted, Retries, MAX_RETRIES
  <2>5. Retries(u) >= 2 => e.verdict = "discarded"
    BY <1>2, <2>1, <2>4
  <2>6. Retries(u) < 2 => ~ e.exhausted
    <3>1. Retries(u) < 2 => ~ (Retries(u) >= 2)
      BY <1>1
    <3> QED
      BY <1>2, <2>1, <2>4, <3>1
  <2> QED
    BY <2>1, <2>2, <2>3, <2>5, <2>6
<1>5. CASE Listed(u) = {}
  <2>1. Of(answers, u) = {}
    BY <1>4, <1>5
  <2>2. Of(All, u) = Of(reviewed, u)
    BY <1>3, <2>1 DEF Of, Latest
  <2>3. Asked(All, u) = {}
    BY <1>1, <1>5, <2>2 DEF Asked
  <2> QED
    BY <1>1, <2>2, <2>3
<1>6. CASE Listed(u) # {}
  <2>1. PICK slot \in batch : UrlOf[slot[1]] = u
    BY <1>6 DEF Listed
  <2>2. PICK g \in answers : g.item = slot[1] /\ g.time = slot[2]
    BY <1>2, <2>1
  <2>3. g \in Of(answers, u)
    BY <2>1, <2>2 DEF Of
  <2>4. Of(All, u) = Of(Latest(answers), u) /\ Of(All, u) \subseteq Of(answers, u)
    BY <1>3, <2>3 DEF Of, Latest
  <2>5. ASSUME NEW e \in Of(answers, u), \A f \in Of(answers, u) : ~ (f.time > e.time)
        PROVE  e \in Of(All, u)
    <3>1. e \in answers /\ UrlOf[e.item] = u /\ e.item = Matched(u)
      BY <1>4
    <3>2. Matched(u) \in Nat
      BY FirstItem, ItemsAreNumbers
    <3>3. ASSUME NEW f \in Of(answers, u) PROVE ~ After(f, e)
      <4>1. f.item = Matched(u) /\ ~ (f.time > e.time)
        BY <1>4, <2>5
      <4>2. ~ (Matched(u) > Matched(u))
        BY <3>2
      <4> QED
        BY <3>1, <4>1, <4>2 DEF After
    <3>4. e \in Latest(answers)
      BY <3>1, <3>3 DEF Latest
    <3> QED
      BY <2>4, <3>1, <3>4 DEF Of
  <2>6. Of(All, u) # {}
    <3>1. ASSUME NEW e \in Of(answers, u), e.time = 2 PROVE Of(All, u) # {}
      <4>1. \A f \in Of(answers, u) : f.time = 1 \/ f.time = 2
        BY <1>4
      <4>2. \A f \in Of(answers, u) : ~ (f.time > 2)
        BY <4>1
      <4> QED
        BY <2>5, <3>1, <4>2
    <3>2. ASSUME \A f \in Of(answers, u) : f.time # 2 PROVE Of(All, u) # {}
      <4>1. \A f \in Of(answers, u) : f.time = 1
        BY <1>4, <3>2
      <4>2. \A f \in Of(answers, u) : ~ (f.time > g.time)
        BY <2>3, <4>1
      <4> QED
        BY <2>3, <2>5, <4>2
    <3> QED
      BY <3>1, <3>2
  <2>7. \A e \in Of(All, u) : e.exhausted => Retries(u) = 2
    <3> TAKE e \in Of(All, u)
    <3>1. Retries(u) < 2 => ~ e.exhausted
      BY <1>4, <2>4
    <3> QED
      BY <1>1, <3>1
  <2>8. CASE Retries(u) = 2
    <3>1. \A e \in Of(answers, u) : e.verdict = "discarded"
      <4>1. Retries(u) >= 2
        BY <2>8
      <4> QED
        BY <1>4, <4>1
    <3>2. Asked(All, u) = {}
      BY <2>4, <3>1 DEF Asked
    <3> QED
      BY <2>6, <2>7, <3>2
  <2>9. CASE Retries(u) = 1
    <3>1. Listed(u) = {<<Matched(u), 1>>} /\ round = 1 /\ calls[u] = Cardinality(Copies(u)) + 1
      BY <1>1, <1>6, <2>9
    <3>2. \A e \in Of(answers, u) : e.item = Matched(u) /\ e.time = 1 /\ e \in answers
      BY <1>4, <3>1
    <3>3. Asked(All, u) \subseteq {g}
      BY <1>2, <2>3, <2>4, <3>2 DEF Asked
    <3> QED
      BY <2>6, <2>7, <2>9, <3>1, <3>3
  <2> QED
    BY <1>1, <1>6, <2>8, <2>9
<1> QED
  BY <1>5, <1>6

(* Counting the retries of a url: it is reviewed again if an entry says    *)
(* so, once for every retry that counts.                                   *)
LEMMA Counting ==
  ASSUME Inv, at = "merge", NEW u \in Urls
  PROVE  /\ Counted(All, Matched(u)) \in 0..2 /\ Retries(u) <= Counted(All, Matched(u))
         /\ Asked(All, u) # {} => Retries(u) < Counted(All, Matched(u))
         /\ Asked(All, u) = {} => Counted(All, Matched(u)) = Retries(u)
         /\ round = 0 => Counted(All, Matched(u)) <= Cardinality(Copies(u))
         /\ Asked(All, u) # {} /\ round > 0 => Counted(All, Matched(u)) = 2
<1> DEFINE a == Cardinality(Asked(All, u))  c == Counted(All, Matched(u))
           n == Cardinality(Copies(u))
<1>1. /\ a \in Nat /\ (Asked(All, u) = {} <=> a = 0) /\ (round = 0 => a <= n)
      /\ round > 0 /\ Asked(All, u) # {} => a = 1 /\ Retries(u) = 1
      /\ round = 0 => Retries(u) = 0
  <2>1. CASE round = 0
    BY <2>1, FirstRound, FS_CardinalityType, FS_EmptySet
  <2>2. CASE round > 0
    <3>1. PICK e : Asked(All, u) \subseteq {e}
      BY <2>2, LaterRound
    <3>2. IF Asked(All, u) = {} THEN a = 0 ELSE a = 1
      BY <3>1, AtMostOne
    <3> QED
      BY <2>2, <3>2, LaterRound
  <2> QED
    BY <2>1, <2>2 DEF Inv, TypeOK, MAX_RETRIES
<1>2. Retries(u) \in 0..2 /\ n \in Nat
  BY FirstItem, CopiesCounted DEF Inv, TypeOK, Retries, MAX_RETRIES
<1>3. c = IF Retries(u) + a <= 2 THEN Retries(u) + a ELSE 2
  BY FirstItem DEF Counted, Asked, Retries
<1>4. Asked(All, u) # {} => Retries(u) \in {0, 1}
  <2>1. round \in Nat
    BY DEF Inv, TypeOK, MAX_RETRIES
  <2> QED
    BY <1>1, <2>1
<1>5. round \in Nat
  BY DEF Inv, TypeOK, MAX_RETRIES
<1> HIDE DEF a, c, n
<1>6. c \in 0..2 /\ Retries(u) <= c
  BY <1>1, <1>2, <1>3
<1>7. a # 0 => Retries(u) < c
  BY <1>1, <1>2, <1>3, <1>4
<1>8. a = 0 => c = Retries(u)
  BY <1>2, <1>3
<1>9. round = 0 => c <= n
  BY <1>1, <1>2, <1>3
<1>10. round > 0 /\ a # 0 => c = 2
  BY <1>1, <1>3
<1> QED
  BY <1>1, <1>6, <1>7, <1>8, <1>9, <1>10 DEF c, n

(* Only the first item of a url is reviewed again, as often as its retries *)
(* grow.                                                                   *)
LEMMA Preparing ==
  ASSUME Inv, at = "merge"
  PROVE  /\ \A i \in Items : Counted(All, i) \in 0..2
         /\ \A slot \in Prepared(All) :
              /\ slot \in Slots /\ slot[1] = Matched(UrlOf[slot[1]]) /\ slot[2] \in 1..2
              /\ Retries(UrlOf[slot[1]]) + slot[2] <= Counted(All, slot[1])
         /\ \A u \in Urls : Asked(All, u) # {} => <<Matched(u), 1>> \in Prepared(All)
<1>1. \A i \in Items : retryCount[i] \in 0..2
  BY DEF Inv, TypeOK, MAX_RETRIES
<1>2. \A i \in Items : i # Matched(UrlOf[i]) => Counted(All, i) = retryCount[i]
  BY DEF Counted
<1>3. ASSUME NEW i \in Items PROVE Counted(All, i) \in 0..2
  <2>1. CASE i = Matched(UrlOf[i])
    BY <2>1, Counting, ItemsAreNumbers
  <2>2. CASE i # Matched(UrlOf[i])
    BY <1>1, <1>2, <2>2
  <2> QED
    BY <2>1, <2>2
<1>4. ASSUME NEW slot \in Prepared(All)
      PROVE  /\ slot \in Slots /\ slot[1] = Matched(UrlOf[slot[1]]) /\ slot[2] \in 1..2
             /\ Retries(UrlOf[slot[1]]) + slot[2] <= Counted(All, slot[1])
  <2>1. /\ slot \in Slots /\ slot[1] \in Items /\ slot[2] \in 1..2
        /\ retryCount[slot[1]] + slot[2] <= Counted(All, slot[1])
    BY DEF Prepared, Slots, MAX_RETRIES
  <2>2. slot[1] = Matched(UrlOf[slot[1]])
    <3>1. \A n, k \in Nat : ~ (n + k <= n /\ k >= 1)
      OBVIOUS
    <3>2. retryCount[slot[1]] \in Nat /\ slot[2] \in Nat /\ slot[2] >= 1
      BY <1>1, <2>1
    <3> QED
      BY <1>2, <2>1, <3>1, <3>2
  <2> QED
    BY <2>1, <2>2 DEF Retries
<1>5. ASSUME NEW u \in Urls, Asked(All, u) # {} PROVE <<Matched(u), 1>> \in Prepared(All)
  <2>1. Retries(u) < Counted(All, Matched(u)) /\ Counted(All, Matched(u)) \in 0..2
    BY <1>5, Counting
  <2>2. Retries(u) \in 0..2 /\ Matched(u) \in Items
    BY <1>1, FirstItem DEF Retries
  <2>3. retryCount[Matched(u)] + 1 <= Counted(All, Matched(u))
    BY <2>1, <2>2 DEF Retries
  <2>4. <<Matched(u), 1>> \in Slots
    BY <2>2 DEF Slots, MAX_RETRIES
  <2> QED
    BY <2>3, <2>4 DEF Prepared
<1> QED
  BY <1>3, <1>4, <1>5

(* The round's entries join the others; what asks for a retry is listed    *)
(* again, and nothing does any more when the loop ends.                    *)
LEMMA MergeKeeps == Inv /\ Merge => Inv'
<1> SUFFICES ASSUME Inv, Merge PROVE Inv'
  OBVIOUS
<1>1. /\ at = "merge" /\ reviewed' = All /\ answers' = {}
      /\ UNCHANGED <<articles, itemRow, calls>>
  BY DEF Merge, All
<1>2. round \in 0..2 /\ All \subseteq Entry
  BY AllEntries DEF Inv, TypeOK, MAX_RETRIES
<1>3. ASSUME NEW u \in Urls
      PROVE  /\ Of(reviewed, u)' = Of(All, u) /\ Asked(reviewed, u)' = Asked(All, u)
             /\ Of(All, u) # {}
             /\ \A e \in Of(All, u) : e.exhausted => Retries(u) = 2
             /\ Retries(u) \in 0..2 /\ Cardinality(Copies(u)) \in Nat /\ calls[u] \in Nat
             /\ round = 0 => calls[u] = Cardinality(Copies(u))
             /\ round > 0 /\ Asked(All, u) # {} =>
                  calls[u] = Cardinality(Copies(u)) + 1 /\ round = 1
  <2>1. Of(reviewed, u)' = Of(All, u) /\ Asked(reviewed, u)' = Asked(All, u)
    BY <1>1 DEF Of, Asked
  <2>2. Retries(u) \in 0..2 /\ Cardinality(Copies(u)) \in Nat /\ calls[u] \in Nat
    BY FirstItem, CopiesCounted DEF Inv, TypeOK, Retries, MAX_RETRIES
  <2>3. CASE round = 0
    <3>1. /\ Of(All, u) # {} /\ calls[u] = Cardinality(Copies(u))
          /\ \A e \in Of(All, u) : ~ e.exhausted
      BY <1>1, <2>3, FirstRound
    <3> QED
      BY <2>1, <2>2, <2>3, <3>1
  <2>4. CASE round > 0
    <3>1. /\ Of(All, u) # {}
          /\ Asked(All, u) # {} => round = 1 /\ calls[u] = Cardinality(Copies(u)) + 1
          /\ \A e \in Of(All, u) : e.exhausted => Retries(u) = 2
      BY <1>1, <2>4, LaterRound
    <3> QED
      BY <2>1, <2>2, <2>4, <3>1
  <2> QED
    BY <1>2, <2>3, <2>4
<1>4. CASE RoundLeft /\ Prepared(All) # {}
  <2>1. /\ at' = "review" /\ round' = round + 1 /\ batch' = Prepared(All)
        /\ retryCount' = [i \in Items |-> Counted(All, i)]
    BY <1>4 DEF Merge, All
  <2>2. round' \in 0..2 /\ round' > 0
    BY <1>2, <1>4, <2>1 DEF RoundLeft
  <2>3. TypeOK'
    <3>1. batch' \subseteq Slots /\ retryCount' \in [Items -> 0..2]
      BY <1>1, <2>1, Preparing
    <3>2. {} \subseteq Entry
      OBVIOUS
    <3> QED
      BY <1>1, <1>2, <2>1, <2>2, <3>1, <3>2 DEF Inv, TypeOK, MAX_RETRIES
  <2>4. Rounds'
    <3>1. \A slot \in batch' : slot[1] = Matched(UrlOf[slot[1]])
      BY <1>1, <2>1, Preparing
    <3> QED
      BY <2>1, <2>2, <3>1 DEF Rounds
  <2>5. Answered'
    BY <2>1 DEF Answered
  <2>6. ASSUME NEW u \in Urls PROVE (Again(u) /\ Counts(u) /\ Judged(u))'
    <3> DEFINE c == Retries(u)  d == Counted(All, Matched(u))  n == Cardinality(Copies(u))
    <3>1. Retries(u)' = d
      BY <2>1, FirstItem DEF Retries
    <3>2. /\ d \in 0..2 /\ c <= d
          /\ Asked(All, u) = {} => d = c
          /\ round = 0 => d <= n
          /\ Asked(All, u) # {} /\ round > 0 => d = 2
      BY <1>1, Counting
    <3>3. c \in 0..2 /\ n \in Nat /\ calls[u] \in Nat
      BY <1>3
    <3>4. /\ round = 0 => calls[u] = n
          /\ round > 0 /\ Asked(All, u) # {} => calls[u] = n + 1
      BY <1>3
    <3>5. c = 2 /\ n = 1 => calls[u] = 2
      BY DEF Inv, Counts
    <3>6. calls[u] <= n + 1
      BY DEF Inv, Counts
    <3>7. \A slot \in Listed(u)' : /\ slot \in Slots /\ slot[1] = Matched(u) /\ slot[2] \in 1..2
                                   /\ c + slot[2] <= d
      <4> TAKE slot \in Listed(u)'
      <4>1. slot \in Prepared(All) /\ UrlOf[slot[1]] = u
        BY <2>1 DEF Listed
      <4> QED
        BY <1>1, <4>1, Preparing
    <3>8. Listed(u)' = {} => Asked(All, u) = {}
      <4> SUFFICES ASSUME Asked(All, u) # {} PROVE Listed(u)' # {}
        OBVIOUS
      <4>1. <<Matched(u), 1>> \in batch' /\ UrlOf[Matched(u)] = u
        BY <1>1, <2>1, Preparing, FirstItem
      <4> QED
        BY <4>1 DEF Listed
    <3> HIDE DEF c, d, n
    <3>9. ASSUME NEW slot \in Listed(u)', d = 1
          PROVE  slot = <<Matched(u), 1>> /\ round = 0
      <4>1. c = 0 /\ slot[2] = 1
        BY <3>2, <3>3, <3>7, <3>9
      <4>2. slot = <<Matched(u), 1>>
        BY <3>7, <4>1 DEF Slots
      <4>3. Asked(All, u) # {}
        BY <3>2, <3>9, <4>1
      <4>4. ~ (round > 0)
        BY <3>2, <3>9, <4>3
      <4> QED
        BY <1>2, <4>2, <4>4
    <3>10. Listed(u)' # {} => d >= 1
      BY <3>2, <3>3, <3>7
    <3>11. d = 2 /\ n = 1 => calls[u] = 2
      <4>1. CASE Asked(All, u) = {}
        BY <3>2, <3>5, <4>1
      <4>2. CASE Asked(All, u) # {}
        BY <1>2, <3>2, <3>4, <4>2
      <4> QED
        BY <4>1, <4>2
    <3>12. \A e \in Of(All, u) : e.exhausted => d = 2
      <4>1. \A e \in Of(All, u) : e.exhausted => c = 2
        BY <1>3 DEF c
      <4> QED
        BY <3>2, <4>1
    <3>13. Again(u)'
      <4>1. Of(reviewed, u)' # {} /\ (Listed(u)' = {} => Asked(reviewed, u)' = {})
        BY <1>3, <3>8
      <4>2. Listed(u)' # {} => Retries(u)' >= 1
        BY <3>1, <3>10
      <4>3. ASSUME Listed(u)' # {}, Retries(u)' = 1
            PROVE  /\ Listed(u)' = {<<Matched(u), 1>>} /\ round' = 1
                   /\ calls'[u] = Cardinality(Copies(u)) + 0
        <5>1. d = 1
          BY <3>1, <4>3
        <5>2. Listed(u)' = {<<Matched(u), 1>>} /\ round = 0
          BY <3>9, <4>3, <5>1
        <5>3. calls[u] = n + 0
          BY <3>3, <3>4, <5>2
        <5> QED
          BY <1>1, <2>1, <5>2, <5>3 DEF n
      <4> QED
        BY <2>1, <4>1, <4>2, <4>3 DEF Again
    <3>14. Counts(u)'
      <4>1. calls'[u] <= Cardinality(Copies(u)) + 1
        BY <1>1, <3>6 DEF n
      <4>2. Retries(u)' = 2 /\ Cardinality(Copies(u)) = 1 => calls'[u] = 2
        BY <1>1, <3>1, <3>11 DEF n
      <4>3. \A e \in Of(reviewed, u)' : e.exhausted => Retries(u)' = 2
        BY <1>3, <3>1, <3>12
      <4> QED
        BY <4>1, <4>2, <4>3 DEF Counts
    <3>15. Judged(u)'
      BY <1>1, <2>1 DEF Inv, Judged, Final
    <3> QED
      BY <3>13, <3>14, <3>15
  <2> QED
    BY <2>3, <2>4, <2>5, <2>6 DEF Inv
<1>5. CASE ~ (RoundLeft /\ Prepared(All) # {})
  <2>1. at' = "persist" /\ UNCHANGED <<round, retryCount, batch>>
    BY <1>5 DEF Merge, All
  <2>2. TypeOK'
    <3>1. {} \subseteq Entry
      OBVIOUS
    <3> QED
      BY <1>1, <1>2, <2>1, <3>1 DEF Inv, TypeOK
  <2>3. Rounds' /\ Answered'
    BY <2>1 DEF Rounds, Answered, Reviewing
  <2>4. ASSUME NEW u \in Urls PROVE (Again(u) /\ Counts(u) /\ Judged(u))'
    <3>1. Again(u)'
      BY <2>1 DEF Again, Reviewing
    <3>2. Retries(u)' = Retries(u)
      BY <2>1 DEF Retries
    <3>3. Counts(u)'
      BY <1>1, <1>3, <3>2 DEF Inv, Counts
    <3>4. Asked(All, u) = {}
      <4> SUFFICES ASSUME Asked(All, u) # {} PROVE FALSE
        OBVIOUS
      <4>1. Prepared(All) # {}
        BY <1>1, Preparing
      <4>2. ~ (round < 2)
        BY <1>5, <4>1 DEF RoundLeft
      <4> QED
        BY <1>2, <1>3, <4>2
    <3>5. Judged(u)'
      BY <1>1, <1>3, <3>4 DEF Inv, Judged
    <3> QED
      BY <3>1, <3>3, <3>5
  <2> QED
    BY <2>2, <2>3, <2>4 DEF Inv
<1> QED
  BY <1>4, <1>5

-----------------------------------------------------------------------------
(* Nothing that is persisted says retry, so nothing is kept for later.     *)
LEMMA PersistKeeps == Inv /\ Persist => Inv'
<1> SUFFICES ASSUME Inv, Persist PROVE Inv'
  OBVIOUS
<1>1. PICK e \in reviewed :
        /\ \A f \in Of(reviewed, UrlOf[e.item]) : ~ After(e, f)
        /\ articles' = [articles EXCEPT ![UrlOf[e.item]] = Outcome(e).article]
        /\ itemRow' = [itemRow EXCEPT ![UrlOf[e.item]] = Outcome(e).item]
        /\ reviewed' = reviewed \ {e}
  BY DEF Persist
<1>2. at = "persist" /\ UNCHANGED <<at, round, retryCount, batch, answers, calls>>
  BY DEF Persist
<1>3. e \in Entry /\ UrlOf[e.item] \in Urls
  BY ItemsAreNumbers DEF Inv, TypeOK, Entry
<1> DEFINE v == UrlOf[e.item]
<1>4. e.verdict \in {"approved", "discarded"}
  <2>1. e \in Of(reviewed, v)
    BY DEF Of
  <2>2. e.verdict # "retry"
    BY <1>2, <1>3, <2>1 DEF Inv, Judged, Final, Asked
  <2> QED
    BY <1>3, <2>2 DEF Entry, Verdicts
<1>5. /\ Outcome(e).article \in {"approved", articles[v]}
      /\ Outcome(e).item \in {"trial_approved", "inserted", "reviewed_discarded"}
  BY <1>4 DEF Outcome
<1>6. TypeOK'
  <2>1. Outcome(e).article \in {"none", "approved", "retry"}
    BY <1>3, <1>5 DEF Inv, TypeOK
  <2>2. Outcome(e).item \in {"collected", "inserted", "trial_approved", "trial_retry",
                             "reviewed_retry", "reviewed_discarded"}
    BY <1>5
  <2>3. reviewed' \subseteq Entry
    BY <1>1 DEF Inv, TypeOK
  <2> QED
    BY <1>1, <1>2, <2>1, <2>2, <2>3 DEF Inv, TypeOK
<1>7. Rounds' /\ Answered'
  BY <1>2 DEF Rounds, Answered, Reviewing
<1>8. ASSUME NEW u \in Urls PROVE (Again(u) /\ Counts(u) /\ Judged(u))'
  <2>1. /\ Of(reviewed, u)' = Of(reviewed, u) \ {e} /\ Retries(u)' = Retries(u)
        /\ Asked(reviewed, u)' \subseteq Asked(reviewed, u)
    BY <1>1, <1>2 DEF Of, Asked, Retries
  <2>2. Again(u)'
    BY <1>2 DEF Again, Reviewing
  <2>3. Counts(u)'
    BY <1>2, <2>1 DEF Inv, Counts
  <2>4. Judged(u) /\ Judged(v)
    BY <1>3 DEF Inv
  <2>5. articles \in [Urls -> {"none", "approved", "retry"}] /\ DOMAIN itemRow = Urls
    BY DEF Inv, TypeOK
  <2>6. CASE u = v
    <3>1. articles'[u] = Outcome(e).article /\ itemRow'[u] = Outcome(e).item
      BY <1>1, <2>5, <2>6
    <3>2. articles'[u] # "retry" /\ itemRow'[u] # "collected"
      BY <1>5, <2>4, <2>6, <3>1 DEF Judged
    <3> QED
      BY <1>2, <2>1, <2>2, <2>3, <2>4, <3>2 DEF Judged, Final
  <2>7. CASE u # v
    <3>1. articles'[u] = articles[u] /\ itemRow'[u] = itemRow[u]
      BY <1>1, <2>5, <2>7
    <3>2. Of(reviewed, u)' = Of(reviewed, u)
      BY <2>1, <2>7 DEF Of
    <3> QED
      BY <1>2, <2>1, <2>2, <2>3, <2>4, <3>1, <3>2 DEF Judged, Final
  <2> QED
    BY <2>6, <2>7
<1> QED
  BY <1>6, <1>7, <1>8 DEF Inv

(* The ends of a run change no entry.                                      *)
LEMMA StopKeeps == Inv /\ (PersistDone \/ ReviewFails) => Inv'
<1> SUFFICES ASSUME Inv, PersistDone \/ ReviewFails PROVE Inv'
  OBVIOUS
<1>1. /\ at' \in {"done", "failed"} /\ (at' = "done" => at = "persist")
      /\ UNCHANGED <<round, retryCount, batch, answers, reviewed, articles, itemRow, calls>>
  BY DEF PersistDone, ReviewFails
<1>2. TypeOK' /\ Rounds' /\ Answered'
  BY <1>1 DEF Inv, TypeOK, Rounds, Answered, Reviewing
<1>3. ASSUME NEW u \in Urls PROVE (Again(u) /\ Counts(u) /\ Judged(u))'
  <2>1. Again(u)'
    BY <1>1 DEF Again, Reviewing
  <2>2. Of(reviewed, u)' = Of(reviewed, u) /\ Asked(reviewed, u)' = Asked(reviewed, u)
        /\ Retries(u)' = Retries(u)
    BY <1>1 DEF Of, Asked, Retries
  <2>3. Counts(u)'
    BY <1>1, <2>2 DEF Inv, Counts
  <2>4. Judged(u)'
    BY <1>1, <2>2 DEF Inv, Judged, Final
  <2> QED
    BY <2>1, <2>3, <2>4
<1> QED
  BY <1>2, <1>3 DEF Inv

(* Neither does a step in which nothing happens.                           *)
LEMMA StutterKeeps == Inv /\ UNCHANGED vars => Inv'
<1> SUFFICES ASSUME Inv, UNCHANGED vars PROVE Inv'
  OBVIOUS
<1> USE DEF vars
<1>1. TypeOK' /\ Rounds'
  BY DEF Inv, TypeOK, Rounds, Reviewing
<1>2. Answered'
  BY DEF Inv, Answered, Exhausted
<1>3. ASSUME NEW u \in Urls PROVE (Again(u) /\ Counts(u) /\ Judged(u))'
  BY DEF Inv, Again, Counts, Judged, Reviewing, Final, Listed, Of, Asked, Retries
<1> QED
  BY <1>1, <1>2, <1>3 DEF Inv

(* So every run keeps the invariant.                                       *)
LEMMA ReviewInvariance == Spec => []Inv
<1>1. Inv /\ [Next]_vars => Inv'
  BY ReviewKeeps, MergeKeeps, PersistKeeps, StopKeeps, StutterKeeps DEF Next, Idle
<1> QED
  BY InitInvariant, <1>1, PTL DEF Spec

-----------------------------------------------------------------------------
(* Every variable keeps its type; in particular no retry_count exceeds two *)
(* and no item is listed more than twice in a round.                       *)
THEOREM TypeCorrect == Spec => []TypeOK
<1>1. Inv => TypeOK
  BY DEF Inv
<1> QED
  BY ReviewInvariance, <1>1, PTL

(* The rounds lose no item: when persisting begins every url has an entry, *)
(* none of them says retry, and no article is kept for one.                *)
THEOREM EveryItemIsJudged == Spec => []EveryItemJudged
<1>1. Inv => EveryItemJudged
  <2> SUFFICES ASSUME Inv, Final PROVE EveryItemJudged
    BY DEF EveryItemJudged
  <2>1. ASSUME NEW u \in Urls
        PROVE  /\ itemRow[u] # "collected" \/ Of(reviewed, u) # {}
               /\ articles[u] # "retry"
    BY DEF Inv, Judged
  <2>2. ASSUME NEW e \in reviewed PROVE e.verdict # "retry"
    <3>1. UrlOf[e.item] \in Urls
      BY ItemsAreNumbers DEF Inv, TypeOK, Entry
    <3> QED
      BY <3>1 DEF Inv, Judged, Asked, Of
  <2> QED
    BY <2>1, <2>2 DEF EveryItemJudged
<1> QED
  BY ReviewInvariance, <1>1, PTL

(* The model sees no url more often than its items and one more time, and  *)
(* an item listed once is given up only after its second review.           *)
THEOREM RetriesStayBounded == Spec => []RetriesAreBounded
<1>1. Inv => RetriesAreBounded
  <2> SUFFICES ASSUME Inv PROVE RetriesAreBounded
    OBVIOUS
  <2>1. \A u : Copies(u) = {i \in Items : UrlOf[i] = u}
    BY DEF Copies
  <2>2. \A u \in Urls : calls[u] <= Cardinality(Copies(u)) + 1
    BY DEF Inv, Counts
  <2>3. ASSUME NEW e \in reviewed, e.exhausted, Cardinality(Copies(UrlOf[e.item])) = 1
        PROVE  calls[UrlOf[e.item]] = 2
    <3>1. UrlOf[e.item] \in Urls
      BY ItemsAreNumbers DEF Inv, TypeOK, Entry
    <3>2. e \in Of(reviewed, UrlOf[e.item])
      BY DEF Of
    <3> QED
      BY <2>3, <3>1, <3>2 DEF Inv, Counts
  <2> QED
    BY <2>1, <2>2, <2>3 DEF RetriesAreBounded, Copies
<1> QED
  BY ReviewInvariance, <1>1, PTL
=============================================================================
