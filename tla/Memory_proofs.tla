---------------------------- MODULE Memory_proofs ----------------------------
(***************************************************************************)
(* Proofs about MemoryLayer, for any tasks, searches and results, any      *)
(* limits of the store, and any number of ingestions and retrievals, and   *)
(* about MemoryStudies, for any answers of the truth loop.                 *)
(***************************************************************************)
EXTENDS MemoryStudies, SequenceTheorems, FiniteSetTheorems, TLAPS

(***************************************************************************)
(* Lists: filtering, sorting, cutting off                                  *)
(***************************************************************************)

\* Members are placed by how many come before them: below[x] are those before x.
PlacedBy(S, below, place) ==
    /\ below \in [S -> SUBSET S]
    /\ \A x \in S : x \notin below[x]
    /\ \A x, y \in S : x # y => \/ x \in below[y] /\ below[x] \subseteq below[y]
                                \/ y \in below[x] /\ below[y] \subseteq below[x]
    /\ place = [x \in S |-> 1 + Cardinality(below[x])]

\* Every place is taken once, in the order of the members.
Ranked(S, below, place) ==
    /\ Cardinality(S) \in Nat
    /\ \A n \in 1 .. Cardinality(S) : \E x \in S : place[x] = n
    /\ \A x \in S : place[x] \in 1 .. Cardinality(S)
    /\ \A x, y \in S : place[x] = place[y] => x = y
    /\ \A x, y \in S : place[x] < place[y] => x \in below[y]

LEMMA PlacesAreTaken ==
  ASSUME NEW S, IsFiniteSet(S), NEW below, NEW place, PlacedBy(S, below, place)
  PROVE  Ranked(S, below, place)
  <1> USE DEF PlacedBy
  <1> DEFINE N == Cardinality(S)
  <1>1. N \in Nat
    BY FS_CardinalityType
  <1>2. \A x \in S : IsFiniteSet(below[x]) /\ Cardinality(below[x]) \in Nat
    BY FS_Subset, FS_CardinalityType
  <1>3. ASSUME NEW x \in S PROVE place[x] \in 1 .. N
    <2>1. below[x] \in SUBSET S /\ below[x] # S
      OBVIOUS
    <2>2. Cardinality(below[x]) <= N /\ Cardinality(below[x]) # N
      BY <2>1, FS_Subset
    <2> QED  BY <1>1, <1>2, <2>2
  <1>4. ASSUME NEW x \in S, NEW y \in S, x \in below[y], below[x] \subseteq below[y]
        PROVE  place[x] < place[y]
    <2>1. IsFiniteSet(below[y]) /\ below[x] \in SUBSET below[y] /\ below[x] # below[y]
      BY <1>2, <1>4
    <2>2. /\ Cardinality(below[x]) <= Cardinality(below[y])
          /\ Cardinality(below[x]) # Cardinality(below[y])
      BY <2>1, FS_Subset
    <2> QED  BY <1>2, <2>2
  <1>5. \A x \in S : place[x] \in Int
    BY <1>1, <1>3
  <1>6. \A x, y \in S : place[x] = place[y] => x = y
    BY <1>4, <1>5
  <1>7. \A x, y \in S : place[x] < place[y] => x \in below[y]
    BY <1>4, <1>5
  <1>8. \A n \in 1 .. N : \E x \in S : place[x] = n
    <2>1. place \in Injection(S, 1 .. N)
      BY <1>3, <1>6 DEF Injection, IsInjective
    <2>2. IsFiniteSet(1 .. N) /\ Cardinality(1 .. N) = N
      BY <1>1, FS_Interval
    <2>3. place \in Surjection(S, 1 .. N)
      BY <2>1, <2>2, FS_Injection
    <2> QED  BY <2>3 DEF Surjection
  <1> QED  BY <1>1, <1>3, <1>6, <1>7, <1>8 DEF Ranked

LEMMA UpTo ==
  ASSUME NEW n \in Nat
  PROVE  IsFiniteSet(1 .. n) /\ Cardinality(1 .. n) = n
  BY FS_Interval

\* What is chosen of a list are its members at the chosen indices, and all of them.
LEMMA ChosenHolds ==
  ASSUME NEW X, NEW s \in Seq(X), NEW I \in SUBSET DOMAIN s
  PROVE  /\ Chosen(s, I) \in Seq(X)
         /\ Len(Chosen(s, I)) <= Len(s)
         /\ \A n \in DOMAIN Chosen(s, I) : \E i \in I : Chosen(s, I)[n] = s[i]
         /\ \A i \in I : \E n \in DOMAIN Chosen(s, I) : Chosen(s, I)[n] = s[i]
  <1> DEFINE below == [i \in I |-> {j \in I : j < i}]
             place == [i \in I |-> 1 + Cardinality({j \in I : j < i})]
             at(n) == CHOOSE i \in I : place[i] = n
             N == Cardinality(I)
  <1>1. Len(s) \in Nat /\ DOMAIN s = 1 .. Len(s) /\ I \subseteq Int
    OBVIOUS
  <1>2. IsFiniteSet(I) /\ N <= Len(s)
    <2>1. IsFiniteSet(1 .. Len(s)) /\ Cardinality(1 .. Len(s)) = Len(s)
      BY <1>1, UpTo
    <2> QED  BY <1>1, <2>1, FS_Subset
  <1>3. PlacedBy(I, below, place)
    BY <1>1 DEF PlacedBy
  <1>4. Ranked(I, below, place)
    <2> HIDE DEF below, place
    <2> QED  BY <1>2, <1>3, PlacesAreTaken
  <1> HIDE DEF place
  <1>5. \A n \in 1 .. N : at(n) \in I /\ place[at(n)] = n
    BY <1>4 DEF Ranked
  <1>6. Chosen(s, I) = [n \in 1 .. N |-> s[at(n)]]
    BY DEF Chosen, place
  <1> HIDE DEF at
  <1>7. \A n \in 1 .. N : s[at(n)] \in X
    BY <1>5
  <1>8. Chosen(s, I) \in Seq(X) /\ Len(Chosen(s, I)) = N /\ DOMAIN Chosen(s, I) = 1 .. N
    BY <1>4, <1>6, <1>7 DEF Ranked
  <1>9. ASSUME NEW i \in I PROVE \E n \in DOMAIN Chosen(s, I) : Chosen(s, I)[n] = s[i]
    <2>1. place[i] \in 1 .. N /\ at(place[i]) = i
      BY <1>4, <1>5 DEF Ranked
    <2>2. Chosen(s, I)[place[i]] = s[i]
      BY <1>6, <2>1
    <2> QED  BY <1>8, <2>1, <2>2
  <1>10. ASSUME NEW n \in DOMAIN Chosen(s, I) PROVE \E i \in I : Chosen(s, I)[n] = s[i]
    BY <1>5, <1>6, <1>8
  <1> QED  BY <1>2, <1>8, <1>9, <1>10

\* A list sorted by integers has the same members, one with the least key first.
LEMMA SortedHolds ==
  ASSUME NEW X, NEW s \in Seq(X), NEW key \in [DOMAIN s -> Int]
  PROVE  /\ SortedBy(s, key) \in Seq(X)
         /\ Len(SortedBy(s, key)) = Len(s)
         /\ \A n \in DOMAIN s : \E i \in DOMAIN s :
               /\ SortedBy(s, key)[n] = s[i]
               /\ n = 1 => \A j \in DOMAIN s : key[i] <= key[j]
  <1> DEFINE D == DOMAIN s
             Before(j, i) == key[j] < key[i] \/ (key[j] = key[i] /\ j < i)
             below == [i \in D |-> {j \in D : Before(j, i)}]
             place == [i \in D |-> 1 + Cardinality({j \in D : Before(j, i)})]
             at(n) == CHOOSE i \in D : place[i] = n
  <1>1. Len(s) \in Nat /\ D = 1 .. Len(s)
    OBVIOUS
  <1>2. IsFiniteSet(D) /\ Cardinality(D) = Len(s)
    BY <1>1, UpTo
  <1>3. ASSUME NEW x \in D, NEW y \in D, x # y
        PROVE  \/ x \in below[y] /\ below[x] \subseteq below[y]
               \/ y \in below[x] /\ below[y] \subseteq below[x]
    <2>1. key[x] \in Int /\ key[y] \in Int /\ \A z \in D : key[z] \in Int
      OBVIOUS
    <2>2. CASE Before(x, y)
      BY <1>1, <2>1, <2>2
    <2>3. CASE Before(y, x)
      BY <1>1, <2>1, <2>3
    <2> QED  BY <1>1, <1>3, <2>1, <2>2, <2>3
  <1>4. PlacedBy(D, below, place)
    BY <1>1, <1>3 DEF PlacedBy
  <1>5. Ranked(D, below, place)
    <2> HIDE DEF below, place, D
    <2> QED  BY <1>2, <1>4, PlacesAreTaken
  <1>6. SortedBy(s, key) = [n \in D |-> s[at(n)]]
    BY DEF SortedBy
  <1> HIDE DEF place
  <1>7. \A n \in D : at(n) \in D /\ place[at(n)] = n
    BY <1>1, <1>2, <1>5 DEF Ranked
  <1> HIDE DEF at
  <1>8. SortedBy(s, key) \in Seq(X) /\ Len(SortedBy(s, key)) = Len(s)
    <2>1. \A n \in D : s[at(n)] \in X
      BY <1>7
    <2> QED  BY <1>1, <1>6, <2>1
  <1>9. ASSUME NEW n \in D
        PROVE  \E i \in D : /\ SortedBy(s, key)[n] = s[i]
                            /\ n = 1 => \A j \in D : key[i] <= key[j]
    <2>1. at(n) \in D /\ SortedBy(s, key)[n] = s[at(n)]
      BY <1>6, <1>7
    <2>2. ASSUME n = 1, NEW j \in D PROVE key[at(n)] <= key[j]
      <3>1. CASE j = at(n)
        BY <2>1, <3>1
      <3>2. CASE j # at(n)
        <4>1. place[at(n)] = 1 /\ place[j] \in 1 .. Len(s) /\ place[j] # 1
          BY <1>2, <1>5, <1>7, <2>1, <2>2, <3>2 DEF Ranked
        <4>2. at(n) \in below[j]
          <5>1. place[at(n)] < place[j]
            BY <1>1, <4>1
          <5> QED  BY <1>5, <2>1, <5>1 DEF Ranked
        <4>3. key[at(n)] \in Int /\ key[j] \in Int
          BY <2>1
        <4> QED  BY <2>1, <4>2, <4>3
      <3> QED  BY <3>1, <3>2
    <2> QED  BY <2>1, <2>2
  <1> QED  BY <1>1, <1>8, <1>9

LEMMA FirstHolds ==
  ASSUME NEW X, NEW s \in Seq(X), NEW k \in Nat
  PROVE  /\ FirstOf(k, s) \in Seq(X)
         /\ Len(FirstOf(k, s)) <= k
         /\ Len(s) # 0 /\ k # 0 => Len(FirstOf(k, s)) # 0
         /\ \A i \in DOMAIN FirstOf(k, s) : i \in DOMAIN s /\ FirstOf(k, s)[i] = s[i]
  <1> DEFINE n == IF Len(s) < k THEN Len(s) ELSE k
  <1>1. /\ Len(s) \in Nat /\ n \in Nat /\ n <= Len(s) /\ DOMAIN s = 1 .. Len(s)
        /\ n <= k /\ (Len(s) # 0 /\ k # 0 => n # 0)
    OBVIOUS
  <1>2. \A i \in 1 .. n : s[i] \in X
    BY <1>1
  <1>3. FirstOf(k, s) = SubSeq(s, 1, n)
    BY DEF FirstOf
  <1> HIDE DEF n
  <1>4. /\ SubSeq(s, 1, n) \in Seq(X) /\ Len(SubSeq(s, 1, n)) = n
        /\ \A i \in 1 .. n : SubSeq(s, 1, n)[i] = s[i]
    BY <1>1, <1>2, SubSeqProperties
  <1> QED  BY <1>1, <1>3, <1>4

\* list[-n:] is the end of the list.
LEMMA NewestHolds ==
  ASSUME NEW X, NEW s \in Seq(X), NEW n \in Nat \ {0}
  PROVE  /\ Newest(n, s) \in Seq(X)
         /\ Len(s) <= n => Len(Newest(n, s)) = Len(s)
         /\ Len(s) > n => Len(Newest(n, s)) = n
         /\ \A i \in DOMAIN Newest(n, s) :
               /\ Len(s) - Len(Newest(n, s)) + i \in DOMAIN s
               /\ Newest(n, s)[i] = s[Len(s) - Len(Newest(n, s)) + i]
  <1>1. Len(s) \in Nat /\ DOMAIN s = 1 .. Len(s) /\ n \in Nat
    OBVIOUS
  <1>2. CASE Len(s) <= n
    <2>1. Newest(n, s) = s
      BY <1>2 DEF Newest
    <2>2. \A i \in DOMAIN s : Len(s) - Len(s) + i = i
      BY <1>1
    <2>3. ~(Len(s) > n)
      BY <1>1, <1>2
    <2> QED  BY <2>1, <2>2, <2>3
  <1>3. CASE ~(Len(s) <= n)
    <2> DEFINE m == Len(s) - n + 1
    <2>1. m \in Int /\ m > 1 /\ Len(s) - m + 1 = n /\ m <= Len(s)
      BY <1>1, <1>3
    <2>2. Newest(n, s) = SubSeq(s, m, Len(s))
      BY <1>3 DEF Newest
    <2>3. \A i \in m .. Len(s) : s[i] \in X
      BY <1>1, <2>1
    <2> HIDE DEF m
    <2>4. /\ SubSeq(s, m, Len(s)) \in Seq(X)
          /\ Len(SubSeq(s, m, Len(s))) = n
          /\ \A i \in 1 .. n : SubSeq(s, m, Len(s))[i] = s[m + i - 1]
      BY <1>1, <2>1, <2>3, SubSeqProperties
    <2>5. \A i \in 1 .. n : m + i - 1 = Len(s) - n + i /\ Len(s) - n + i \in DOMAIN s
      BY <1>1, <1>3 DEF m
    <2>6. Len(Newest(n, s)) = n /\ DOMAIN Newest(n, s) = 1 .. n
      BY <2>2, <2>4
    <2>7. \A i \in 1 .. n : Newest(n, s)[i] = s[Len(s) - n + i]
      BY <2>2, <2>4, <2>5
    <2> QED  BY <1>1, <1>3, <2>2, <2>4, <2>5, <2>6, <2>7
  <1> QED  BY <1>1, <1>2, <1>3

\* The best of a list are members of it, and the first of them has the highest score.
LEMMA BestHolds ==
  ASSUME NEW X, NEW s \in Seq(X), NEW score \in [DOMAIN s -> Int], NEW k \in Nat \ {0}
  PROVE  /\ Best(s, score, k) \in Seq(X)
         /\ \A n \in DOMAIN Best(s, score, k) :
               \E i \in DOMAIN s : /\ Best(s, score, k)[n] = s[i]
                                   /\ n = 1 => \A j \in DOMAIN s : score[j] <= score[i]
         /\ s # <<>> => Best(s, score, k) # <<>>
  <1> DEFINE key == [i \in DOMAIN s |-> 0 - score[i]]
             sorted == SortedBy(s, key)
  <1>1. key \in [DOMAIN s -> Int] /\ Best(s, score, k) = FirstOf(k, sorted)
    BY DEF Best
  <1>2. /\ sorted \in Seq(X) /\ Len(sorted) = Len(s)
        /\ \A n \in DOMAIN s : \E i \in DOMAIN s :
              sorted[n] = s[i] /\ (n = 1 => \A j \in DOMAIN s : key[i] <= key[j])
    <2> HIDE DEF key
    <2> QED  BY <1>1, SortedHolds
  <1>3. \A i, j \in DOMAIN s : key[i] <= key[j] => score[j] <= score[i]
    OBVIOUS
  <1> HIDE DEF key, sorted
  <1>4. /\ FirstOf(k, sorted) \in Seq(X)
        /\ Len(sorted) # 0 /\ k # 0 => Len(FirstOf(k, sorted)) # 0
        /\ \A i \in DOMAIN FirstOf(k, sorted) :
              i \in DOMAIN sorted /\ FirstOf(k, sorted)[i] = sorted[i]
    BY <1>2, FirstHolds
  <1>5. DOMAIN sorted = DOMAIN s
    BY <1>2
  <1>6. ASSUME s # <<>> PROVE FirstOf(k, sorted) # <<>>
    <2>1. Len(s) \in Nat \ {0}
      BY <1>6, EmptySeq
    <2>2. Len(FirstOf(k, sorted)) # 0
      BY <1>2, <1>4, <2>1
    <2> QED  BY <1>4, <2>2, EmptySeq
  <1>7. ASSUME NEW n \in DOMAIN FirstOf(k, sorted)
        PROVE  \E i \in DOMAIN s : /\ FirstOf(k, sorted)[n] = s[i]
                                   /\ n = 1 => \A j \in DOMAIN s : score[j] <= score[i]
    <2>1. n \in DOMAIN s /\ FirstOf(k, sorted)[n] = sorted[n]
      BY <1>4, <1>5
    <2>2. PICK i \in DOMAIN s : sorted[n] = s[i] /\ (n = 1 => \A j \in DOMAIN s : key[i] <= key[j])
      BY <1>2, <2>1
    <2> QED  BY <1>3, <2>1, <2>2
  <1> QED  BY <1>1, <1>4, <1>6, <1>7

\* Of some indices there is a last one.
LEMMA LastFound ==
  ASSUME NEW I, IsFiniteSet(I), \A i \in I : i \in Int, I # {}
  PROVE  Max(I) \in I
  <1> DEFINE below == [i \in I |-> {j \in I : j < i}]
             place == [i \in I |-> 1 + Cardinality({j \in I : j < i})]
  <1>1. PlacedBy(I, below, place)
    BY DEF PlacedBy
  <1>2. Ranked(I, below, place)
    <2> HIDE DEF below, place
    <2> QED  BY <1>1, PlacesAreTaken
  <1> HIDE DEF place
  <1>3. Cardinality(I) \in 1 .. Cardinality(I)
    <2>1. Cardinality(I) # 0
      BY FS_EmptySet
    <2> QED  BY <1>2, <2>1 DEF Ranked
  <1>4. PICK x \in I : place[x] = Cardinality(I)
    BY <1>2, <1>3 DEF Ranked
  <1>5. \A y \in I : x >= y
    <2> SUFFICES ASSUME NEW y \in I, x < y PROVE FALSE
      OBVIOUS
    <2>1. place[y] \in 1 .. Cardinality(I) /\ place[x] # place[y]
      BY <1>2 DEF Ranked
    <2>2. place[y] < place[x]
      BY <1>3, <1>4, <2>1
    <2>3. y \in below[x]
      BY <1>2, <2>2 DEF Ranked
    <2> QED  BY <2>3
  <1> QED  BY <1>5 DEF Max

(***************************************************************************)
(* Episodes                                                                *)
(***************************************************************************)

Trace == [tag: STRING, progress: BOOLEAN, chain: Seq(STRING)]

\* What an episode is made of that mining, reflection and retrieval read.
EpisodeSound(e) ==
    /\ EpisodeOK(e)
    /\ e.id \in Id /\ e.id[2] = e.task
    /\ e.failures \in Seq(STRING)
    /\ e.effective \in Seq(Trace) /\ \A i \in DOMAIN e.effective : e.effective[i].chain # <<>>
    /\ e.phase \in STRING /\ e.best \in STRING
    /\ e.evidence > 0

Episode == {Consolidated(i[1], i[2]) : i \in Ingestions}

LEMMA FailureModesHold ==
  ASSUME NEW s, NEW v, SearchOK(s), v = NoVerification \/ VerificationOK(v)
  PROVE  DominantFailureModes(s, v) \in Seq(STRING) /\ Len(DominantFailureModes(s, v)) <= 5
  <1> DEFINE verified == IF v = NoVerification THEN <<>>
                         ELSE v.unsatisfied \o (IF v.class = "none" THEN <<>> ELSE <<v.class>>)
             all == s.failures \o verified
             once == {i \in DOMAIN all : \A j \in 1 .. (i - 1) : all[j] # all[i]}
  <1>1. verified \in Seq(STRING)
    <2>1. CASE v = NoVerification
      BY <2>1, EmptySeq
    <2>2. CASE v # NoVerification
      <3>1. v.unsatisfied \in Seq(STRING) /\ v.class \in STRING
        BY <2>2 DEF VerificationOK
      <3>2. <<>> \in Seq(STRING) /\ <<v.class>> \in Seq(STRING)
        BY <3>1, EmptySeq
      <3> QED  BY <2>2, <3>1, <3>2, ConcatProperties
    <2> QED  BY <2>1, <2>2
  <1>2. s.failures \in Seq(STRING)
    BY DEF SearchOK
  <1> HIDE DEF verified
  <1>3. all \in Seq(STRING)
    BY <1>1, <1>2, ConcatProperties
  <1> HIDE DEF all
  <1>4. OrderedUnique(all) \in Seq(STRING)
    <2>1. once \in SUBSET DOMAIN all
      OBVIOUS
    <2> HIDE DEF once
    <2>2. Chosen(all, once) \in Seq(STRING)
      BY <1>3, <2>1, ChosenHolds
    <2> QED  BY <2>2 DEF OrderedUnique, once
  <1>5. DominantFailureModes(s, v) = FirstOf(5, OrderedUnique(all))
    BY DEF DominantFailureModes, all, verified
  <1>6. /\ FirstOf(5, OrderedUnique(all)) \in Seq(STRING)
        /\ Len(FirstOf(5, OrderedUnique(all))) <= 5
    BY <1>4, FirstHolds
  <1> QED  BY <1>5, <1>6

LEMMA EffectiveHolds ==
  ASSUME NEW traces \in Seq(Trace)
  PROVE  LET effective == FirstOf(4, Chosen(traces, {i \in DOMAIN traces : Effective(traces[i])}))
         IN  /\ effective \in Seq(Trace) /\ Len(effective) <= 4
             /\ \A i \in DOMAIN effective : effective[i].chain # <<>>
  <1> DEFINE helpful == {i \in DOMAIN traces : Effective(traces[i])}
             chosen == Chosen(traces, helpful)
  <1>1. helpful \in SUBSET DOMAIN traces /\ \A i \in helpful : traces[i].chain # <<>>
    BY DEF Effective
  <1> HIDE DEF helpful
  <1>2. /\ chosen \in Seq(Trace)
        /\ \A n \in DOMAIN chosen : \E i \in helpful : chosen[n] = traces[i]
    BY <1>1, ChosenHolds
  <1> HIDE DEF chosen
  <1>3. /\ FirstOf(4, chosen) \in Seq(Trace)
        /\ Len(FirstOf(4, chosen)) <= 4
        /\ \A i \in DOMAIN FirstOf(4, chosen) : i \in DOMAIN chosen /\ FirstOf(4, chosen)[i] = chosen[i]
    BY <1>2, FirstHolds
  <1>4. \A i \in DOMAIN FirstOf(4, chosen) : FirstOf(4, chosen)[i].chain # <<>>
    BY <1>1, <1>2, <1>3
  <1> QED  BY <1>3, <1>4 DEF chosen, helpful

\* Whatever is ingested becomes an episode with evidence and with the id of its task.
LEMMA ConsolidatedHolds ==
  ASSUME NEW s, NEW v, SearchOK(s), v = NoVerification \/ VerificationOK(v)
  PROVE  EpisodeSound(Consolidated(s, v))
  <1> DEFINE e == Consolidated(s, v)
  <1>1. /\ e.id = <<s.episode, s.task>> /\ e.task = s.task
        /\ e.failures = DominantFailureModes(s, v)
        /\ e.effective = FirstOf(4, Chosen(s.traces, {i \in DOMAIN s.traces : Effective(s.traces[i])}))
        /\ e.phase = s.phase /\ e.outcome = OutcomeOf(s, v)
        /\ e.best = (IF v # NoVerification THEN v.candidate ELSE s.best)
        /\ e.evidence = Len(s.traces) + (IF v = NoVerification THEN 0 ELSE 2)
        /\ e.confidence = (IF v = NoVerification THEN 65 ELSE 85)
    BY DEF Consolidated
  <1> HIDE DEF e
  <1>2. e.task \in Task /\ e.id \in Id /\ e.id[2] = e.task /\ e.phase \in STRING
    BY <1>1 DEF SearchOK, Id
  <1>3. e.failures \in Seq(STRING) /\ Len(e.failures) <= 5
    BY <1>1, FailureModesHold
  <1>4. /\ e.effective \in Seq(Trace) /\ Len(e.effective) <= 4
        /\ \A i \in DOMAIN e.effective : e.effective[i].chain # <<>>
    <2>1. s.traces \in Seq(Trace)
      BY DEF SearchOK, Trace
    <2> QED  BY <1>1, <2>1, EffectiveHolds
  <1>5. e.outcome \in Outcome
    BY <1>1 DEF OutcomeOf, Outcome
  <1>6. e.best \in STRING
    BY <1>1 DEF SearchOK, VerificationOK
  <1>7. e.evidence \in Nat /\ e.evidence > 0
    <2>1. s.traces \in Seq(Trace) /\ s.traces # <<>>
      BY DEF SearchOK, Trace
    <2>2. Len(s.traces) \in Nat \ {0}
      BY <2>1, EmptySeq
    <2>3. CASE v = NoVerification
      BY <1>1, <2>2, <2>3
    <2>4. CASE v # NoVerification
      BY <1>1, <2>2, <2>4
    <2> QED  BY <2>3, <2>4
  <1>8. e.confidence \in Percent
    BY <1>1 DEF Percent
  <1> QED  BY <1>2, <1>3, <1>4, <1>5, <1>6, <1>7, <1>8 DEF EpisodeSound, EpisodeOK, e

LEMMA EpisodesSound == \A e \in Episode : EpisodeSound(e)
  BY IngestionAssumption, ConsolidatedHolds DEF Episode

(***************************************************************************)
(* Mining                                                                  *)
(***************************************************************************)

MentionKey == PatternType \X Trigger

LEMMA MentionsHold ==
  ASSUME NEW e, EpisodeSound(e)
  PROVE  Mentions(e) \in Seq(MentionKey)
  <1> DEFINE a == [i \in DOMAIN e.failures |-> <<"failure_pattern", e.failures[i]>>]
             b == [i \in DOMAIN e.effective |-> <<"success_pattern", e.effective[i].chain[1]>>]
             c == << <<"search_pattern", e.phase>> >>
             d == IF e.disagrees THEN << <<"calibration_pattern", "trust_disagreement">> >> ELSE <<>>
             f == IF e.pressure >= 80 THEN << <<"budget_pattern", "high_budget_pressure">> >> ELSE <<>>
             g == IF e.robust THEN << <<"robustness_pattern", "robust_success">> >> ELSE <<>>
  <1>1. a \in Seq(MentionKey)
    <2>1. \A i \in DOMAIN e.failures : <<"failure_pattern", e.failures[i]>> \in MentionKey
      BY DEF EpisodeSound, MentionKey, PatternType, Trigger
    <2>2. DOMAIN e.failures = 1 .. Len(e.failures) /\ Len(e.failures) \in Nat
      BY DEF EpisodeSound
    <2> QED  BY <2>1, <2>2
  <1>2. b \in Seq(MentionKey)
    <2>1. e.effective \in Seq(Trace)
      BY DEF EpisodeSound
    <2>2. ASSUME NEW i \in DOMAIN e.effective
          PROVE  <<"success_pattern", e.effective[i].chain[1]>> \in MentionKey
      <3>1. e.effective[i].chain \in Seq(STRING) /\ e.effective[i].chain # <<>>
        <4>1. e.effective[i] \in Trace
          BY <2>1
        <4> QED  BY <4>1 DEF EpisodeSound, Trace
      <3>2. Len(e.effective[i].chain) \in Nat \ {0}
        BY <3>1, EmptySeq
      <3>3. e.effective[i].chain[1] \in STRING
        BY <3>1, <3>2
      <3> QED  BY <3>3 DEF MentionKey, PatternType, Trigger
    <2>3. DOMAIN e.effective = 1 .. Len(e.effective) /\ Len(e.effective) \in Nat
      BY <2>1
    <2> QED  BY <2>2, <2>3
  <1>3. c \in Seq(MentionKey)
    BY DEF EpisodeSound, MentionKey, PatternType, Trigger
  <1>4. d \in Seq(MentionKey) /\ f \in Seq(MentionKey) /\ g \in Seq(MentionKey)
    <2>1. <<>> \in Seq(MentionKey)
      BY EmptySeq
    <2>2. /\ << <<"calibration_pattern", "trust_disagreement">> >> \in Seq(MentionKey)
          /\ << <<"budget_pattern", "high_budget_pressure">> >> \in Seq(MentionKey)
          /\ << <<"robustness_pattern", "robust_success">> >> \in Seq(MentionKey)
      <3>1. /\ <<"calibration_pattern", "trust_disagreement">> \in MentionKey
            /\ <<"budget_pattern", "high_budget_pressure">> \in MentionKey
            /\ <<"robustness_pattern", "robust_success">> \in MentionKey
        <4>1. \A x \in PatternType, y \in Trigger : <<x, y>> \in MentionKey
          BY DEF MentionKey
        <4>2. {"calibration_pattern", "budget_pattern", "robustness_pattern"} \subseteq PatternType
          BY DEF PatternType
        <4>3. {"trust_disagreement", "high_budget_pressure", "robust_success"} \subseteq Trigger
          BY DEF Trigger
        <4> QED  BY <4>1, <4>2, <4>3
      <3> QED  BY <3>1
    <2> QED  BY <2>1, <2>2
  <1>5. Mentions(e) = a \o b \o c \o d \o f \o g
    BY DEF Mentions
  <1> HIDE DEF a, b, c, d, f, g
  <1>6. a \o b \in Seq(MentionKey)
    BY <1>1, <1>2, ConcatProperties
  <1>7. a \o b \o c \in Seq(MentionKey)
    BY <1>3, <1>6, ConcatProperties
  <1>8. a \o b \o c \o d \in Seq(MentionKey)
    BY <1>4, <1>7, ConcatProperties
  <1>9. a \o b \o c \o d \o f \in Seq(MentionKey)
    BY <1>4, <1>8, ConcatProperties
  <1> QED  BY <1>4, <1>5, <1>9, ConcatProperties

\* The appends are finitely many pairs of indices, and each is in the group of its key.
LEMMA AppendsHold ==
  ASSUME NEW said \in Seq(Seq(MentionKey))
  PROVE  /\ IsFiniteSet(Appends(said))
         /\ \A at \in Appends(said) :
               /\ at = <<at[1], at[2]>> /\ at[1] \in DOMAIN said /\ at[2] \in Nat
               /\ Key(said, at) \in MentionKey
               /\ at \in Group(said, Key(said, at))
               /\ Group(said, Key(said, at)) \subseteq Appends(said)
  <1> DEFINE D == DOMAIN said
             of == [i \in D |-> {i} \X DOMAIN said[i]]
             family == {{i} \X DOMAIN said[i] : i \in D}
  <1>1. Len(said) \in Nat /\ D = 1 .. Len(said)
    OBVIOUS
  <1>2. \A i \in D : said[i] \in Seq(MentionKey) /\ DOMAIN said[i] = 1 .. Len(said[i])
    OBVIOUS
  <1>3. IsFiniteSet(family)
    <2>1. IsFiniteSet(D)
      BY <1>1, UpTo
    <2>2. of \in Surjection(D, family)
      BY DEF Surjection
    <2> HIDE DEF of, family, D
    <2> QED  BY <2>1, <2>2, FS_Surjection
  <1>4. \A T \in family : IsFiniteSet(T)
    <2> SUFFICES ASSUME NEW i \in D PROVE IsFiniteSet({i} \X DOMAIN said[i])
      OBVIOUS
    <2>1. Len(said[i]) \in Nat
      BY <1>2
    <2>2. IsFiniteSet({i}) /\ IsFiniteSet(DOMAIN said[i])
      BY <1>2, <2>1, UpTo, FS_Singleton
    <2> QED  BY <2>2, FS_Product
  <1>5. IsFiniteSet(Appends(said))
    <2>1. Appends(said) = UNION family
      BY DEF Appends
    <2> HIDE DEF family
    <2> QED  BY <1>3, <1>4, <2>1, FS_UNION
  <1>6. ASSUME NEW at \in Appends(said)
        PROVE  /\ at = <<at[1], at[2]>> /\ at[1] \in DOMAIN said /\ at[2] \in Nat
               /\ Key(said, at) \in MentionKey
               /\ at \in Group(said, Key(said, at))
               /\ Group(said, Key(said, at)) \subseteq Appends(said)
    <2>1. PICK i \in D : at \in {i} \X DOMAIN said[i]
      BY DEF Appends
    <2>2. at = <<at[1], at[2]>> /\ at[1] = i /\ at[2] \in DOMAIN said[i]
      BY <2>1
    <2>3. at[2] \in Nat /\ Key(said, at) = said[i][at[2]] /\ said[i][at[2]] \in MentionKey
      BY <1>2, <2>2 DEF Key
    <2>4. at \in {i} \X {j \in DOMAIN said[i] : said[i][j] = Key(said, at)}
      BY <2>2, <2>3
    <2>5. at \in Group(said, Key(said, at))
      BY <2>4 DEF Group
    <2>6. Group(said, Key(said, at)) \subseteq Appends(said)
      BY DEF Group, Appends
    <2> QED  BY <2>2, <2>3, <2>5, <2>6
  <1> QED  BY <1>5, <1>6

\* Patterns as they are mined: fresh, on some of those episodes, and never certain.
Fresh(ids) ==
    {p \in Pattern : /\ p.refs # {} /\ p.refs \subseteq ids
                     /\ p.confidence <= 95 /\ p.freshness = "fresh"}

LEMMA CappedHolds ==
  ASSUME NEW n \in Nat
  PROVE  Capped(n) \in Nat /\ Capped(n) <= 95 /\ Capped(n) \in Percent
  BY DEF Capped, Percent

LEMMA PatternOfHolds ==
  ASSUME NEW eps \in Seq(Episode),
         NEW said \in Seq(Seq(MentionKey)), DOMAIN said = DOMAIN eps,
         NEW at \in Appends(said)
  PROVE  PatternOf(eps, said, at) \in Fresh(Stored(eps))
  <1> DEFINE group == Group(said, Key(said, at))
             by == {append[1] : append \in group}
             p == PatternOf(eps, said, at)
  <1>1. \A i \in DOMAIN eps : eps[i].task \in Task /\ eps[i].id \in Id
    <2>1. \A i \in DOMAIN eps : eps[i] \in Episode
      OBVIOUS
    <2> QED  BY <2>1, EpisodesSound DEF EpisodeSound, EpisodeOK
  <1>2. /\ IsFiniteSet(group) /\ at \in group /\ at[1] \in DOMAIN eps
        /\ Key(said, at) \in MentionKey
        /\ \A append \in group : append[1] \in DOMAIN eps
    BY AppendsHold, FS_Subset
  <1>3. Cardinality(group) \in Nat
    BY <1>2, FS_CardinalityType
  <1>4. by \subseteq DOMAIN eps /\ at[1] \in by
    BY <1>2
  <1>5. Key(said, at)[1] \in PatternType /\ Key(said, at)[2] \in Trigger
    BY <1>2 DEF MentionKey
  <1> HIDE DEF group, by
  <1>6. p = [type |-> Key(said, at)[1], trigger |-> Key(said, at)[2],
             families |-> {FamilyOf(eps[i].task) : i \in by},
             types |-> {TypeOf(eps[i].task) : i \in by},
             refs |-> {eps[i].id : i \in by},
             first |-> eps[at[1]].id,
             count |-> Cardinality(group),
             confidence |-> Capped(45 + 10 * Cardinality(group)),
             freshness |-> "fresh", governance |-> "active"]
    BY DEF PatternOf, group, by
  <1> HIDE DEF p
  <1>7. /\ {FamilyOf(eps[i].task) : i \in by} \in SUBSET {FamilyOf(t) : t \in Task}
        /\ {TypeOf(eps[i].task) : i \in by} \in SUBSET {TypeOf(t) : t \in Task}
    BY <1>1, <1>4
  <1>8. /\ {eps[i].id : i \in by} \in SUBSET Id /\ {eps[i].id : i \in by} # {}
        /\ {eps[i].id : i \in by} \subseteq Stored(eps)
        /\ eps[at[1]].id \in Id
    BY <1>1, <1>4 DEF Stored
  <1>9. /\ Capped(45 + 10 * Cardinality(group)) \in Percent
        /\ Capped(45 + 10 * Cardinality(group)) <= 95
    <2>1. 45 + 10 * Cardinality(group) \in Nat
      BY <1>3
    <2> QED  BY <2>1, CappedHolds
  <1>10. "fresh" \in Freshness /\ "active" \in Governance
    BY DEF Freshness, Governance
  <1>11. p \in Pattern
    BY <1>3, <1>5, <1>6, <1>7, <1>8, <1>9, <1>10 DEF Pattern
  <1>12. p.refs # {} /\ p.refs \subseteq Stored(eps) /\ p.confidence <= 95 /\ p.freshness = "fresh"
    BY <1>6, <1>8, <1>9
  <1> QED  BY <1>11, <1>12 DEF Fresh, p

\* Mining makes fresh patterns, each on episodes that were mined.
LEMMA MineHolds ==
  ASSUME NEW eps \in Seq(Episode)
  PROVE  Mine(eps) \in Seq(Fresh(Stored(eps)))
  <1> DEFINE said  == [i \in DOMAIN eps |-> Mentions(eps[i])]
             open  == Openings(said)
             below == [at \in open |-> {by \in open : Earlier(by, at)}]
             place == [at \in open |-> 1 + Cardinality({by \in open : Earlier(by, at)})]
             at(n) == CHOOSE x \in open : place[x] = n
  <1>1. said \in Seq(Seq(MentionKey)) /\ DOMAIN said = DOMAIN eps
    <2>1. DOMAIN eps = 1 .. Len(eps) /\ Len(eps) \in Nat
      OBVIOUS
    <2>2. \A i \in DOMAIN eps : eps[i] \in Episode
      OBVIOUS
    <2>3. \A i \in DOMAIN eps : Mentions(eps[i]) \in Seq(MentionKey)
      BY <2>2, EpisodesSound, MentionsHold
    <2> QED  BY <2>1, <2>3
  <1> HIDE DEF said
  <1>2. open \subseteq Appends(said)
    BY DEF Openings
  <1>3. IsFiniteSet(open)
    BY <1>1, <1>2, AppendsHold, FS_Subset
  <1>4. \A x \in open : x = <<x[1], x[2]>> /\ x[1] \in Int /\ x[2] \in Int
    <2>1. \A x \in open : x = <<x[1], x[2]>> /\ x[1] \in DOMAIN said /\ x[2] \in Nat
      BY <1>1, <1>2, AppendsHold
    <2>2. DOMAIN said = 1 .. Len(said) /\ Len(said) \in Nat
      BY <1>1
    <2> QED  BY <2>1, <2>2
  <1> HIDE DEF open
  <1>5. PlacedBy(open, below, place)
    <2>1. below \in [open -> SUBSET open] /\ place = [x \in open |-> 1 + Cardinality(below[x])]
      OBVIOUS
    <2>2. \A x \in open : x \notin below[x]
      BY <1>4 DEF Earlier
    <2>3. ASSUME NEW x \in open, NEW y \in open, x # y
          PROVE  \/ x \in below[y] /\ below[x] \subseteq below[y]
                 \/ y \in below[x] /\ below[y] \subseteq below[x]
      <3>1. Earlier(x, y) \/ Earlier(y, x)
        BY <1>4, <2>3 DEF Earlier
      <3>2. CASE Earlier(x, y)
        BY <1>4, <3>2 DEF Earlier
      <3>3. CASE Earlier(y, x)
        BY <1>4, <3>3 DEF Earlier
      <3> QED  BY <3>1, <3>2, <3>3
    <2> QED  BY <2>1, <2>2, <2>3 DEF PlacedBy
  <1>6. Ranked(open, below, place)
    <2> HIDE DEF below, place
    <2> QED  BY <1>3, <1>5, PlacesAreTaken
  <1>7. Mine(eps) = [n \in 1 .. Cardinality(open) |-> PatternOf(eps, said, at(n))]
    BY DEF Mine, open, said
  <1> HIDE DEF place
  <1>8. ASSUME NEW n \in 1 .. Cardinality(open)
        PROVE  PatternOf(eps, said, at(n)) \in Fresh(Stored(eps))
    <2>1. at(n) \in open
      BY <1>6 DEF Ranked
    <2> HIDE DEF at
    <2>2. at(n) \in Appends(said)
      BY <1>2, <2>1
    <2> QED  BY <1>1, <2>2, PatternOfHolds
  <1> HIDE DEF at
  <1>9. Cardinality(open) \in Nat
    BY <1>6 DEF Ranked
  <1> QED  BY <1>7, <1>8, <1>9

(***************************************************************************)
(* Governance, aging, reflection                                           *)
(***************************************************************************)

LEMMA GovernedHolds ==
  ASSUME NEW ids, NEW p \in Fresh(ids), NEW mined
  PROVE  Governed(p, mined) \in Fresh(ids)
  <1> DEFINE g == Governed(p, mined).governance
             c == Governed(p, mined).confidence
  <1>1. p \in Pattern /\ p.confidence <= 95
    BY DEF Fresh
  <1>2. /\ p.governance \in Governance /\ p.confidence \in Int
        /\ 0 <= p.confidence /\ p.confidence <= 95
    BY <1>1 DEF Pattern, Percent
  <1>3. Governed(p, mined) = [p EXCEPT !.governance = g, !.confidence = c]
    BY <1>1 DEF Governed, Pattern
  <1>4. g \in Governance
    BY <1>1, <1>2 DEF Governed, Governance, Pattern
  <1>5. c = p.confidence \/ c = 49
    BY <1>1 DEF Governed, Pattern
  <1>6. c \in Percent /\ c <= 95
    BY <1>2, <1>5 DEF Percent
  <1> HIDE DEF g, c
  <1>7. Governed(p, mined) \in Pattern
    BY <1>1, <1>3, <1>4, <1>6 DEF Pattern
  <1>8. /\ Governed(p, mined).refs = p.refs /\ Governed(p, mined).freshness = p.freshness
        /\ Governed(p, mined).confidence = c
    BY <1>1, <1>3 DEF Pattern
  <1> QED  BY <1>6, <1>7, <1>8 DEF Fresh

\* Aging changes the freshness, as the distance to the support says, and never raises
\* the confidence.
LEMMA AgedHolds ==
  ASSUME NEW ids, NEW p \in Fresh(ids), NEW total \in Nat
  PROVE  /\ Aged(p, total) \in Pattern
         /\ Aged(p, total).refs = p.refs /\ Aged(p, total).count = p.count
         /\ Aged(p, total).confidence <= 95
         /\ LET gap == IF total > p.count THEN total - p.count ELSE 0
            IN  Aged(p, total).freshness = IF gap >= ExpireAfter THEN "expired"
                                           ELSE IF gap >= StaleAfter THEN "stale" ELSE "fresh"
  <1> DEFINE gap == IF total > p.count THEN total - p.count ELSE 0
  <1>1. p \in Pattern /\ p.confidence <= 95 /\ p.freshness = "fresh"
    BY DEF Fresh
  <1>2. p.confidence \in Percent
    BY <1>1 DEF Pattern
  <1>3. \A n \in {5, 10} : /\ Decayed(p.confidence, n) \in Percent
                           /\ Decayed(p.confidence, n) <= 95
    BY <1>1, <1>2 DEF Decayed, Percent
  <1>4. "forgotten" \in Governance /\ "expired" \in Freshness /\ "stale" \in Freshness
    BY DEF Governance, Freshness
  <1> HIDE DEF gap
  <1>5. CASE gap >= ExpireAfter
    <2>1. Aged(p, total) = [p EXCEPT !.freshness = "expired", !.governance = "forgotten",
                                     !.confidence = Decayed(p.confidence, 10)]
      BY <1>1, <1>5 DEF Aged, gap, Pattern
    <2>2. Aged(p, total) \in Pattern
      BY <1>1, <1>3, <1>4, <2>1 DEF Pattern
    <2>3. /\ Aged(p, total).refs = p.refs /\ Aged(p, total).count = p.count
          /\ Aged(p, total).freshness = "expired"
          /\ Aged(p, total).confidence = Decayed(p.confidence, 10)
      BY <1>1, <2>1 DEF Pattern
    <2> QED  BY <1>3, <1>5, <2>2, <2>3 DEF gap
  <1>6. CASE ~(gap >= ExpireAfter) /\ gap >= StaleAfter
    <2>1. Aged(p, total) = [p EXCEPT !.freshness = "stale",
                                     !.confidence = Decayed(p.confidence, 5)]
      BY <1>1, <1>6 DEF Aged, gap, Pattern
    <2>2. Aged(p, total) \in Pattern
      BY <1>1, <1>3, <1>4, <2>1 DEF Pattern
    <2>3. /\ Aged(p, total).refs = p.refs /\ Aged(p, total).count = p.count
          /\ Aged(p, total).freshness = "stale"
          /\ Aged(p, total).confidence = Decayed(p.confidence, 5)
      BY <1>1, <2>1 DEF Pattern
    <2> QED  BY <1>3, <1>6, <2>2, <2>3 DEF gap
  <1>7. CASE ~(gap >= ExpireAfter) /\ ~(gap >= StaleAfter)
    <2>1. Aged(p, total) = p
      BY <1>7 DEF Aged, gap
    <2> QED  BY <1>1, <1>7, <2>1 DEF gap
  <1> QED  BY <1>5, <1>6, <1>7

\* The patterns of a store of that many episodes.
AgedPatterns(ids, total) == {Aged(p, total) : p \in Fresh(ids)}

LEMMA StrengthHolds ==
  ASSUME NEW p \in Pattern
  PROVE  Strength(p) \in Int
  <1>1. p.count \in Nat /\ p.confidence \in Int
    BY DEF Pattern, Percent
  <1> QED  BY <1>1 DEF Strength

LEMMA PatternsAfterHolds ==
  ASSUME NEW ids, NEW mined \in Seq(Fresh(ids)), NEW total \in Nat
  PROVE  /\ PatternsAfter(mined, total) \in Seq(AgedPatterns(ids, total))
         /\ Len(PatternsAfter(mined, total)) <= MaxPatterns
  <1> DEFINE governed == [i \in DOMAIN mined |-> Governed(mined[i], mined)]
             key == [i \in DOMAIN governed |-> Strength(governed[i])]
             sorted == SortedBy(governed, key)
             kept == Newest(MaxPatterns, sorted)
  <1>1. governed \in Seq(Fresh(ids))
    <2>1. \A i \in DOMAIN mined : mined[i] \in Fresh(ids)
      OBVIOUS
    <2>2. \A i \in DOMAIN mined : Governed(mined[i], mined) \in Fresh(ids)
      BY <2>1, GovernedHolds
    <2>3. DOMAIN mined = 1 .. Len(mined) /\ Len(mined) \in Nat
      OBVIOUS
    <2> QED  BY <2>2, <2>3
  <1>2. PatternsAfter(mined, total) = [i \in DOMAIN kept |-> Aged(kept[i], total)]
    BY DEF PatternsAfter
  <1> HIDE DEF governed
  <1>3. key \in [DOMAIN governed -> Int]
    <2>1. \A i \in DOMAIN governed : governed[i] \in Fresh(ids)
      BY <1>1
    <2>2. \A i \in DOMAIN governed : governed[i] \in Pattern
      BY <2>1 DEF Fresh
    <2> QED  BY <2>2, StrengthHolds
  <1> HIDE DEF key
  <1>4. sorted \in Seq(Fresh(ids))
    BY <1>1, <1>3, SortedHolds
  <1> HIDE DEF sorted
  <1>5. MaxPatterns \in Nat \ {0}
    BY MemoryAssumption
  <1>6. /\ kept \in Seq(Fresh(ids))
        /\ Len(sorted) <= MaxPatterns => Len(kept) = Len(sorted)
        /\ Len(sorted) > MaxPatterns => Len(kept) = MaxPatterns
    BY <1>4, <1>5, NewestHolds
  <1> HIDE DEF kept
  <1>7. Len(kept) \in Nat /\ DOMAIN kept = 1 .. Len(kept) /\ Len(kept) <= MaxPatterns
    <2>1. Len(sorted) \in Nat
      BY <1>4
    <2> QED  BY <1>5, <1>6, <2>1
  <1>8. \A i \in DOMAIN kept : kept[i] \in Fresh(ids)
    BY <1>6
  <1>9. \A i \in DOMAIN kept : Aged(kept[i], total) \in AgedPatterns(ids, total)
    BY <1>8 DEF AgedPatterns
  <1> QED  BY <1>2, <1>7, <1>9

ReflectionRecord == [task: Task, scope: Id, updates: Seq(Update), evidence: Nat \ {0},
                     confidence: 55 .. 95]

\* A reflection has the evidence and the scope of its episode, and something to say.
LEMMA ReflectionHolds ==
  ASSUME NEW e, EpisodeSound(e), NEW X, NEW mined \in Seq(X)
  PROVE  Reflection(e, mined) \in ReflectionRecord
  <1>1. /\ e.task \in Task /\ e.id \in Id /\ e.evidence \in Nat \ {0} /\ e.best \in Payload
        /\ e.failures \in Seq(STRING)
    BY DEF EpisodeSound, EpisodeOK, Payload
  <1>2. \A otherwise \in Payload : Focus(e, otherwise) \in Payload
    <2>1. e.failures # <<>> => e.failures[1] \in STRING
      <3> SUFFICES ASSUME e.failures # <<>> PROVE e.failures[1] \in STRING
        OBVIOUS
      <3>1. Len(e.failures) \in Nat \ {0}
        BY <1>1, EmptySeq
      <3> QED  BY <1>1, <3>1
    <2> QED  BY <2>1 DEF Focus, Payload
  <1> DEFINE a == << [layer |-> "layer4", type |-> "search_adjustment",
                      payload |-> Focus(e, "retain_diversity")] >>
             b == IF e.disagrees
                  THEN << [layer |-> "layer3", type |-> "trust_adjustment", payload |-> "tighten"] >>
                  ELSE <<>>
             c == IF e.outcome # "verified_success"
                  THEN << [layer |-> "layer5", type |-> "validation_focus",
                           payload |-> Focus(e, "boundary_constraints")] >>
                  ELSE << [layer |-> "layer2", type |-> "initialization_hint",
                           payload |-> e.best] >>
  <1>3. \A l \in Layer, t \in AdviceType, p \in Payload :
            [layer |-> l, type |-> t, payload |-> p] \in Update
    BY DEF Update
  <1>4. /\ {"layer2", "layer3", "layer4", "layer5"} \subseteq Layer
        /\ {"search_adjustment", "trust_adjustment", "validation_focus", "initialization_hint"}
              \subseteq AdviceType
        /\ {"retain_diversity", "tighten", "boundary_constraints"} \subseteq Payload
    BY DEF Layer, AdviceType, Payload
  <1>5. a \in Seq(Update)
    <2>1. [layer |-> "layer4", type |-> "search_adjustment",
           payload |-> Focus(e, "retain_diversity")] \in Update
      BY <1>2, <1>3, <1>4
    <2> QED  BY <2>1
  <1>6. b \in Seq(Update)
    <2>1. [layer |-> "layer3", type |-> "trust_adjustment", payload |-> "tighten"] \in Update
      BY <1>3, <1>4
    <2>2. <<>> \in Seq(Update)
      BY EmptySeq
    <2> QED  BY <2>1, <2>2
  <1>7. c \in Seq(Update)
    <2>1. /\ [layer |-> "layer5", type |-> "validation_focus",
              payload |-> Focus(e, "boundary_constraints")] \in Update
          /\ [layer |-> "layer2", type |-> "initialization_hint", payload |-> e.best] \in Update
      BY <1>1, <1>2, <1>3, <1>4
    <2> QED  BY <2>1
  <1>8. PolicyUpdates(e) = a \o b \o c
    BY DEF PolicyUpdates
  <1> HIDE DEF a, b, c
  <1>9. PolicyUpdates(e) \in Seq(Update)
    <2>1. a \o b \in Seq(Update)
      BY <1>5, <1>6, ConcatProperties
    <2> QED  BY <1>7, <1>8, <2>1, ConcatProperties
  <1>10. /\ Capped(55 + 5 * Len(mined) + 10) \in 55 .. 95
         /\ Capped(55 + 5 * Len(mined) + 0) \in 55 .. 95
    <2> DEFINE n == Len(mined)
    <2>1. n \in Nat
      OBVIOUS
    <2> HIDE DEF n
    <2>2. /\ Capped(55 + 5 * n + 10) \in 55 .. 95
          /\ Capped(55 + 5 * n + 0) \in 55 .. 95
      BY <2>1 DEF Capped
    <2> QED  BY <2>2 DEF n
  <1>11. Reflection(e, mined).confidence \in 55 .. 95
    <2>1. CASE e.outcome = "verified_success"
      BY <1>10, <2>1 DEF Reflection
    <2>2. CASE e.outcome # "verified_success"
      BY <1>10, <2>2 DEF Reflection
    <2> QED  BY <2>1, <2>2
  <1> QED  BY <1>1, <1>9, <1>11 DEF Reflection, ReflectionRecord

(***************************************************************************)
(* The inductive invariant                                                 *)
(***************************************************************************)

Scopes == {reflections[j].scope : j \in DOMAIN reflections}

\* Only what was consolidated and reflected on is stored.
StoreTyped == episodes \in Seq(Episode) /\ reflections \in Seq(ReflectionRecord)

\* The patterns are those of the last mining: fresh patterns on episodes that were
\* reflected on, aged by what is stored now.
PatternsTraced ==
    /\ patterns \in Seq(AgedPatterns(Scopes, Len(episodes)))
    /\ Len(patterns) <= MaxPatterns

\* There is at most one episode that patterns name and that is not stored.
OneGone == \E gone : \A p \in Range(patterns) : p.refs \subseteq Stored(episodes) \cup {gone}

ValidExactly == valid = BundleValid(episodes, patterns, reflections)

AnswerTyped == answer.call = "retrieve" => RetrievalOK(answer)

MemoryInvariant ==
    /\ StoreTyped
    /\ NewestKept
    /\ PatternsTraced
    /\ OneGone
    /\ ValidExactly
    /\ AnswerTyped
    /\ RetrievalSound

LEMMA InitHolds == Init => MemoryInvariant
  <1> SUFFICES ASSUME Init PROVE MemoryInvariant
    OBVIOUS
  <1>1. /\ episodes = <<>> /\ patterns = <<>> /\ reflections = <<>>
        /\ answer.call = "none" /\ valid = BundleValid(<<>>, <<>>, <<>>)
    BY DEF Init, NoAnswer
  <1>2. /\ \A S : <<>> \in Seq(S)
        /\ Len(<<>>) = 0 /\ DOMAIN <<>> = {}
    BY EmptySeq
  <1>3. StoreTyped
    BY <1>1, <1>2 DEF StoreTyped
  <1>4. NewestKept
    BY <1>1, <1>2, MemoryAssumption DEF NewestKept
  <1>5. PatternsTraced
    BY <1>1, <1>2, MemoryAssumption DEF PatternsTraced
  <1>6. OneGone
    BY <1>1, <1>2 DEF OneGone, Range
  <1>7. ValidExactly /\ AnswerTyped /\ RetrievalSound
    BY <1>1 DEF ValidExactly, AnswerTyped, RetrievalSound, AdviceGrounded, RecallsOwnKind
  <1> QED  BY <1>3, <1>4, <1>5, <1>6, <1>7 DEF MemoryInvariant

\* What the actions share about the store.
LEMMA StoreFacts ==
  ASSUME StoreTyped, NewestKept
  PROVE  /\ Len(episodes) \in Nat /\ DOMAIN episodes = 1 .. Len(episodes)
         /\ Len(reflections) \in Nat /\ DOMAIN reflections = 1 .. Len(reflections)
         /\ Len(episodes) <= Len(reflections) /\ Len(episodes) <= MaxEpisodes
         /\ \A i \in DOMAIN episodes : episodes[i] \in Episode /\ EpisodeSound(episodes[i])
         /\ \A j \in DOMAIN reflections : reflections[j] \in ReflectionRecord
         /\ Stored(episodes) \subseteq Scopes
  <1>1. /\ Len(episodes) \in Nat /\ DOMAIN episodes = 1 .. Len(episodes)
        /\ Len(reflections) \in Nat /\ DOMAIN reflections = 1 .. Len(reflections)
        /\ \A i \in DOMAIN episodes : episodes[i] \in Episode
        /\ \A j \in DOMAIN reflections : reflections[j] \in ReflectionRecord
    BY DEF StoreTyped
  <1>2. Len(episodes) <= Len(reflections) /\ Len(episodes) <= MaxEpisodes
    BY <1>1, MemoryAssumption DEF NewestKept
  <1>3. ASSUME NEW i \in DOMAIN episodes PROVE episodes[i].id \in Scopes
    <2>1. Len(reflections) - Len(episodes) + i \in DOMAIN reflections
      BY <1>1, <1>2
    <2>2. reflections[Len(reflections) - Len(episodes) + i].scope = episodes[i].id
      BY DEF NewestKept
    <2> QED  BY <2>1, <2>2 DEF Scopes
  <1> QED  BY <1>1, <1>2, <1>3, EpisodesSound DEF Stored

LEMMA FreshGrows ==
  ASSUME NEW A, NEW B, A \subseteq B
  PROVE  Fresh(A) \subseteq Fresh(B)
  BY DEF Fresh

\* What an ingestion makes of the store: an episode and a reflection more, and the
\* oldest episode gone if there was no room.
LEMMA IngestFacts ==
  ASSUME MemoryInvariant, NEW i \in Ingestions, IngestEpisode(i[1], i[2])
  PROVE  LET episode == Consolidated(i[1], i[2])
             all     == Append(episodes, episode)
         IN  /\ episode \in Episode
             /\ all \in Seq(Episode) /\ Len(all) = Len(episodes) + 1
             /\ Stored(all) = Stored(episodes) \cup {episode.id}
             /\ episodes' = Newest(MaxEpisodes, all)
             /\ StoreTyped'
             /\ Len(reflections') = Len(reflections) + 1
             /\ \A j \in DOMAIN reflections : reflections'[j] = reflections[j]
             /\ reflections'[Len(reflections) + 1].scope = episode.id
             /\ Scopes' = Scopes \cup {episode.id}
             /\ Mine(all) \in Seq(Fresh(Scopes'))
             /\ patterns' = PatternsAfter(Mine(all), Len(episodes'))
             /\ valid' = BundleValid(episodes', patterns', reflections')
             /\ answer'.call = "ingest"
  <1> DEFINE episode == Consolidated(i[1], i[2])
             all == Append(episodes, episode)
             mined == Mine(all)
             reflection == Reflection(episode, mined)
  <1>1. /\ StoreTyped /\ NewestKept
        /\ episodes \in Seq(Episode) /\ reflections \in Seq(ReflectionRecord)
        /\ Stored(episodes) \subseteq Scopes
    BY StoreFacts DEF MemoryInvariant, StoreTyped
  <1>2. /\ episodes' = Newest(MaxEpisodes, all)
        /\ patterns' = PatternsAfter(mined, Len(episodes'))
        /\ reflections' = Append(reflections, reflection)
        /\ valid' = BundleValid(episodes', patterns', reflections')
        /\ answer'.call = "ingest"
    BY DEF IngestEpisode
  <1>3. episode \in Episode /\ EpisodeSound(episode)
    BY EpisodesSound DEF Episode
  <1> HIDE DEF episode
  <1>4. /\ all \in Seq(Episode) /\ Len(all) = Len(episodes) + 1
        /\ \A k \in 1 .. Len(episodes) : all[k] = episodes[k]
        /\ all[Len(episodes) + 1] = episode
    BY <1>1, <1>3, AppendProperties
  <1>5. Stored(all) = Stored(episodes) \cup {episode.id}
    <2>1. DOMAIN all = (DOMAIN episodes) \cup {Len(episodes) + 1} /\ DOMAIN episodes = 1 .. Len(episodes)
      BY <1>1, <1>4
    <2> HIDE DEF all
    <2> QED  BY <1>4, <2>1 DEF Stored
  <1> HIDE DEF all
  <1>6. mined \in Seq(Fresh(Stored(all)))
    BY <1>4, MineHolds
  <1> HIDE DEF mined
  <1>7. reflection \in ReflectionRecord /\ reflection.scope = episode.id
    <2>1. reflection \in ReflectionRecord
      BY <1>3, <1>6, ReflectionHolds
    <2> QED  BY <2>1 DEF Reflection
  <1> HIDE DEF reflection
  <1>8. /\ reflections' \in Seq(ReflectionRecord)
        /\ Len(reflections') = Len(reflections) + 1
        /\ \A j \in 1 .. Len(reflections) : reflections'[j] = reflections[j]
        /\ reflections'[Len(reflections) + 1] = reflection
    BY <1>1, <1>2, <1>7, AppendProperties
  <1>9. /\ DOMAIN reflections' = (DOMAIN reflections) \cup {Len(reflections) + 1}
        /\ DOMAIN reflections = 1 .. Len(reflections)
    BY <1>1, <1>8
  <1>10. Scopes' = Scopes \cup {episode.id}
    BY <1>7, <1>8, <1>9 DEF Scopes
  <1>11. mined \in Seq(Fresh(Scopes'))
    <2>1. Stored(all) \subseteq Scopes'
      BY <1>1, <1>5, <1>10
    <2>2. Fresh(Stored(all)) \subseteq Fresh(Scopes')
      BY <2>1, FreshGrows
    <2> QED  BY <1>6, <2>2, SeqMonotonic
  <1>12. StoreTyped'
    <2>1. MaxEpisodes \in Nat \ {0}
      BY MemoryAssumption
    <2>2. Newest(MaxEpisodes, all) \in Seq(Episode)
      BY <1>4, <2>1, NewestHolds
    <2> QED  BY <1>2, <1>8, <2>2 DEF StoreTyped, Episode
  <1> QED  BY <1>2, <1>3, <1>4, <1>5, <1>7, <1>8, <1>9, <1>10, <1>11, <1>12
           DEF episode, all, mined

LEMMA IngestStep ==
  ASSUME MemoryInvariant, NEW i \in Ingestions, IngestEpisode(i[1], i[2])
  PROVE  MemoryInvariant'
  <1> DEFINE episode == Consolidated(i[1], i[2])
             all == Append(episodes, episode)
  <1>1. /\ episode \in Episode
        /\ all \in Seq(Episode) /\ Len(all) = Len(episodes) + 1
        /\ Stored(all) = Stored(episodes) \cup {episode.id}
        /\ episodes' = Newest(MaxEpisodes, all)
        /\ StoreTyped'
        /\ Len(reflections') = Len(reflections) + 1
        /\ \A j \in DOMAIN reflections : reflections'[j] = reflections[j]
        /\ reflections'[Len(reflections) + 1].scope = episode.id
        /\ Mine(all) \in Seq(Fresh(Scopes'))
        /\ patterns' = PatternsAfter(Mine(all), Len(episodes'))
        /\ valid' = BundleValid(episodes', patterns', reflections')
        /\ answer'.call = "ingest"
    BY IngestFacts
  <1>2. /\ StoreTyped /\ NewestKept
        /\ Len(episodes) \in Nat /\ DOMAIN episodes = 1 .. Len(episodes)
        /\ Len(reflections) \in Nat /\ DOMAIN reflections = 1 .. Len(reflections)
        /\ Len(episodes) <= Len(reflections) /\ Len(episodes) <= MaxEpisodes
    BY StoreFacts DEF MemoryInvariant
  <1>3. MaxEpisodes \in Nat \ {0}
    BY MemoryAssumption
  <1>4. /\ \A k \in 1 .. Len(episodes) : all[k] = episodes[k]
        /\ all[Len(episodes) + 1] = episode
        /\ DOMAIN all = 1 .. Len(all)
    BY <1>1, <1>2, AppendProperties DEF StoreTyped
  <1> HIDE DEF episode, all
  <1> DEFINE K == Len(episodes')
  <1>5. /\ Len(all) <= MaxEpisodes => K = Len(all)
        /\ Len(all) > MaxEpisodes => K = MaxEpisodes
        /\ \A k \in DOMAIN episodes' : /\ Len(all) - K + k \in DOMAIN all
                                       /\ episodes'[k] = all[Len(all) - K + k]
    BY <1>1, <1>3, NewestHolds
  <1>6. K \in Nat /\ DOMAIN episodes' = 1 .. K
    BY <1>1 DEF StoreTyped
  <1>7. K = (IF Len(reflections') < MaxEpisodes THEN Len(reflections') ELSE MaxEpisodes)
    <2>1. Len(episodes) = (IF Len(reflections) < MaxEpisodes THEN Len(reflections)
                                                             ELSE MaxEpisodes)
      BY <1>2 DEF NewestKept
    <2>2. CASE Len(reflections) < MaxEpisodes
      <3>1. Len(episodes) = Len(reflections) /\ Len(all) = Len(reflections')
        BY <1>1, <2>1, <2>2
      <3>2. K = Len(reflections') /\ Len(reflections') <= MaxEpisodes
        BY <1>1, <1>2, <1>3, <1>5, <2>2, <3>1
      <3> QED  BY <1>2, <1>3, <3>2
    <2>3. CASE ~(Len(reflections) < MaxEpisodes)
      <3>1. Len(episodes) = MaxEpisodes
        BY <2>1, <2>3
      <3>2. K = MaxEpisodes /\ ~(Len(reflections') < MaxEpisodes)
        BY <1>1, <1>2, <1>3, <1>5, <2>3, <3>1
      <3> QED  BY <3>2
    <2> QED  BY <2>2, <2>3
  <1>8. ASSUME NEW k \in DOMAIN episodes'
        PROVE  reflections'[Len(reflections') - K + k].scope = episodes'[k].id
    <2>1. /\ k \in 1 .. K /\ Len(all) - K + k \in 1 .. Len(all)
          /\ episodes'[k] = all[Len(all) - K + k]
      BY <1>4, <1>5, <1>6
    <2>2. CASE k = K
      <3>1. Len(all) - K + k = Len(episodes) + 1 /\ Len(reflections') - K + k = Len(reflections) + 1
        BY <1>1, <1>2, <1>6, <2>2
      <3> QED  BY <1>1, <1>4, <2>1, <3>1
    <2>3. CASE k # K
      <3> DEFINE m == Len(all) - K + k
      <3>1. m \in 1 .. Len(episodes)
        BY <1>1, <1>2, <1>6, <2>1, <2>3
      <3>2. Len(reflections') - K + k = Len(reflections) - Len(episodes) + m
        BY <1>1, <1>2, <1>6, <2>1
      <3>3. Len(reflections) - Len(episodes) + m \in DOMAIN reflections
        BY <1>2, <3>1
      <3>4. reflections[Len(reflections) - Len(episodes) + m].scope = episodes[m].id
        BY <1>2, <3>1 DEF NewestKept
      <3> HIDE DEF m
      <3> QED  BY <1>1, <1>4, <2>1, <3>1, <3>2, <3>3, <3>4 DEF m
    <2> QED  BY <2>2, <2>3
  <1>9. NewestKept'
    BY <1>7, <1>8 DEF NewestKept
  <1>10. PatternsTraced'
    <2>1. /\ PatternsAfter(Mine(all), K) \in Seq(AgedPatterns(Scopes', K))
          /\ Len(PatternsAfter(Mine(all), K)) <= MaxPatterns
      BY <1>1, <1>6, PatternsAfterHolds
    <2> QED  BY <1>1, <2>1 DEF PatternsTraced, AgedPatterns, Aged, Fresh, Pattern
  <1>11. \E gone : Stored(all) \subseteq Stored(episodes') \cup {gone}
    <2> SUFFICES \E gone : \A k \in DOMAIN all : all[k].id \in Stored(episodes') \cup {gone}
      BY DEF Stored
    <2>1. CASE Len(all) <= MaxEpisodes
      <3>1. K = Len(all)
        BY <1>5, <2>1
      <3>2. \A k \in DOMAIN all : k \in DOMAIN episodes' /\ Len(all) - K + k = k
        BY <1>1, <1>2, <1>4, <1>6, <3>1
      <3>3. \A k \in DOMAIN all : all[k].id \in Stored(episodes')
        BY <1>5, <3>2 DEF Stored
      <3> QED  BY <3>3
    <2>2. CASE ~(Len(all) <= MaxEpisodes)
      <3>1. K = Len(episodes) /\ Len(all) = K + 1 /\ DOMAIN all = 1 .. K + 1
        BY <1>1, <1>2, <1>3, <1>4, <1>5, <2>2
      <3>2. ASSUME NEW k \in DOMAIN all, k # 1 PROVE all[k].id \in Stored(episodes')
        <4>1. k - 1 \in DOMAIN episodes' /\ Len(all) - K + (k - 1) = k
          BY <1>6, <3>1, <3>2
        <4> QED  BY <1>5, <4>1 DEF Stored
      <3>3. \A k \in DOMAIN all : all[k].id \in Stored(episodes') \cup {all[1].id}
        BY <3>2
      <3> QED  BY <3>3
    <2> QED  BY <2>1, <2>2
  <1>12. OneGone'
    <2>1. PICK gone : Stored(all) \subseteq Stored(episodes') \cup {gone}
      BY <1>11
    <2>2. \A p \in Range(patterns') : p.refs \subseteq Stored(all)
      <3>1. Mine(all) \in Seq(Fresh(Stored(all)))
        BY <1>1, MineHolds
      <3>2. patterns' \in Seq(AgedPatterns(Stored(all), K))
        BY <1>1, <1>6, <3>1, PatternsAfterHolds
      <3>3. \A p \in Range(patterns') : p \in AgedPatterns(Stored(all), K)
        BY <3>2 DEF Range
      <3> SUFFICES ASSUME NEW p \in AgedPatterns(Stored(all), K)
                   PROVE  p.refs \subseteq Stored(all)
        BY <3>3
      <3>4. PICK f \in Fresh(Stored(all)) : p = Aged(f, K)
        BY DEF AgedPatterns
      <3>5. p.refs = f.refs
        BY <1>6, <3>4, AgedHolds
      <3> QED  BY <3>5 DEF Fresh
    <2>3. \A p \in Range(patterns') : p.refs \subseteq Stored(episodes') \cup {gone}
      BY <2>1, <2>2
    <2> QED  BY <2>3 DEF OneGone, Range, Stored
  <1>13. ValidExactly'
    BY <1>1 DEF ValidExactly, BundleValid, Stored, Range
  <1>14. AnswerTyped' /\ RetrievalSound'
    BY <1>1 DEF AnswerTyped, RetrievalSound, AdviceGrounded, RecallsOwnKind
  <1> QED  BY <1>1, <1>9, <1>10, <1>12, <1>13, <1>14 DEF MemoryInvariant

(***************************************************************************)
(* Retrieval                                                               *)
(***************************************************************************)

\* The score of an episode is bounded, and of one of the same family and type it is
\* more than half of the most there can be.
LEMMA EpisodeScoreHolds ==
  ASSUME NEW t \in Task, NEW e, EpisodeSound(e)
  PROVE  /\ EpisodeScore(t, e) \in Nat /\ EpisodeScore(t, e) <= 10000
         /\ FamilyOf(e.task) = FamilyOf(t) /\ TypeOf(e.task) = TypeOf(t)
               => EpisodeScore(t, e) > 5000
         /\ FamilyOf(e.task) # FamilyOf(t) /\ TypeOf(e.task) # TypeOf(t)
               => EpisodeScore(t, e) <= 3750
  <1> DEFINE family == Indicator(FamilyOf(t) = FamilyOf(e.task))
             type == Indicator(TypeOf(t) = TypeOf(e.task))
             evidence == IF e.evidence < 5 THEN e.evidence ELSE 5
             profile == SharedProfile(t, e.task)
  <1>1. e.task \in Task /\ e.evidence \in Nat /\ e.evidence > 0
    BY DEF EpisodeSound, EpisodeOK
  <1>2. profile \in 0 .. 45
    BY <1>1, MemoryAssumption
  <1>3. evidence \in 1 .. 5
    BY <1>1
  <1>4. family \in 0 .. 1 /\ type \in 0 .. 1
    BY DEF Indicator
  <1>5. FamilyOf(e.task) = FamilyOf(t) /\ TypeOf(e.task) = TypeOf(t) => family = 1 /\ type = 1
    BY DEF Indicator
  <1>9. FamilyOf(e.task) # FamilyOf(t) /\ TypeOf(e.task) # TypeOf(t) => family = 0 /\ type = 0
    BY DEF Indicator
  <1>6. EpisodeScore(t, e) = 50 * (35 * family + 20 * type + profile)
                                 + 300 * evidence + 1500 * family + 1000 * type
    BY DEF EpisodeScore, SignatureOverlap
  <1> HIDE DEF family, type, evidence, profile
  <1>7. EpisodeScore(t, e) \in Nat /\ EpisodeScore(t, e) <= 10000
    <2> DEFINE overlap == 35 * family + 20 * type + profile
               rest == 300 * evidence + 1500 * family + 1000 * type
    <2>1. overlap \in Int /\ 0 <= overlap /\ overlap <= 100
      BY <1>2, <1>4
    <2>2. rest \in Int /\ 0 <= rest /\ rest <= 4000
      BY <1>3, <1>4
    <2>3. EpisodeScore(t, e) = 50 * overlap + rest
      BY <1>2, <1>3, <1>4, <1>6
    <2> HIDE DEF overlap, rest
    <2> QED  BY <2>1, <2>2, <2>3
  <1>8. family = 1 /\ type = 1 => EpisodeScore(t, e) > 5000
    BY <1>2, <1>3, <1>6
  <1>10. family = 0 /\ type = 0 => EpisodeScore(t, e) <= 3750
    BY <1>2, <1>3, <1>6
  <1> QED  BY <1>5, <1>7, <1>8, <1>9, <1>10

\* The confidence of a pattern alone is not enough for a hit.
LEMMA PatternScoreHolds ==
  ASSUME NEW t \in Task, NEW p \in Pattern
  PROVE  /\ PatternScore(t, p) \in Int
         /\ p.confidence <= 95 /\ PatternScore(t, p) >= MinimumScore
               => FamilyOf(t) \in p.families \/ TypeOf(t) \in p.types
  <1> DEFINE family == Indicator(FamilyOf(t) \in p.families)
             type == Indicator(TypeOf(t) \in p.types)
  <1>1. p.confidence \in Int
    BY DEF Pattern, Percent
  <1>2. /\ family \in 0 .. 1 /\ type \in 0 .. 1
        /\ family # 0 => FamilyOf(t) \in p.families
        /\ type # 0 => TypeOf(t) \in p.types
    BY DEF Indicator
  <1>3. PatternScore(t, p) = 5000 * family + 2500 * type + 25 * p.confidence
    BY DEF PatternScore
  <1> HIDE DEF family, type
  <1>4. PatternScore(t, p) \in Int
    BY <1>1, <1>2, <1>3
  <1>5. p.confidence <= 95 /\ PatternScore(t, p) >= 2500 => family # 0 \/ type # 0
    BY <1>1, <1>2, <1>3
  <1> QED  BY <1>2, <1>4, <1>5 DEF MinimumScore

\* An id that is stored is looked up, and its episode is of the task of the id.
LEMMA LookupHolds ==
  ASSUME StoreTyped, NewestKept, NEW id \in Stored(episodes)
  PROVE  EpisodeSound(Lookup(id)) /\ Lookup(id).id = id
  <1> DEFINE same == {i \in DOMAIN episodes : episodes[i].id = id}
  <1>1. /\ Len(episodes) \in Nat /\ DOMAIN episodes = 1 .. Len(episodes)
        /\ \A i \in DOMAIN episodes : EpisodeSound(episodes[i])
    BY StoreFacts
  <1>2. IsFiniteSet(same) /\ (\A i \in same : i \in Int) /\ same # {}
    <2>1. IsFiniteSet(DOMAIN episodes)
      BY <1>1, UpTo
    <2>2. same \in SUBSET DOMAIN episodes
      OBVIOUS
    <2>3. same # {}
      BY DEF Stored
    <2>4. \A i \in same : i \in Int
      BY <1>1
    <2> HIDE DEF same
    <2> QED  BY <2>1, <2>2, <2>3, <2>4, FS_Subset
  <1>3. Max(same) \in same
    <2> HIDE DEF same
    <2> QED  BY <1>2, LastFound
  <1>4. Lookup(id) = episodes[Max(same)]
    BY DEF Lookup
  <1> QED  BY <1>1, <1>3, <1>4

Families == {FamilyOf(t) : t \in Task}
Types == {TypeOf(t) : t \in Task}

\* What is fed back is about the episode and in the scope given, and has evidence.
LEMMA FeedbackHolds ==
  ASSUME NEW e, EpisodeSound(e), NEW r \in ReflectionRecord,
         NEW scope, scope.families \in SUBSET Families, scope.types \in SUBSET Types,
         NEW a \in Feedback(e, scope, r)
  PROVE  /\ a \in Advice
         /\ a.about = e.id /\ a.evidence > 0
         /\ a.confidence \in 55 .. 95
         /\ a.families = scope.families /\ a.types = scope.types
  <1>1. /\ r.updates \in Seq(Update) /\ r.evidence \in Nat \ {0} /\ r.confidence \in 55 .. 95
        /\ r.confidence \in Percent /\ e.id \in Id
    BY DEF ReflectionRecord, EpisodeSound, Percent
  <1>2. PICK i \in DOMAIN r.updates :
            a = [about |-> e.id, families |-> scope.families, types |-> scope.types,
                 layer |-> r.updates[i].layer, type |-> r.updates[i].type,
                 payload |-> r.updates[i].payload, confidence |-> r.confidence,
                 evidence |-> IF r.evidence > 0 THEN r.evidence ELSE e.evidence]
    BY DEF Feedback
  <1>3. r.updates[i] \in Update
    BY <1>1
  <1>4. /\ r.updates[i].layer \in Layer /\ r.updates[i].type \in AdviceType
        /\ r.updates[i].payload \in Payload
    BY <1>3 DEF Update
  <1>5. a.evidence = r.evidence
    BY <1>1, <1>2
  <1> QED  BY <1>1, <1>2, <1>4, <1>5 DEF Advice, Families, Types

\* What the patterns are, as retrieval reads them.
LEMMA PatternFacts ==
  ASSUME StoreTyped, NewestKept, PatternsTraced
  PROVE  /\ patterns \in Seq(Pattern)
         /\ \A p \in Range(patterns) : p \in Pattern /\ p.confidence <= 95
  <1>1. Len(episodes) \in Nat
    BY StoreFacts
  <1>2. ASSUME NEW p \in AgedPatterns(Scopes, Len(episodes))
        PROVE  p \in Pattern /\ p.confidence <= 95
    BY <1>1, AgedHolds DEF AgedPatterns
  <1>3. patterns \in Seq(AgedPatterns(Scopes, Len(episodes)))
    BY DEF PatternsTraced
  <1>4. patterns \in Seq(Pattern)
    BY <1>2, <1>3, SeqMonotonic
  <1>5. \A p \in Range(patterns) : p \in AgedPatterns(Scopes, Len(episodes))
    BY <1>3 DEF Range
  <1> QED  BY <1>2, <1>4, <1>5

LEMMA PatternAdviceHolds ==
  ASSUME StoreTyped, NewestKept, NEW p \in Pattern, NEW a \in PatternAdvice(p)
  PROVE  /\ a \in Advice
         /\ a.about \in Stored(episodes) /\ a.evidence > 0
         /\ a.confidence \in 55 .. 95
         /\ a.families = p.families /\ a.types = p.types
  <1> DEFINE about == {i \in DOMAIN reflections : reflections[i].scope = p.first}
             on == Chosen(reflections, about)
  <1>1. p.first \in Stored(episodes) /\ on # <<>> /\ a \in Feedback(Lookup(p.first), p, on[1])
    BY DEF PatternAdvice
  <1>2. EpisodeSound(Lookup(p.first)) /\ Lookup(p.first).id = p.first
    BY <1>1, LookupHolds
  <1>3. on[1] \in ReflectionRecord
    <2>1. reflections \in Seq(ReflectionRecord) /\ about \in SUBSET DOMAIN reflections
      BY DEF StoreTyped
    <2> HIDE DEF about
    <2>2. on \in Seq(ReflectionRecord)
      BY <2>1, ChosenHolds
    <2> HIDE DEF on
    <2>3. Len(on) \in Nat \ {0}
      BY <1>1, <2>2, EmptySeq
    <2> QED  BY <2>2, <2>3
  <1>4. p.families \in SUBSET Families /\ p.types \in SUBSET Types
    BY DEF Pattern, Families, Types
  <1> DEFINE e == Lookup(p.first)
             r == on[1]
  <1>5. EpisodeSound(e) /\ r \in ReflectionRecord /\ a \in Feedback(e, p, r)
    BY <1>1, <1>2, <1>3
  <1> HIDE DEF on, e, r
  <1>6. /\ a \in Advice /\ a.about = e.id /\ a.evidence > 0 /\ a.confidence \in 55 .. 95
        /\ a.families = p.families /\ a.types = p.types
    BY <1>4, <1>5, FeedbackHolds
  <1> QED  BY <1>1, <1>2, <1>6 DEF e

\* A reflection that is hit speaks for the family of the task it was hit by, since an
\* id is of one task.
LEMMA ReflectionAdviceHolds ==
  ASSUME StoreTyped, NewestKept, NEW t \in Task,
         NEW k \in DOMAIN reflections,
         \E e \in Range(episodes) : e.id = reflections[k].scope /\ FamilyOf(e.task) = FamilyOf(t),
         NEW a \in ReflectionAdvice(reflections[k])
  PROVE  /\ a \in Advice
         /\ a.about \in Stored(episodes) /\ a.evidence > 0
         /\ a.confidence \in 55 .. 95
         /\ FamilyOf(t) \in a.families
  <1> DEFINE hit == reflections[k]
             same == {i \in DOMAIN reflections : /\ reflections[i].task = hit.task
                                                 /\ reflections[i].scope = hit.scope}
             r == reflections[Max(same)]
             e == Lookup(r.scope)
  <1>1. /\ DOMAIN reflections = 1 .. Len(reflections) /\ Len(reflections) \in Nat
        /\ \A j \in DOMAIN reflections : reflections[j] \in ReflectionRecord
        /\ \A i \in DOMAIN episodes : EpisodeSound(episodes[i])
    BY StoreFacts
  <1>2. Max(same) \in same
    <2>1. same \in SUBSET DOMAIN reflections /\ k \in same /\ \A i \in same : i \in Int
      BY <1>1
    <2>2. IsFiniteSet(DOMAIN reflections)
      BY <1>1, UpTo
    <2> HIDE DEF same
    <2>3. IsFiniteSet(same) /\ same # {}
      BY <2>1, <2>2, FS_Subset
    <2> QED  BY <2>1, <2>3, LastFound
  <1>3. r \in ReflectionRecord /\ r.scope = hit.scope
    BY <1>1, <1>2
  <1>4. r.scope \in Stored(episodes) /\ a \in Feedback(e, OwnScope(e), r)
    BY DEF ReflectionAdvice
  <1> HIDE DEF same, r, hit
  <1>5. EpisodeSound(e) /\ e.id = r.scope
    BY <1>4, LookupHolds
  <1>6. FamilyOf(e.task) = FamilyOf(t)
    <2>1. PICK x \in Range(episodes) : x.id = reflections[k].scope /\ FamilyOf(x.task) = FamilyOf(t)
      OBVIOUS
    <2>2. EpisodeSound(x)
      BY <1>1, <2>1 DEF Range
    <2>3. x.id = e.id
      BY <1>3, <1>5, <2>1 DEF hit
    <2>4. x.task = e.task
      BY <1>5, <2>2, <2>3 DEF EpisodeSound
    <2> QED  BY <2>1, <2>4
  <1> HIDE DEF e
  <1>7. /\ OwnScope(e).families = {FamilyOf(e.task)} /\ OwnScope(e).types = {TypeOf(e.task)}
        /\ OwnScope(e).families \in SUBSET Families /\ OwnScope(e).types \in SUBSET Types
    BY <1>5 DEF OwnScope, Families, Types, EpisodeSound, EpisodeOK
  <1>8. /\ a \in Advice /\ a.about = e.id /\ a.evidence > 0
        /\ a.confidence \in 55 .. 95
        /\ a.families = OwnScope(e).families
    BY <1>3, <1>4, <1>5, <1>7, FeedbackHolds
  <1> QED  BY <1>4, <1>5, <1>6, <1>7, <1>8

\* The episodes that come back, best first; one of the task's own family and type is a
\* hit, and then the best of the hits is at least as good.  Without anything in common
\* with the task the best is no better than 3750.
LEMMA EpisodesRetrieved ==
  ASSUME StoreTyped, NewestKept, NEW t \in Task
  PROVE  /\ RetrievalResult(t).precision \in Nat /\ RetrievalResult(t).precision <= 10000
         /\ (\E i \in DOMAIN episodes : /\ FamilyOf(episodes[i].task) = FamilyOf(t)
                                        /\ TypeOf(episodes[i].task) = TypeOf(t))
               => RetrievalResult(t).precision > 5000
         /\ RetrievalResult(t).episodes \in Seq(Id)
         /\ RetrievalResult(t).episodes = <<>> => RetrievalResult(t).precision = 0
         /\ RetrievalResult(t).precision > 3750 =>
               \E i \in DOMAIN episodes : \/ FamilyOf(episodes[i].task) = FamilyOf(t)
                                          \/ TypeOf(episodes[i].task) = TypeOf(t)
  <1> DEFINE hits == {i \in DOMAIN episodes : EpisodeScore(t, episodes[i]) >= MinimumScore}
             eh == EpisodeHits(t)
             score == [i \in DOMAIN eh |-> EpisodeScore(t, eh[i])]
             es == Best(eh, score, TopK)
  <1>1. /\ \A i \in DOMAIN episodes : EpisodeSound(episodes[i])
        /\ episodes \in Seq(Episode)
    BY StoreFacts DEF StoreTyped
  <1>2. /\ eh \in Seq(Episode)
        /\ \A i \in hits : \E n \in DOMAIN eh : eh[n] = episodes[i]
        /\ \A n \in DOMAIN eh : \E i \in DOMAIN episodes : eh[n] = episodes[i]
    <2>1. hits \in SUBSET DOMAIN episodes /\ eh = Chosen(episodes, hits)
      BY DEF EpisodeHits
    <2> HIDE DEF hits, eh
    <2> QED  BY <1>1, <2>1, ChosenHolds
  <1> HIDE DEF eh
  <1>3. \A n \in DOMAIN eh : EpisodeSound(eh[n])
    <2>1. \A n \in DOMAIN eh : eh[n] \in Episode
      BY <1>2
    <2> QED  BY <2>1, EpisodesSound
  <1>4. score \in [DOMAIN eh -> Int]
    BY <1>3, EpisodeScoreHolds
  <1>5. \A n \in DOMAIN eh : score[n] = EpisodeScore(t, eh[n])
    OBVIOUS
  <1> HIDE DEF score
  <1>6. TopK \in Nat \ {0}
    BY MemoryAssumption
  <1>7. /\ es \in Seq(Episode)
        /\ \A n \in DOMAIN es :
              \E i \in DOMAIN eh : /\ es[n] = eh[i]
                                   /\ n = 1 => \A j \in DOMAIN eh : score[j] <= score[i]
        /\ eh # <<>> => es # <<>>
    BY <1>2, <1>4, <1>6, BestHolds
  <1>8. /\ RetrievalResult(t).precision = IF es = <<>> THEN 0 ELSE EpisodeScore(t, es[1])
        /\ RetrievalResult(t).episodes = [i \in DOMAIN es |-> es[i].id]
    BY DEF RetrievalResult, eh, score
  <1> HIDE DEF es
  <1>9. ASSUME es # <<>>
        PROVE  /\ RetrievalResult(t).precision \in Nat /\ RetrievalResult(t).precision <= 10000
               /\ \A j \in DOMAIN eh : EpisodeScore(t, eh[j]) <= RetrievalResult(t).precision
               /\ \E j \in DOMAIN eh : RetrievalResult(t).precision = EpisodeScore(t, eh[j])
    <2>1. 1 \in DOMAIN es
      <3>1. Len(es) \in Nat \ {0}
        BY <1>7, <1>9, EmptySeq
      <3> QED  BY <1>7, <3>1
    <2>2. PICK i \in DOMAIN eh : es[1] = eh[i] /\ \A j \in DOMAIN eh : score[j] <= score[i]
      BY <1>7, <2>1
    <2>3. RetrievalResult(t).precision = EpisodeScore(t, eh[i])
      BY <1>8, <1>9, <2>2
    <2> QED  BY <1>3, <1>5, <2>2, <2>3, EpisodeScoreHolds
  <1>10. RetrievalResult(t).precision \in Nat /\ RetrievalResult(t).precision <= 10000
    BY <1>8, <1>9
  <1>11. ASSUME NEW i \in DOMAIN episodes,
                FamilyOf(episodes[i].task) = FamilyOf(t), TypeOf(episodes[i].task) = TypeOf(t)
         PROVE  RetrievalResult(t).precision > 5000
    <2>1. EpisodeScore(t, episodes[i]) > 5000 /\ EpisodeScore(t, episodes[i]) \in Int
      BY <1>1, <1>11, EpisodeScoreHolds
    <2>2. i \in hits
      BY <2>1 DEF MinimumScore
    <2>3. PICK n \in DOMAIN eh : eh[n] = episodes[i]
      BY <1>2, <2>2
    <2>4. eh # <<>>
      <3>1. Len(eh) \in Nat /\ DOMAIN eh = 1 .. Len(eh)
        BY <1>2
      <3>2. Len(eh) # 0
        BY <2>3, <3>1
      <3> QED  BY <3>2, EmptySeq
    <2>5. /\ EpisodeScore(t, eh[n]) <= RetrievalResult(t).precision
          /\ RetrievalResult(t).precision \in Nat /\ RetrievalResult(t).precision <= 10000
      BY <1>7, <1>9, <2>3, <2>4
    <2> QED  BY <2>1, <2>3, <2>5
  <1>12. /\ RetrievalResult(t).episodes \in Seq(Id)
         /\ RetrievalResult(t).episodes = <<>> => es = <<>>
    <2>1. \A n \in DOMAIN es : es[n].id \in Id
      <3>1. \A n \in DOMAIN es : es[n] \in Episode
        BY <1>7
      <3> QED  BY <3>1, EpisodesSound DEF EpisodeSound
    <2>2. Len(es) \in Nat /\ DOMAIN es = 1 .. Len(es)
      BY <1>7
    <2>3. [n \in 1 .. Len(es) |-> es[n].id] \in Seq(Id)
      BY <2>1, <2>2
    <2>4. es # <<>> => Len(es) # 0
      BY <1>7, EmptySeq
    <2>5. [n \in 1 .. Len(es) |-> es[n].id] = <<>> => Len(es) = 0
      BY <2>2, <2>3
    <2> QED  BY <1>8, <2>2, <2>3, <2>4, <2>5
  <1>13. ASSUME RetrievalResult(t).precision > 3750
         PROVE  \E i \in DOMAIN episodes : \/ FamilyOf(episodes[i].task) = FamilyOf(t)
                                           \/ TypeOf(episodes[i].task) = TypeOf(t)
    <2>1. es # <<>>
      BY <1>8, <1>13
    <2>2. PICK j \in DOMAIN eh : RetrievalResult(t).precision = EpisodeScore(t, eh[j])
      BY <1>9, <2>1
    <2>3. PICK i \in DOMAIN episodes : eh[j] = episodes[i]
      BY <1>2
    <2>4. EpisodeScore(t, episodes[i]) \in Nat /\ ~(EpisodeScore(t, episodes[i]) <= 3750)
      BY <1>1, <1>13, <2>2, <2>3, EpisodeScoreHolds
    <2> QED  BY <1>1, <2>4, EpisodeScoreHolds
  <1> QED  BY <1>8, <1>10, <1>11, <1>12, <1>13

\* The patterns that come back are stored ones of the task's family or type that
\* governance has not forgotten.
LEMMA PatternsRetrieved ==
  ASSUME StoreTyped, NewestKept, PatternsTraced, NEW t \in Task,
         NEW p \in Range(RetrievalResult(t).patterns)
  PROVE  /\ p \in Range(patterns) /\ p \in Pattern
         /\ p.governance # "forgotten"
         /\ FamilyOf(t) \in p.families \/ TypeOf(t) \in p.types
  <1> DEFINE hits == {i \in DOMAIN patterns :
                        /\ PatternScore(t, patterns[i]) >= MinimumScore
                        /\ patterns[i].governance \in {"active", "candidate"}}
             ph == PatternHits(t)
             score == [i \in DOMAIN ph |-> PatternScore(t, ph[i])]
             ps == Best(ph, score, TopK)
  <1>1. /\ patterns \in Seq(Pattern)
        /\ \A q \in Range(patterns) : q \in Pattern /\ q.confidence <= 95
    BY PatternFacts
  <1>2. /\ ph \in Seq(Pattern)
        /\ \A n \in DOMAIN ph : \E i \in hits : ph[n] = patterns[i]
    <2>1. hits \in SUBSET DOMAIN patterns /\ ph = Chosen(patterns, hits)
      BY DEF PatternHits
    <2> HIDE DEF hits, ph
    <2> QED  BY <1>1, <2>1, ChosenHolds
  <1> HIDE DEF ph
  <1>3. score \in [DOMAIN ph -> Int]
    <2>1. \A n \in DOMAIN ph : ph[n] \in Pattern
      BY <1>2
    <2> QED  BY <2>1, PatternScoreHolds
  <1>4. RetrievalResult(t).patterns = ps
    BY DEF RetrievalResult, ph
  <1> HIDE DEF score
  <1>5. TopK \in Nat \ {0}
    BY MemoryAssumption
  <1>6. \A n \in DOMAIN ps : \E i \in DOMAIN ph : ps[n] = ph[i]
    BY <1>2, <1>3, <1>5, BestHolds
  <1> HIDE DEF ps
  <1>7. PICK n \in DOMAIN ps : p = ps[n]
    BY <1>4 DEF Range
  <1>8. PICK i \in hits : p = patterns[i]
    BY <1>2, <1>6, <1>7
  <1>9. p \in Range(patterns) /\ p.governance # "forgotten" /\ PatternScore(t, p) >= MinimumScore
    BY <1>8 DEF Range
  <1> QED  BY <1>1, <1>9, PatternScoreHolds

LEMMA RetrievalHolds ==
  ASSUME StoreTyped, NewestKept, PatternsTraced, NEW t \in Task
  PROVE  LET a == RetrievalResult(t)
         IN  /\ RetrievalOK(a) /\ a.call = "retrieve" /\ a.task = t
             /\ \A x \in a.advice :
                   /\ x.about \in Stored(episodes) /\ x.evidence > 0
                   /\ x.confidence \in 55 .. 95
                   /\ FamilyOf(t) \in x.families \/ TypeOf(t) \in x.types
             /\ \A p \in Range(a.patterns) :
                   p \in Range(patterns) /\ p.governance # "forgotten"
  <1> DEFINE a == RetrievalResult(t)
             rh == ReflectionHits(t)
             score == [i \in DOMAIN rh |-> rh[i].confidence]
             rs == Best(rh, score, TopK)
             hits == {i \in DOMAIN reflections :
                        \E e \in Range(episodes) : /\ e.id = reflections[i].scope
                                                   /\ FamilyOf(e.task) = FamilyOf(t)}
  <1> DEFINE fromPatterns == UNION {PatternAdvice(p) : p \in Range(a.patterns)}
             fromReflections == UNION {ReflectionAdvice(r) : r \in Range(rs)}
  <1>1. /\ a.call = "retrieve" /\ a.task = t
        /\ a.advice = fromPatterns \cup fromReflections
    <2> DEFINE eh == EpisodeHits(t)
               ph == PatternHits(t)
               es == Best(eh, [i \in DOMAIN eh |-> EpisodeScore(t, eh[i])], TopK)
               ps == Best(ph, [i \in DOMAIN ph |-> PatternScore(t, ph[i])], TopK)
               ids == [i \in DOMAIN es |-> es[i].id]
               precision == IF es = <<>> THEN 0 ELSE EpisodeScore(t, es[1])
               advice == (UNION {PatternAdvice(p) : p \in Range(ps)}) \cup fromReflections
    <2>1. a = [call |-> "retrieve", task |-> t, patterns |-> ps, episodes |-> ids,
               precision |-> precision, advice |-> advice]
      BY Zenon DEF RetrievalResult
    <2>2. a.call = "retrieve" /\ a.task = t /\ a.patterns = ps /\ a.advice = advice
      <3> HIDE DEF a, ps, ids, precision, advice
      <3> QED  BY <2>1
    <2> QED  BY <2>2, Zenon
  <1>2. /\ rh \in Seq(ReflectionRecord)
        /\ \A n \in DOMAIN rh : \E k \in hits : rh[n] = reflections[k]
    <2>1. hits \in SUBSET DOMAIN reflections /\ rh = Chosen(reflections, hits)
      BY DEF ReflectionHits
    <2>2. reflections \in Seq(ReflectionRecord)
      BY DEF StoreTyped
    <2> HIDE DEF hits, rh
    <2> QED  BY <2>1, <2>2, ChosenHolds
  <1> HIDE DEF rh, a
  <1>3. score \in [DOMAIN rh -> Int]
    <2>1. \A n \in DOMAIN rh : rh[n] \in ReflectionRecord
      BY <1>2
    <2>2. \A n \in DOMAIN rh : rh[n].confidence \in 55 .. 95
      BY <2>1 DEF ReflectionRecord
    <2> QED  BY <2>2
  <1> HIDE DEF score
  <1>4. TopK \in Nat \ {0}
    BY MemoryAssumption
  <1>5. \A n \in DOMAIN rs : \E i \in DOMAIN rh : rs[n] = rh[i]
    BY <1>2, <1>3, <1>4, BestHolds
  <1> HIDE DEF rs
  <1>6. \A r \in Range(rs) : \E k \in hits : r = reflections[k]
    BY <1>2, <1>5 DEF Range
  <1>7. ASSUME NEW p \in Range(a.patterns)
        PROVE  /\ p \in Range(patterns) /\ p \in Pattern /\ p.governance # "forgotten"
               /\ FamilyOf(t) \in p.families \/ TypeOf(t) \in p.types
    BY PatternsRetrieved DEF a
  <1>8. ASSUME NEW x \in a.advice
        PROVE  /\ x \in Advice
               /\ x.about \in Stored(episodes) /\ x.evidence > 0
               /\ x.confidence \in 55 .. 95
               /\ FamilyOf(t) \in x.families \/ TypeOf(t) \in x.types
    <2>1. CASE \E p \in Range(a.patterns) : x \in PatternAdvice(p)
      <3>1. PICK p \in Range(a.patterns) : x \in PatternAdvice(p)
        BY <2>1
      <3> QED  BY <1>7, <3>1, PatternAdviceHolds
    <2>2. CASE \E r \in Range(rs) : x \in ReflectionAdvice(r)
      <3>1. PICK r \in Range(rs) : x \in ReflectionAdvice(r)
        BY <2>2
      <3>2. PICK k \in hits : r = reflections[k]
        BY <1>6, <3>1
      <3>3. /\ k \in DOMAIN reflections
            /\ \E e \in Range(episodes) : /\ e.id = reflections[k].scope
                                          /\ FamilyOf(e.task) = FamilyOf(t)
        BY <3>2
      <3> HIDE DEF hits
      <3> QED  BY <3>1, <3>2, <3>3, ReflectionAdviceHolds
    <2>3. \/ \E p \in Range(a.patterns) : x \in PatternAdvice(p)
          \/ \E r \in Range(rs) : x \in ReflectionAdvice(r)
      <3>1. x \in fromPatterns \/ x \in fromReflections
        <4> HIDE DEF fromPatterns, fromReflections
        <4> QED  BY <1>1
      <3> QED  BY <3>1, Zenon
    <2> QED  BY <2>1, <2>2, <2>3
  <1>9. RetrievalOK(a)
    <2>1. a.precision \in Nat /\ a.precision <= 10000
      BY EpisodesRetrieved DEF a
    <2> QED  BY <1>1, <1>7, <1>8, <2>1 DEF RetrievalOK
  <1> QED  BY <1>1, <1>7, <1>8, <1>9 DEF a

LEMMA RetrieveStep ==
  ASSUME MemoryInvariant, NEW t \in Task, RetrieveRelevantMemory(t)
  PROVE  MemoryInvariant'
  <1> DEFINE a == RetrievalResult(t)
  <1>1. /\ answer' = a
        /\ episodes' = episodes /\ patterns' = patterns /\ reflections' = reflections
        /\ valid' = valid
    BY DEF RetrieveRelevantMemory
  <1>2. /\ StoreTyped /\ NewestKept /\ PatternsTraced /\ OneGone /\ ValidExactly
    BY DEF MemoryInvariant
  <1>3. /\ RetrievalOK(a) /\ a.task = t
        /\ \A x \in a.advice :
              /\ x.about \in Stored(episodes) /\ x.evidence > 0
              /\ FamilyOf(t) \in x.families \/ TypeOf(t) \in x.types
        /\ \A p \in Range(a.patterns) : p \in Range(patterns) /\ p.governance # "forgotten"
    BY <1>2, RetrievalHolds
  <1>4. (\E i \in DOMAIN episodes : /\ FamilyOf(episodes[i].task) = FamilyOf(t)
                                    /\ TypeOf(episodes[i].task) = TypeOf(t))
            => a.precision > 5000
    BY <1>2, EpisodesRetrieved
  <1> HIDE DEF a
  <1>5. StoreTyped' /\ NewestKept'
    BY <1>1, <1>2 DEF StoreTyped, NewestKept, Episode, ReflectionRecord
  <1>6. PatternsTraced'
    <2>1. patterns' \in Seq(AgedPatterns(Scopes', Len(episodes'))) /\ Len(patterns') <= MaxPatterns
      <3>1. Scopes' = Scopes
        BY <1>1 DEF Scopes
      <3> QED  BY <1>1, <1>2, <3>1 DEF PatternsTraced
    <2> QED  BY <2>1 DEF PatternsTraced, AgedPatterns, Aged, Fresh, Pattern
  <1>7. OneGone' /\ ValidExactly'
    BY <1>1, <1>2 DEF OneGone, ValidExactly, BundleValid, Stored, Range
  <1>8. AnswerTyped'
    BY <1>1, <1>3 DEF AnswerTyped, RetrievalOK, Advice, Pattern, Range
  <1>9. AdviceGrounded'
    BY <1>1, <1>3 DEF AdviceGrounded, Stored, Range
  <1>10. RecallsOwnKind'
    BY <1>1, <1>3, <1>4 DEF RecallsOwnKind
  <1> QED  BY <1>5, <1>6, <1>7, <1>8, <1>9, <1>10 DEF MemoryInvariant, RetrievalSound

LEMMA StutterStep ==
  ASSUME MemoryInvariant, UNCHANGED vars
  PROVE  MemoryInvariant'
  <1>1. /\ episodes' = episodes /\ patterns' = patterns /\ reflections' = reflections
        /\ valid' = valid /\ answer' = answer
    BY DEF vars
  <1>2. StoreTyped' /\ NewestKept'
    BY <1>1 DEF MemoryInvariant, StoreTyped, NewestKept, Episode, ReflectionRecord
  <1>3. PatternsTraced'
    <2>1. patterns' \in Seq(AgedPatterns(Scopes', Len(episodes'))) /\ Len(patterns') <= MaxPatterns
      <3>1. Scopes' = Scopes
        BY <1>1 DEF Scopes
      <3> QED  BY <1>1, <3>1 DEF MemoryInvariant, PatternsTraced
    <2> QED  BY <2>1 DEF PatternsTraced, AgedPatterns, Aged, Fresh, Pattern
  <1>4. OneGone' /\ ValidExactly'
    BY <1>1 DEF MemoryInvariant, OneGone, ValidExactly, BundleValid, Stored, Range
  <1>5. AnswerTyped' /\ RetrievalSound'
    BY <1>1 DEF MemoryInvariant, AnswerTyped, RetrievalOK, Advice, Pattern, Range,
                RetrievalSound, AdviceGrounded, RecallsOwnKind, Stored
  <1> QED  BY <1>2, <1>3, <1>4, <1>5 DEF MemoryInvariant

(***************************************************************************)
(* The theorems                                                            *)
(***************************************************************************)

\* The inductive invariant: what is stored is what was consolidated, reflected on and
\* mined, whatever is ingested and asked, in any order and however often.
THEOREM MemoryCorrect == Spec => []MemoryInvariant
  <1>1. ASSUME MemoryInvariant, [Next]_vars PROVE MemoryInvariant'
    <2>1. CASE \E i \in Ingestions : IngestEpisode(i[1], i[2])
      BY <1>1, <2>1, IngestStep
    <2>2. CASE \E t \in Task : RetrieveRelevantMemory(t)
      BY <1>1, <2>2, RetrieveStep
    <2>3. CASE UNCHANGED vars
      BY <1>1, <2>3, StutterStep
    <2> QED  BY <1>1, <2>1, <2>2, <2>3 DEF Next
  <1> QED  BY InitHolds, <1>1, PTL DEF Spec

LEMMA InvariantTyped ==
  ASSUME MemoryInvariant
  PROVE  TypeOK
  <1>1. /\ StoreTyped /\ NewestKept /\ PatternsTraced /\ ValidExactly /\ AnswerTyped
    BY DEF MemoryInvariant
  <1>2. /\ \A i \in DOMAIN episodes : EpisodeOK(episodes[i])
        /\ Len(episodes) <= MaxEpisodes
    BY <1>1, StoreFacts DEF EpisodeSound
  <1>3. (\A p \in Range(patterns) : p \in Pattern) /\ Len(patterns) <= MaxPatterns
    BY <1>1, PatternFacts DEF PatternsTraced
  <1>4. ASSUME NEW i \in DOMAIN reflections PROVE ReflectionOK(reflections[i])
    <2>1. reflections[i] \in ReflectionRecord
      BY <1>1, StoreFacts
    <2> QED  BY <2>1 DEF ReflectionRecord, ReflectionOK, Percent
  <1>5. valid \in BOOLEAN
    BY <1>1, Zenon DEF ValidExactly, BundleValid
  <1> QED  BY <1>1, <1>2, <1>3, <1>4, <1>5 DEF TypeOK, AnswerTyped

\* The records of the memory are well formed, and neither episodes nor patterns outgrow
\* the limits of ForgettingPolicy, however much is ingested.
THEOREM MemoryTypeCorrect == Spec => []TypeOK
  <1>1. MemoryInvariant => TypeOK
    BY InvariantTyped
  <1> QED  BY <1>1, MemoryCorrect, PTL

\* A pattern is aged by what is stored now.
Dated ==
    \A p \in Range(patterns) :
        LET gap == IF Len(episodes) > p.count THEN Len(episodes) - p.count ELSE 0
        IN  /\ p.count \in Nat
            /\ p.freshness = IF gap >= ExpireAfter THEN "expired"
                             ELSE IF gap >= StaleAfter THEN "stale" ELSE "fresh"

\* Every pattern that the store holds was made fresh by the last mining on episodes
\* that were reflected on, and aged by what is stored.
LEMMA TracedHolds ==
  ASSUME StoreTyped, NewestKept, PatternsTraced
  PROVE  Dated /\ \A p \in Range(patterns) : p.refs # {} /\ p.refs \subseteq Scopes
  <1> SUFFICES ASSUME NEW p \in Range(patterns)
               PROVE  LET gap == IF Len(episodes) > p.count THEN Len(episodes) - p.count ELSE 0
                      IN  /\ p.count \in Nat
                          /\ p.freshness = IF gap >= ExpireAfter THEN "expired"
                                           ELSE IF gap >= StaleAfter THEN "stale" ELSE "fresh"
                          /\ p.refs # {} /\ p.refs \subseteq Scopes
    BY DEF Dated
  <1>1. p \in AgedPatterns(Scopes, Len(episodes))
    BY DEF PatternsTraced, Range
  <1>2. Len(episodes) \in Nat
    BY StoreFacts
  <1>3. PICK f \in Fresh(Scopes) : p = Aged(f, Len(episodes))
    BY <1>1 DEF AgedPatterns
  <1>4. f.refs # {} /\ f.refs \subseteq Scopes /\ f \in Pattern
    BY DEF Fresh
  <1>5. f.count \in Nat
    BY <1>4 DEF Pattern
  <1>6. p.refs = f.refs /\ p.count = f.count
    BY <1>2, <1>3, AgedHolds
  <1>7. LET gap == IF Len(episodes) > f.count THEN Len(episodes) - f.count ELSE 0
        IN  p.freshness = IF gap >= ExpireAfter THEN "expired"
                          ELSE IF gap >= StaleAfter THEN "stale" ELSE "fresh"
    BY <1>2, <1>3, AgedHolds
  <1> QED  BY <1>4, <1>5, <1>6, <1>7

\* Forgetting and mining keep in step: the newest episodes are stored and no others, a
\* bundle is invalid exactly while a reflection is on an episode that is gone, and no
\* pattern names more than one episode that is.
THEOREM ForgettingCorrect == Spec => []ForgettingSound
  <1>1. ASSUME MemoryInvariant PROVE ForgettingSound
    <2>1. /\ StoreTyped /\ NewestKept /\ PatternsTraced /\ OneGone /\ ValidExactly
      BY <1>1 DEF MemoryInvariant
    <2>2. ValidIffRemembered
      <3>1. \A i \in DOMAIN episodes : episodes[i].evidence > 0
        BY <2>1, StoreFacts DEF EpisodeSound
      <3>2. ASSUME NEW j \in DOMAIN reflections PROVE reflections[j].evidence > 0
        <4>1. reflections[j] \in ReflectionRecord
          BY <2>1, StoreFacts
        <4>2. reflections[j].evidence \in Nat \ {0}
          BY <4>1 DEF ReflectionRecord
        <4> QED  BY <4>2
      <3>3. \A p \in Range(patterns) : p.refs # {} /\ p.refs \subseteq Scopes
        BY <2>1, TracedHolds
      <3>4. (\A j \in DOMAIN reflections : reflections[j].scope \in Stored(episodes))
                => Scopes \subseteq Stored(episodes)
        BY DEF Scopes
      <3>5. BundleValid(episodes, patterns, reflections)
                <=> \A j \in DOMAIN reflections : reflections[j].scope \in Stored(episodes)
        BY <3>1, <3>2, <3>3, <3>4 DEF BundleValid
      <3> QED  BY <2>1, <3>5, Zenon DEF ValidExactly, ValidIffRemembered
    <2>3. PatternsDangleByOne
      <3>1. PICK gone : \A p \in Range(patterns) : p.refs \subseteq Stored(episodes) \cup {gone}
        BY <2>1 DEF OneGone
      <3>2. ASSUME NEW p \in Range(patterns)
            PROVE  Cardinality(p.refs \ Stored(episodes)) <= 1
        <4>1. p.refs \ Stored(episodes) \in SUBSET {gone}
          BY <3>1
        <4>2. IsFiniteSet({gone}) /\ Cardinality({gone}) = 1
          BY FS_Singleton
        <4> QED  BY <4>1, <4>2, FS_Subset
      <3>3. \A p \in Range(patterns) : p.refs \subseteq Scopes
        BY <2>1, TracedHolds
      <3> QED  BY <3>2, <3>3 DEF PatternsDangleByOne, Scopes
    <2> QED  BY <2>1, <2>2, <2>3 DEF ForgettingSound
  <1> QED  BY <1>1, MemoryCorrect, PTL

\* A task is advised from what is stored, on evidence, in a scope that covers it, never
\* on a forgotten pattern, and what is of its own kind is recalled.
THEOREM RetrievalCorrect == Spec => []RetrievalSound
  BY MemoryCorrect, PTL DEF MemoryInvariant

\* The fewer the mentions and the more the episodes, the less fresh is a pattern.
LEMMA AgeHolds ==
  ASSUME NEW p, NEW q, NEW total \in Nat, NEW later \in Nat, total <= later,
         p.count \in Nat, q.count \in Nat, q.count <= p.count,
         LET gap == IF total > p.count THEN total - p.count ELSE 0
         IN  p.freshness = IF gap >= ExpireAfter THEN "expired"
                           ELSE IF gap >= StaleAfter THEN "stale" ELSE "fresh",
         LET gap == IF later > q.count THEN later - q.count ELSE 0
         IN  q.freshness = IF gap >= ExpireAfter THEN "expired"
                           ELSE IF gap >= StaleAfter THEN "stale" ELSE "fresh"
  PROVE  Age(q) >= Age(p)
  <1> DEFINE before == IF total > p.count THEN total - p.count ELSE 0
             after == IF later > q.count THEN later - q.count ELSE 0
  <1>1. before \in Int /\ after \in Int /\ before <= after
    BY SMT
  <1>2. ExpireAfter \in Int /\ StaleAfter \in Int
    BY MemoryAssumption
  <1>3. /\ p.freshness = IF before >= ExpireAfter THEN "expired"
                         ELSE IF before >= StaleAfter THEN "stale" ELSE "fresh"
        /\ q.freshness = IF after >= ExpireAfter THEN "expired"
                         ELSE IF after >= StaleAfter THEN "stale" ELSE "fresh"
    OBVIOUS
  <1> HIDE DEF before, after
  <1>4. CASE before >= ExpireAfter
    <2>1. q.freshness = "expired" /\ p.freshness = "expired"
      BY <1>1, <1>2, <1>3, <1>4
    <2> QED  BY <2>1 DEF Age
  <1>5. CASE before < ExpireAfter /\ before >= StaleAfter
    <2>1. p.freshness = "stale" /\ q.freshness \in {"stale", "expired"}
      BY <1>1, <1>2, <1>3, <1>5
    <2> QED  BY <2>1 DEF Age
  <1>6. CASE before < ExpireAfter /\ before < StaleAfter
    <2>1. p.freshness = "fresh" /\ q.freshness \in {"fresh", "stale", "expired"}
      BY <1>1, <1>2, <1>3, <1>6
    <2> QED  BY <2>1 DEF Age
  <1> QED  BY <1>1, <1>2, <1>4, <1>5, <1>6

\* The store does not get smaller.
LEMMA EpisodesGrow ==
  ASSUME MemoryInvariant, [Next]_vars
  PROVE  /\ Len(episodes) \in Nat /\ Len(episodes') \in Nat
         /\ Len(episodes) <= Len(episodes')
  <1>1. /\ StoreTyped /\ NewestKept
        /\ Len(episodes) \in Nat /\ Len(episodes) <= MaxEpisodes
    BY StoreFacts DEF MemoryInvariant
  <1>2. MaxEpisodes \in Nat \ {0}
    BY MemoryAssumption
  <1>3. ASSUME NEW i \in Ingestions, IngestEpisode(i[1], i[2])
        PROVE  /\ Len(episodes) \in Nat /\ Len(episodes') \in Nat
         /\ Len(episodes) <= Len(episodes')
    <2> DEFINE all == Append(episodes, Consolidated(i[1], i[2]))
    <2>1. /\ all \in Seq(Episode) /\ Len(all) = Len(episodes) + 1
          /\ episodes' = Newest(MaxEpisodes, all)
      BY <1>3, IngestFacts
    <2> HIDE DEF all
    <2>2. /\ Len(all) <= MaxEpisodes => Len(episodes') = Len(all)
          /\ Len(all) > MaxEpisodes => Len(episodes') = MaxEpisodes
      BY <1>2, <2>1, NewestHolds
    <2> QED  BY <1>1, <1>2, <2>1, <2>2
  <1>4. CASE episodes' = episodes
    BY <1>1, <1>4
  <1> QED  BY <1>3, <1>4 DEF Next, vars, RetrieveRelevantMemory

\* A pattern does not get any fresher without new support: mining makes it fresh again
\* at every ingestion, but ages it by all that is stored.
THEOREM FreshnessCorrect == Spec => NoFreshnessWithoutSupport
  <1>1. MemoryInvariant => Dated
    BY TracedHolds DEF MemoryInvariant
  <1>2. ASSUME MemoryInvariant, Dated, Dated', [Next]_vars,
               NEW p \in Range(patterns), NEW q \in Range(patterns'), q.count <= p.count
        PROVE  Age(q) >= Age(p)
    <2>1. Len(episodes) \in Nat /\ Len(episodes') \in Nat /\ Len(episodes) <= Len(episodes')
      BY <1>2, EpisodesGrow
    <2>2. /\ p.count \in Nat
          /\ LET total == Len(episodes)
                 gap == IF total > p.count THEN total - p.count ELSE 0
             IN  p.freshness = IF gap >= ExpireAfter THEN "expired"
                               ELSE IF gap >= StaleAfter THEN "stale" ELSE "fresh"
      BY <1>2 DEF Dated
    <2>3. /\ q.count \in Nat
          /\ LET total == Len(episodes')
                 gap == IF total > q.count THEN total - q.count ELSE 0
             IN  q.freshness = IF gap >= ExpireAfter THEN "expired"
                               ELSE IF gap >= StaleAfter THEN "stale" ELSE "fresh"
      BY <1>2 DEF Dated, Range
    <2> QED  BY <1>2, <2>1, <2>2, <2>3, AgeHolds
  <1>3. ASSUME MemoryInvariant, Dated, Dated', [Next]_vars
        PROVE  [\A p \in Range(patterns), q \in Range(patterns') :
                   p.type = q.type /\ p.trigger = q.trigger /\ q.count <= p.count
                       => Age(q) >= Age(p)]_vars
    BY <1>2, <1>3
  <1> QED  BY MemoryCorrect, <1>1, <1>3, PTL DEF Spec, NoFreshnessWithoutSupport

(***************************************************************************)
(* The memory studies: what is read off a response                         *)
(***************************************************************************)

LEMMA StepsHold ==
  /\ MaxSteps \in Nat \ {0} /\ FewerSteps \in Nat \ {0} /\ FewerSteps <= MaxSteps
  BY StudyAssumption DEF FewerSteps

Execution(n) == [step : 1 .. n, feasibility : STRING, class : STRING]

\* What is selected of a response are simulations of it that pass the test.
LEMMA SelectedHold ==
  ASSUME NEW n \in Nat, NEW r, r.executions \in Seq(Execution(n))
  PROVE  /\ FeasibleOnes(r) \in Seq(Execution(n)) /\ FailedOnes(r) \in Seq(Execution(n))
         /\ \A k \in DOMAIN FeasibleOnes(r) : \E i \in DOMAIN r.executions :
               FeasibleOnes(r)[k] = r.executions[i]
         /\ \A k \in DOMAIN FailedOnes(r) : \E i \in DOMAIN r.executions :
               FailedOnes(r)[k] = r.executions[i] /\ Failed(r.executions[i])
  <1> DEFINE feasible == {i \in DOMAIN r.executions : IsFeasible(r.executions[i])}
             failed == {i \in DOMAIN r.executions : Failed(r.executions[i])}
  <1>1. /\ feasible \in SUBSET DOMAIN r.executions /\ failed \in SUBSET DOMAIN r.executions
        /\ FeasibleOnes(r) = Chosen(r.executions, feasible)
        /\ FailedOnes(r) = Chosen(r.executions, failed)
        /\ \A i \in failed : Failed(r.executions[i])
    BY DEF FeasibleOnes, FailedOnes
  <1> HIDE DEF feasible, failed
  <1>2. /\ Chosen(r.executions, feasible) \in Seq(Execution(n))
        /\ \A k \in DOMAIN Chosen(r.executions, feasible) : \E i \in feasible :
              Chosen(r.executions, feasible)[k] = r.executions[i]
    BY <1>1, ChosenHolds
  <1>3. /\ Chosen(r.executions, failed) \in Seq(Execution(n))
        /\ \A k \in DOMAIN Chosen(r.executions, failed) : \E i \in failed :
              Chosen(r.executions, failed)[k] = r.executions[i]
    BY <1>1, ChosenHolds
  <1> QED  BY <1>1, <1>2, <1>3

\* The first feasible simulation has a step of the loop.
LEMMA FirstFeasibleHolds ==
  ASSUME NEW n \in Nat \ {0}, NEW r, ResponseOK(r, n)
  PROVE  StepToFirstFeasible(r) \in 0 .. n
  <1> DEFINE good == FeasibleOnes(r)
  <1>1. r.executions \in Seq(Execution(n))
    BY DEF ResponseOK, Execution
  <1>2. good \in Seq(Execution(n))
    BY <1>1, SelectedHold
  <1> HIDE DEF good
  <1>3. CASE good = <<>>
    BY <1>3 DEF StepToFirstFeasible, good
  <1>4. CASE good # <<>>
    <2>1. Len(good) \in Nat \ {0}
      BY <1>2, <1>4, EmptySeq
    <2>2. good[1] \in Execution(n)
      BY <1>2, <2>1
    <2>3. good[1].step \in 1 .. n
      BY <2>2 DEF Execution
    <2>4. StepToFirstFeasible(r) = good[1].step
      BY <1>4 DEF StepToFirstFeasible, good
    <2> QED  BY <2>3, <2>4
  <1> QED  BY <1>3, <1>4

\* There is a verification to remember exactly when there was a simulation.
LEMMA PrimaryHolds ==
  ASSUME NEW n \in Nat \ {0}, NEW r, ResponseOK(r, n)
  PROVE  Primary(r) = NoVerification <=> r.executions = <<>>
  <1> DEFINE good == FeasibleOnes(r)
  <1>1. r.executions \in Seq(Execution(n)) /\ NoVerification \notin Range(r.executions)
    BY DEF ResponseOK, Execution
  <1>2. /\ good \in Seq(Execution(n))
        /\ \A k \in DOMAIN good : \E i \in DOMAIN r.executions : good[k] = r.executions[i]
    BY <1>1, SelectedHold
  <1> HIDE DEF good
  <1>3. Primary(r) = IF r.executions = <<>> THEN NoVerification
                     ELSE IF good # <<>> THEN good[1] ELSE Last(r.executions)
    BY DEF Primary, good
  <1>4. ASSUME r.executions # <<>> PROVE Primary(r) \in Range(r.executions)
    <2>1. CASE good # <<>>
      <3>1. Len(good) \in Nat \ {0}
        BY <1>2, <2>1, EmptySeq
      <3>2. \E i \in DOMAIN r.executions : good[1] = r.executions[i]
        BY <1>2, <3>1
      <3> QED  BY <1>3, <1>4, <2>1, <3>2 DEF Range
    <2>2. CASE good = <<>>
      <3>1. Len(r.executions) \in Nat \ {0}
        BY <1>1, <1>4, EmptySeq
      <3>2. Len(r.executions) \in DOMAIN r.executions
        BY <1>1, <3>1
      <3> QED  BY <1>3, <1>4, <2>2, <3>2 DEF Range, Last
    <2> QED  BY <2>1, <2>2
  <1> QED  BY <1>1, <1>3, <1>4

\* The dominant failures are classes of simulations that failed, and the first of them is
\* counted as repeated if it was seen before.
LEMMA FailuresCounted ==
  ASSUME NEW n \in Nat \ {0}, NEW r, ResponseOK(r, n), NEW before
  PROVE  /\ Len(r.executions) \in Nat
         /\ RepeatedFailures(r, before) \in 0 .. Len(r.executions)
         /\ NoneYet \notin Range(DominantFailures(r))
         /\ DominantFailures(r) # <<>> =>
               /\ DominantFailures(r)[1] \in Range(DominantFailures(r))
               /\ DominantFailures(r)[1] \in before => RepeatedFailures(r, before) > 0
  <1> DEFINE failed == FailedOnes(r)
             classes == [i \in DOMAIN failed |-> failed[i].class]
             first == {i \in DOMAIN classes : \A j \in 1 .. (i - 1) : classes[j] # classes[i]}
             dominant == DominantFailures(r)
             counted == {i \in DOMAIN r.executions :
                            /\ Failed(r.executions[i])
                            /\ \/ r.executions[i].class \in before
                               \/ \E j \in 1 .. (i - 1) :
                                     r.executions[j].class = r.executions[i].class}
  <1>1. r.executions \in Seq(Execution(n))
    BY DEF ResponseOK, Execution
  <1>2. Len(r.executions) \in Nat /\ DOMAIN r.executions = 1 .. Len(r.executions)
    BY <1>1
  <1>3. IsFiniteSet(counted) /\ RepeatedFailures(r, before) = Cardinality(counted)
    <2>1. IsFiniteSet(DOMAIN r.executions)
      BY <1>2, UpTo
    <2>2. IsFiniteSet(counted)
      BY <2>1, FS_Subset
    <2> QED  BY <2>2 DEF RepeatedFailures
  <1>4. Cardinality(counted) \in 0 .. Len(r.executions)
    <2>1. /\ IsFiniteSet(DOMAIN r.executions)
          /\ Cardinality(DOMAIN r.executions) = Len(r.executions)
      BY <1>2, UpTo
    <2>2. counted \in SUBSET DOMAIN r.executions
      OBVIOUS
    <2> HIDE DEF counted
    <2>3. Cardinality(counted) \in Nat /\ Cardinality(counted) <= Len(r.executions)
      BY <2>1, <2>2, FS_Subset, FS_CardinalityType
    <2> QED  BY <1>2, <2>3
  <1>5. /\ failed \in Seq(Execution(n))
        /\ \A k \in DOMAIN failed : \E i \in DOMAIN r.executions :
              failed[k] = r.executions[i] /\ Failed(r.executions[i])
    BY <1>1, SelectedHold
  <1> HIDE DEF failed
  <1>6. /\ classes \in Seq(STRING)
        /\ \A k \in DOMAIN classes : \E i \in DOMAIN r.executions :
              classes[k] = r.executions[i].class /\ Failed(r.executions[i])
    <2>1. \A k \in DOMAIN failed : failed[k].class \in STRING
      <3>1. \A k \in DOMAIN failed : failed[k] \in Execution(n)
        BY <1>5
      <3> QED  BY <3>1 DEF Execution
    <2>2. Len(failed) \in Nat /\ DOMAIN failed = 1 .. Len(failed)
      BY <1>5
    <2>3. classes \in Seq(STRING)
      BY <2>1, <2>2
    <2> QED  BY <1>5, <2>3
  <1> HIDE DEF classes
  <1>7. /\ OrderedUnique(classes) \in Seq(STRING)
        /\ \A k \in DOMAIN OrderedUnique(classes) : \E i \in DOMAIN classes :
              OrderedUnique(classes)[k] = classes[i]
    <2>1. first \in SUBSET DOMAIN classes /\ OrderedUnique(classes) = Chosen(classes, first)
      BY DEF OrderedUnique
    <2> HIDE DEF first
    <2> QED  BY <1>6, <2>1, ChosenHolds
  <1>8. dominant = FirstOf(5, OrderedUnique(classes))
    BY DEF DominantFailures, classes, failed
  <1> DEFINE unique == OrderedUnique(classes)
  <1> HIDE DEF dominant, first, counted, unique
  <1>9. /\ dominant \in Seq(STRING)
        /\ \A k \in DOMAIN dominant : \E i \in DOMAIN r.executions :
              dominant[k] = r.executions[i].class /\ Failed(r.executions[i])
    <2>1. /\ dominant \in Seq(STRING)
          /\ \A k \in DOMAIN dominant : k \in DOMAIN unique /\ dominant[k] = unique[k]
      <3>1. unique \in Seq(STRING) /\ 5 \in Nat /\ dominant = FirstOf(5, unique)
        BY <1>7, <1>8 DEF unique
      <3>2. /\ FirstOf(5, unique) \in Seq(STRING)
            /\ \A k \in DOMAIN FirstOf(5, unique) :
                  k \in DOMAIN unique /\ FirstOf(5, unique)[k] = unique[k]
        BY <3>1, FirstHolds
      <3> QED  BY <3>1, <3>2
    <2>2. ASSUME NEW k \in DOMAIN dominant
          PROVE  \E i \in DOMAIN r.executions :
                    dominant[k] = r.executions[i].class /\ Failed(r.executions[i])
      <3>1. k \in DOMAIN unique /\ dominant[k] = unique[k]
        BY <2>1
      <3>2. PICK c \in DOMAIN classes : unique[k] = classes[c]
        BY <1>7, <3>1 DEF unique
      <3>3. PICK i \in DOMAIN r.executions :
                classes[c] = r.executions[i].class /\ Failed(r.executions[i])
        BY <1>6
      <3> QED  BY <3>1, <3>2, <3>3
    <2> QED  BY <2>1, <2>2
  <1>10. NoneYet \notin Range(dominant)
    BY <1>9 DEF Range, NoneYet, Failed
  <1>11. ASSUME dominant # <<>>
         PROVE  /\ dominant[1] \in Range(dominant)
                /\ dominant[1] \in before => Cardinality(counted) > 0
    <2>1. 1 \in DOMAIN dominant
      <3>1. Len(dominant) \in Nat \ {0}
        BY <1>9, <1>11, EmptySeq
      <3> QED  BY <1>9, <3>1
    <2>2. PICK i \in DOMAIN r.executions :
              dominant[1] = r.executions[i].class /\ Failed(r.executions[i])
      BY <1>9, <2>1
    <2>3. dominant[1] \in before => counted # {}
      BY <2>2 DEF counted
    <2>4. counted # {} => Cardinality(counted) # 0
      BY <1>3, FS_EmptySet
    <2> QED  BY <1>4, <2>1, <2>3, <2>4 DEF Range
  <1> QED  BY <1>2, <1>3, <1>4, <1>10, <1>11 DEF dominant

(***************************************************************************)
(* The memory studies: what memory does to a task                          *)
(***************************************************************************)

\* A study stores episodes of one task only.
StoredOf(t) == \A i \in DOMAIN episodes : episodes[i].task = t

Recall(m, t) == IF m = "no_memory" \/ episodes = <<>> THEN NotRetrieved ELSE RetrievalResult(t)

\* What is recalled of a task its own episodes have been stored of: something, unless
\* nothing is looked for, and with advice only when there is an episode to go with it.
LEMMA RecallHolds ==
  ASSUME MemoryInvariant, NEW t \in Task, StoredOf(t), NEW m
  PROVE  /\ Recall(m, t).episodes \in Seq(Id)
         /\ Recall(m, t).advice # {} => Recall(m, t).episodes # <<>>
         /\ \A a \in Recall(m, t).advice : a.confidence \in 55 .. 95
         /\ episodes = <<>> => Recall(m, t) = NotRetrieved
  <1>1. CASE m = "no_memory" \/ episodes = <<>>
    <2>1. Recall(m, t) = NotRetrieved
      BY <1>1 DEF Recall
    <2>2. NotRetrieved.episodes = <<>> /\ NotRetrieved.advice = {} /\ <<>> \in Seq(Id)
      BY EmptySeq DEF NotRetrieved
    <2> QED  BY <2>1, <2>2
  <1>2. CASE ~(m = "no_memory" \/ episodes = <<>>)
    <2>1. Recall(m, t) = RetrievalResult(t) /\ episodes # <<>>
      BY <1>2 DEF Recall
    <2>2. StoreTyped /\ NewestKept /\ PatternsTraced
      BY DEF MemoryInvariant
    <2>3. \A a \in RetrievalResult(t).advice : a.confidence \in 55 .. 95
      BY <2>2, RetrievalHolds
    <2>4. RetrievalResult(t).episodes \in Seq(Id)
      BY <2>2, EpisodesRetrieved
    <2>5. RetrievalResult(t).episodes # <<>>
      <3>1. 1 \in DOMAIN episodes
        <4>1. Len(episodes) \in Nat \ {0}
          BY <2>1, <2>2, EmptySeq DEF StoreTyped
        <4> QED  BY <2>2, <4>1 DEF StoreTyped
      <3>2. episodes[1].task = t
        BY <3>1 DEF StoredOf
      <3>3. RetrievalResult(t).precision > 5000
        BY <2>2, <3>1, <3>2, EpisodesRetrieved
      <3>4. RetrievalResult(t).precision # 0
        BY <3>3
      <3> QED  BY <2>2, <3>4, EpisodesRetrieved
    <2> QED  BY <2>1, <2>3, <2>4, <2>5
  <1> QED  BY <1>1, <1>2

\* An answer without confidence below 55 and with advice only next to episodes costs a
\* step at most, blocks nothing, and costs nothing for nothing.
LEMMA StepsCut ==
  ASSUME NEW found, NEW m, found.episodes \in Seq(Id),
         found.advice # {} => found.episodes # <<>>,
         \A a \in found.advice : a.confidence \in 55 .. 95
  PROVE  /\ Blocked(found, m) = {} /\ Cardinality(Blocked(found, m)) = 0
         /\ EffectiveSteps(found, m) \in {MaxSteps, FewerSteps}
         /\ Len(found.episodes) \in Nat
         /\ EffectiveSteps(found, m) # MaxSteps =>
               /\ Len(found.episodes) > 0
               /\ WarmStarts(found) \/ Consumed(found, m) > 0
         /\ found = NotRetrieved => /\ Len(found.episodes) = 0 /\ Consumed(found, m) = 0
                                    /\ EffectiveSteps(found, m) = MaxSteps
  <1>1. Blocked(found, m) = {}
    <2>1. Guidance(found) \subseteq found.advice
      BY DEF Guidance
    <2>2. ASSUME NEW a \in found.advice PROVE ~(a.confidence < 55)
      <3> DEFINE c == a.confidence
      <3>1. c \in 55 .. 95
        OBVIOUS
      <3> HIDE DEF c
      <3>2. ~(c < 55)
        BY <3>1
      <3> QED  BY <3>2 DEF c
    <2> QED  BY <2>1, <2>2 DEF Blocked
  <1>2. Guidance(found) # {} => found.episodes # <<>>
    BY DEF Guidance
  <1>3. Len(found.episodes) \in Nat /\ (found.episodes # <<>> => Len(found.episodes) # 0)
    BY EmptySeq
  <1>4. Guidance(found) \ Blocked(found, m) = Guidance(found)
    BY <1>1
  <1>5. /\ GuidedSteps(found, m) = IF Guidance(found) = {} THEN MaxSteps ELSE FewerSteps
        /\ Consumed(found, m) =
             IF m \notin {"episodic_plus_reflection", "full_memory"} THEN 0
             ELSE IF Guidance(found) = {} THEN 0 ELSE IF m = "full_memory" THEN 2 ELSE 1
    BY <1>4 DEF GuidedSteps, Consumed
  <1>6. EffectiveSteps(found, m) \in {MaxSteps, FewerSteps}
    BY <1>5 DEF EffectiveSteps
  <1>7. ASSUME EffectiveSteps(found, m) # MaxSteps
        PROVE  /\ Len(found.episodes) > 0
               /\ WarmStarts(found) \/ Consumed(found, m) > 0
    <2>1. CASE WarmStarts(found) /\ found.precision >= 5000
      BY <1>3, <2>1 DEF WarmStarts
    <2>2. CASE ~(WarmStarts(found) /\ found.precision >= 5000)
      <3>1. /\ m \in {"episodic_plus_reflection", "full_memory"}
            /\ GuidedSteps(found, m) # MaxSteps
        BY <1>7, <2>2 DEF EffectiveSteps
      <3>2. Guidance(found) # {}
        BY <1>5, <3>1
      <3>3. Consumed(found, m) > 0
        BY <1>5, <3>1, <3>2
      <3> QED  BY <1>2, <1>3, <3>2, <3>3
    <2> QED  BY <2>1, <2>2
  <1>8. ASSUME found = NotRetrieved
        PROVE  /\ Len(found.episodes) = 0 /\ Consumed(found, m) = 0
               /\ EffectiveSteps(found, m) = MaxSteps
    <2>1. found.episodes = <<>> /\ found.advice = {}
      BY <1>8 DEF NotRetrieved
    <2>2. ~WarmStarts(found)
      BY <2>1 DEF WarmStarts
    <2>3. Guidance(found) = {}
      <3>1. Guidance(found) \subseteq found.advice
        BY DEF Guidance
      <3> QED  BY <2>1, <3>1
    <2>4. Len(found.episodes) = 0
      BY <2>1, EmptySeq
    <2> QED  BY <1>5, <2>2, <2>3, <2>4 DEF EffectiveSteps
  <1> QED
    <2>1. Cardinality(Blocked(found, m)) = 0
      BY <1>1, FS_EmptySet
    <2> QED  BY <1>1, <1>3, <1>6, <1>7, <1>8, <2>1

\* Between tasks of different families and types nothing is near enough for governance.
LEMMA GovernedAlike ==
  ASSUME MemoryInvariant, NEW s \in Task, NEW t \in Task, StoredOf(s),
         episodes # <<>>, GovernanceAllows(RetrievalResult(t))
  PROVE  FamilyOf(s) = FamilyOf(t) \/ TypeOf(s) = TypeOf(t)
  <1>1. StoreTyped /\ NewestKept
    BY DEF MemoryInvariant
  <1>2. RetrievalResult(t).precision \in Nat
    BY <1>1, EpisodesRetrieved
  <1>3. RetrievalResult(t).precision > 3750
    BY <1>2 DEF GovernanceAllows
  <1>4. \E i \in DOMAIN episodes : \/ FamilyOf(episodes[i].task) = FamilyOf(t)
                                   \/ TypeOf(episodes[i].task) = TypeOf(t)
    BY <1>1, <1>3, EpisodesRetrieved
  <1> QED  BY <1>4 DEF StoredOf

\* Remembering an answer keeps the memory sound and its episodes of one task, and adds
\* one reflection exactly when there was a simulation.
LEMMA RememberStep ==
  ASSUME MemoryInvariant, NEW t \in Task, StoredOf(t),
         NEW m \in Range(RepeatedModes) \cup {"source"}, index \in 0 .. Episodes + SourceEpisodes,
         NEW n \in {MaxSteps, FewerSteps}, NEW r \in Responses(n), Remember(t, m, r)
  PROVE  /\ MemoryInvariant' /\ StoredOf(t)'
         /\ Len(reflections') = Len(reflections) + (IF r.executions = <<>> THEN 0 ELSE 1)
  <1>1. ResponseOK(r, n) /\ n \in Nat \ {0}
    BY ResponseAssumption, StepsHold
  <1>2. Len(reflections) \in Nat
    BY StoreFacts DEF MemoryInvariant
  <1>3. CASE r.executions = <<>>
    <2>1. UNCHANGED vars
      BY <1>1, <1>3, PrimaryHolds DEF Remember
    <2> QED  BY <1>2, <1>3, <2>1, StutterStep DEF StoredOf, vars
  <1>4. CASE r.executions # <<>>
    <2> DEFINE s == SearchOf(t, m, index, r)
               v == VerificationOf(Primary(r))
               i == <<s, v>>
               all == Append(episodes, Consolidated(s, v))
    <2>1. IngestEpisode(s, v)
      BY <1>1, <1>4, PrimaryHolds DEF Remember
    <2>2. i \in Ingestions
      <3>1. r \in {x \in Responses(MaxSteps) \cup Responses(FewerSteps) : x.executions # <<>>}
        BY <1>4
      <3>2. i \in StudyIngestions
        <4> DEFINE of == <<t, m, index, r>>
        <4>1. of \in Task \X (Range(RepeatedModes) \cup {"source"})
                     \X (0 .. Episodes + SourceEpisodes)
                     \X {x \in Responses(MaxSteps) \cup Responses(FewerSteps) :
                             x.executions # <<>>}
          BY <3>1
        <4>2. of[1] = t /\ of[2] = m /\ of[3] = index /\ of[4] = r
          OBVIOUS
        <4> HIDE DEF of
        <4> QED  BY <4>1, <4>2 DEF StudyIngestions
      <3> QED  BY <3>2, StudyIngestionAssumption
    <2>3. i[1] = s /\ i[2] = v /\ s.task = t
      BY DEF SearchOf
    <2> HIDE DEF s, v, i
    <2>4. MemoryInvariant'
      BY <2>1, <2>2, <2>3, IngestStep
    <2>5. /\ all \in Seq(Episode)
          /\ episodes' = Newest(MaxEpisodes, all)
          /\ Len(reflections') = Len(reflections) + 1
      BY <2>1, <2>2, <2>3, IngestFacts
    <2>6. \A k \in DOMAIN all : all[k].task = t
      <3>1. /\ episodes \in Seq(Episode) /\ Consolidated(s, v) \in Episode
            /\ Consolidated(s, v).task = t
        <4>1. Consolidated(i[1], i[2]) \in Episode
          BY <2>2 DEF Episode
        <4> QED  BY <2>3, <4>1 DEF MemoryInvariant, StoreTyped, Consolidated
      <3>2. /\ Len(all) = Len(episodes) + 1
            /\ \A k \in 1 .. Len(episodes) : all[k] = episodes[k]
            /\ all[Len(episodes) + 1] = Consolidated(s, v)
        BY <3>1, AppendProperties
      <3>3. DOMAIN all = 1 .. Len(episodes) + 1 /\ DOMAIN episodes = 1 .. Len(episodes)
            /\ Len(episodes) \in Nat
        BY <2>5, <3>1, <3>2
      <3> HIDE DEF all
      <3>4. ASSUME NEW k \in DOMAIN all PROVE all[k].task = t
        <4>1. CASE k = Len(episodes) + 1
          BY <3>1, <3>2, <4>1
        <4>2. CASE k # Len(episodes) + 1
          <5>1. k \in DOMAIN episodes
            BY <3>3, <4>2
          <5> QED  BY <3>2, <3>3, <5>1 DEF StoredOf
        <4> QED  BY <4>1, <4>2
      <3> QED  BY <3>4
    <2> HIDE DEF all
    <2>7. \A k \in DOMAIN episodes' : episodes'[k].task = t
      <3>1. MaxEpisodes \in Nat \ {0}
        BY MemoryAssumption
      <3>2. \A k \in DOMAIN Newest(MaxEpisodes, all) :
                \E j \in DOMAIN all : Newest(MaxEpisodes, all)[k] = all[j]
        BY <2>5, <3>1, NewestHolds
      <3> QED  BY <2>5, <2>6, <3>2
    <2> QED  BY <1>4, <2>4, <2>5, <2>7 DEF StoredOf
  <1> QED  BY <1>3, <1>4

(***************************************************************************)
(* The memory studies: the inductive invariant                             *)
(***************************************************************************)

Listed(s) == \E S : s \in Seq(S)

LEMMA ListGrows ==
  ASSUME NEW s, Listed(s), NEW x
  PROVE  /\ Len(s) \in Nat /\ DOMAIN s = 1 .. Len(s)
         /\ Listed(Append(s, x)) /\ Len(Append(s, x)) = Len(s) + 1
         /\ DOMAIN Append(s, x) = 1 .. Len(s) + 1
         /\ \A i \in 1 .. Len(s) : Append(s, x)[i] = s[i]
         /\ Append(s, x)[Len(s) + 1] = x
  <1>1. PICK S : s \in Seq(S)
    BY DEF Listed
  <1>2. s \in Seq(S \cup {x}) /\ x \in S \cup {x}
    BY <1>1, SeqMonotonic
  <1>3. /\ Append(s, x) \in Seq(S \cup {x})
        /\ Len(Append(s, x)) = Len(s) + 1
        /\ \A i \in 1 .. Len(s) : Append(s, x)[i] = s[i]
        /\ Append(s, x)[Len(s) + 1] = x
    BY <1>2, AppendProperties
  <1>4. Len(s) \in Nat /\ DOMAIN s = 1 .. Len(s)
    BY <1>1
  <1>5. Listed(Append(s, x))
    BY <1>3 DEF Listed
  <1>6. DOMAIN Append(s, x) = 1 .. Len(s) + 1
    BY <1>3
  <1> QED  BY <1>3, <1>4, <1>5, <1>6

\* The tasks share a family or a type.
Alike == FamilyOf(source) = FamilyOf(target) \/ TypeOf(source) = TypeOf(target)

\* A record of the mode under way.
RecordSound(x) ==
    /\ x.calls \in Nat /\ x.steps \in {MaxSteps, FewerSteps}
    /\ x.step \in 0 .. x.steps /\ x.repeated \in 0 .. x.calls
    /\ x.steps # MaxSteps => x.retrieved > 0 /\ (x.warm \/ x.consumed > 0)
    /\ x.streak \in Nat
    /\ x.streak > 0 => x.dominant
    /\ x.dominant => x.repeated > 0
    /\ study = "ablation" => x.blocked = 0 /\ ~x.harmful
    /\ study = "transfer" => /\ x.harmful => TransferModes[mode] # "governed_transfer"
                             /\ x.mode = "governed_transfer" /\ x.warm => Alike

RecordsSound ==
    /\ Listed(records)
    /\ \A i \in DOMAIN records : RecordSound(records[i]) /\ records[i].streak < i
    /\ study = "source" => records = <<>>

\* The first n records of those that the memory was given something by.
Remembered(n) == {j \in 1 .. n : records[j].remembered}

\* In the ablation, what the mode has ingested are all the reflections there are.
OwnReflections ==
    study = "ablation" => Len(reflections) = Cardinality(Remembered(Len(records)))

\* The previous failure is among those of before, and the streak is shorter than the mode.
FailuresKept ==
    /\ streak \in 0 .. Len(records)
    /\ NoneYet \notin prior
    /\ previous # NoneYet => previous \in prior /\ streak < Len(records)

\* The second mode of either study is harmless: governed, or of the ablation.
SummariesSound ==
    /\ Listed(summaries)
    /\ Len(summaries) = (IF study = "done" THEN 4 ELSE mode - 1)
    /\ \A i \in DOMAIN summaries : /\ summaries[i].blocked \in Nat /\ summaries[i].harmful \in Nat
                                   /\ i = 2 => summaries[i].harmful = 0

StudyTyped ==
    /\ source \in Task /\ target \in Task
    /\ study \in {"ablation", "source", "transfer", "done"}
    /\ study = "ablation" => source = target
    /\ mode \in 1 .. 4 /\ index \in Nat

StudyInvariant ==
    /\ MemoryInvariant
    /\ StudyTyped
    /\ StoredOf(source)
    /\ RecordsSound
    /\ OwnReflections /\ MemoryOfOwnMode
    /\ FailuresKept
    /\ SummariesSound

\* A study begins, and a mode of the ablation too, with nothing.
LEMMA NothingHolds == records = <<>> => Listed(records) /\ Len(records) = 0
                                        /\ DOMAIN records = {} /\ Remembered(Len(records)) = {}
  <1> SUFFICES ASSUME records = <<>>
               PROVE  /\ Listed(records) /\ Len(records) = 0
                      /\ DOMAIN records = {} /\ Remembered(Len(records)) = {}
    OBVIOUS
  <1>1. <<>> \in Seq({}) /\ Len(<<>>) = 0 /\ DOMAIN <<>> = {}
    BY EmptySeq
  <1>2. Remembered(0) = {}
    BY DEF Remembered
  <1> QED  BY <1>1, <1>2 DEF Listed

LEMMA StudyInitHolds == StudyInit => StudyInvariant
  <1> SUFFICES ASSUME StudyInit PROVE StudyInvariant
    OBVIOUS
  <1>1. MemoryInvariant
    BY InitHolds DEF StudyInit
  <1>2. StudyTyped
    BY DEF StudyInit, StudyTyped
  <1>3. episodes = <<>> /\ reflections = <<>> /\ DOMAIN <<>> = {} /\ Len(<<>>) = 0
    BY EmptySeq DEF StudyInit, Init
  <1>4. StoredOf(source)
    BY <1>3 DEF StoredOf
  <1>5. /\ Listed(records) /\ Len(records) = 0
        /\ DOMAIN records = {} /\ Remembered(Len(records)) = {} /\ records = <<>>
    BY NothingHolds DEF StudyInit
  <1>6. RecordsSound
    BY <1>5 DEF RecordsSound
  <1>7. OwnReflections
    BY <1>3, <1>5, FS_EmptySet DEF OwnReflections
  <1>8. MemoryOfOwnMode
    BY <1>5 DEF MemoryOfOwnMode
  <1>9. FailuresKept
    BY <1>5 DEF FailuresKept, StudyInit
  <1>10. SummariesSound
    <2>1. summaries = <<>> /\ mode = 1 /\ study # "done"
      BY DEF StudyInit
    <2>2. Listed(<<>>)
      <3>1. <<>> \in Seq({})
        BY EmptySeq
      <3> QED  BY <3>1 DEF Listed
    <2> QED  BY <1>3, <2>1, <2>2 DEF SummariesSound
  <1> QED  BY <1>1, <1>2, <1>4, <1>6, <1>7, <1>8, <1>9, <1>10 DEF StudyInvariant

\* A round of the ablation adds a record, of what was remembered and counted.
LEMMA AblationFacts ==
  ASSUME StudyInvariant, RunAblationEpisode
  PROVE  \E x :
           /\ records' = Append(records, x)
           /\ RecordSound(x)
           /\ streak' = x.streak /\ streak' <= Len(records) /\ streak' \in Nat
           /\ NoneYet \notin prior'
           /\ previous' # NoneYet => previous' \in prior'
           /\ x.before = Len(episodes)
           /\ episodes = <<>> => x.retrieved = 0 /\ x.consumed = 0 /\ x.steps = MaxSteps
           /\ MemoryInvariant' /\ StoredOf(source)'
           /\ Len(reflections') = Len(reflections) + (IF x.remembered THEN 1 ELSE 0)
  <1> DEFINE m == RepeatedModes[mode]
             found == IF m = "no_memory" \/ episodes = <<>> THEN NotRetrieved
                                                            ELSE RetrievalResult(target)
             steps == EffectiveSteps(found, m)
             primary(r) == IF DominantFailures(r) = <<>> THEN NoneYet ELSE DominantFailures(r)[1]
             repeated(r) == RepeatedFailures(r, prior)
             x(r) == [mode |-> m, before |-> Len(episodes), retrieved |-> Len(found.episodes),
                      consumed |-> Consumed(found, m), warm |-> WarmStarts(found),
                      blocked |-> Cardinality(Blocked(found, m)), steps |-> steps,
                      found |-> FeasibleFound(r), calls |-> Len(r.executions),
                      step |-> StepToFirstFeasible(r), repeated |-> repeated(r),
                      dominant |-> primary(r) \in prior, streak |-> streak',
                      aligned |-> Consumed(found, m) > 0 /\ (r.predicted \/ repeated(r) = 0),
                      harmful |-> FALSE,
                      remembered |-> m # "no_memory" /\ r.executions # <<>>]
  <1>1. /\ study = "ablation" /\ index < Episodes /\ source = target /\ target \in Task
        /\ MemoryInvariant /\ StoredOf(target) /\ index \in Nat /\ mode \in 1 .. 4
    BY DEF StudyInvariant, StudyTyped, RunAblationEpisode
  <1>2. PICK r \in Responses(steps) :
          /\ streak' = IF primary(r) # NoneYet /\ primary(r) = previous THEN streak + 1 ELSE 0
          /\ previous' = primary(r)
          /\ prior' = prior \cup Range(DominantFailures(r))
          /\ IF m = "no_memory" THEN UNCHANGED vars ELSE Remember(target, m, r)
          /\ records' = Append(records, x(r))
    BY Zenon DEF RunAblationEpisode
  <1>3. source' = source /\ target' = target /\ study' = study
    BY DEF RunAblationEpisode
  <1>4. found = Recall(m, target)
    BY DEF Recall
  <1>5. m \in Range(RepeatedModes)
    BY <1>1 DEF Range, RepeatedModes
  <1> HIDE DEF m, found
  <1>6. /\ found.episodes \in Seq(Id)
        /\ found.advice # {} => found.episodes # <<>>
        /\ \A a \in found.advice : a.confidence \in 55 .. 95
        /\ episodes = <<>> => found = NotRetrieved
    BY <1>1, <1>4, RecallHolds
  <1>7. /\ Cardinality(Blocked(found, m)) = 0
        /\ steps \in {MaxSteps, FewerSteps}
        /\ Len(found.episodes) \in Nat
        /\ steps # MaxSteps =>
              /\ Len(found.episodes) > 0
              /\ WarmStarts(found) \/ Consumed(found, m) > 0
        /\ found = NotRetrieved => /\ Len(found.episodes) = 0 /\ Consumed(found, m) = 0
                                   /\ steps = MaxSteps
    BY <1>6, StepsCut
  <1> HIDE DEF steps
  <1>8. ResponseOK(r, steps) /\ steps \in Nat \ {0}
    BY <1>2, <1>7, ResponseAssumption, StepsHold
  <1>9. /\ Len(r.executions) \in Nat
        /\ repeated(r) \in 0 .. Len(r.executions)
        /\ NoneYet \notin Range(DominantFailures(r))
        /\ DominantFailures(r) # <<>> =>
              /\ DominantFailures(r)[1] \in Range(DominantFailures(r))
              /\ DominantFailures(r)[1] \in prior => repeated(r) > 0
    BY <1>8, FailuresCounted
  <1>10. StepToFirstFeasible(r) \in 0 .. steps
    BY <1>8, FirstFeasibleHolds
  <1>11. FailuresKept /\ Len(records) \in Nat
    BY ListGrows DEF StudyInvariant, RecordsSound
  <1>12. /\ primary(r) \in prior => repeated(r) > 0
         /\ primary(r) # NoneYet => primary(r) \in prior'
         /\ NoneYet \notin prior'
    BY <1>2, <1>9, <1>11 DEF FailuresKept
  <1> HIDE DEF primary, repeated
  <1>13. /\ streak' \in Nat /\ streak' <= Len(records)
         /\ streak' > 0 => primary(r) \in prior
    BY <1>2, <1>11 DEF FailuresKept
  <1>14. /\ x(r).before = Len(episodes) /\ x(r).retrieved = Len(found.episodes)
         /\ x(r).consumed = Consumed(found, m) /\ x(r).blocked = Cardinality(Blocked(found, m))
         /\ x(r).steps = steps /\ x(r).calls = Len(r.executions)
         /\ x(r).step = StepToFirstFeasible(r) /\ x(r).repeated = repeated(r)
         /\ x(r).streak = streak'
    OBVIOUS
  <1>15. /\ x(r).warm <=> WarmStarts(found)
         /\ x(r).dominant <=> primary(r) \in prior
         /\ x(r).harmful <=> FALSE
         /\ x(r).remembered <=> m # "no_memory" /\ r.executions # <<>>
    BY Zenon
  <1> HIDE DEF x
  <1>16. RecordSound(x(r))
    BY <1>1, <1>7, <1>9, <1>10, <1>12, <1>13, <1>14, <1>15 DEF RecordSound
  <1>17. /\ MemoryInvariant' /\ StoredOf(source)'
         /\ Len(reflections') = Len(reflections) + (IF x(r).remembered THEN 1 ELSE 0)
    <2>1. CASE m = "no_memory"
      <3>1. UNCHANGED vars /\ ~x(r).remembered /\ Len(reflections) \in Nat
        BY <1>1, <1>2, <1>15, <2>1, StoreFacts DEF MemoryInvariant
      <3>2. MemoryInvariant'
        BY <1>1, <3>1, StutterStep
      <3>3. Len(reflections') = Len(reflections) /\ StoredOf(source)'
        BY <1>1, <1>3, <3>1 DEF StoredOf, vars
      <3> QED  BY <3>1, <3>2, <3>3
    <2>2. CASE m # "no_memory"
      <3>1. Remember(target, m, r)
        BY <1>2, <2>2
      <3>2. index \in 0 .. Episodes + SourceEpisodes
        BY <1>1, StudyAssumption
      <3>3. /\ MemoryInvariant' /\ \A k \in DOMAIN episodes' : episodes'[k].task = target
            /\ Len(reflections') = Len(reflections) + (IF r.executions = <<>> THEN 0 ELSE 1)
        <4>1. /\ m \in Range(RepeatedModes) \cup {"source"} /\ steps \in {MaxSteps, FewerSteps}
              /\ r \in Responses(steps) /\ target \in Task
          BY <1>1, <1>2, <1>5, <1>7
        <4>2. PICK t \in Task, c \in Range(RepeatedModes) \cup {"source"},
                   n \in {MaxSteps, FewerSteps} : t = target /\ c = m /\ n = steps
          BY <4>1
        <4>3. r \in Responses(n) /\ Remember(t, c, r) /\ StoredOf(t)
          BY <1>1, <3>1, <4>1, <4>2
        <4>4. /\ MemoryInvariant' /\ StoredOf(t)'
              /\ Len(reflections') = Len(reflections) + (IF r.executions = <<>> THEN 0 ELSE 1)
          BY <1>1, <3>2, <4>3, RememberStep
        <4> QED  BY <4>2, <4>4 DEF StoredOf
      <3>4. x(r).remembered <=> ~(r.executions = <<>>)
        BY <1>15, <2>2
      <3>5. StoredOf(source)'
        BY <1>1, <1>3, <3>3 DEF StoredOf
      <3> QED  BY <3>3, <3>4, <3>5
    <2> QED  BY <2>1, <2>2
  <1>18. episodes = <<>> => x(r).retrieved = 0 /\ x(r).consumed = 0 /\ x(r).steps = MaxSteps
    BY <1>6, <1>7, <1>14
  <1> DEFINE y == x(r)
  <1>19. /\ records' = Append(records, y) /\ RecordSound(y) /\ streak' = y.streak
         /\ y.before = Len(episodes)
         /\ Len(reflections') = Len(reflections) + (IF y.remembered THEN 1 ELSE 0)
         /\ episodes = <<>> => y.retrieved = 0 /\ y.consumed = 0 /\ y.steps = MaxSteps
    BY <1>2, <1>14, <1>16, <1>17, <1>18
  <1>20. previous' # NoneYet => previous' \in prior'
    BY <1>2, <1>12
  <1> HIDE DEF y
  <1> WITNESS y
  <1> QED  BY <1>12, <1>13, <1>17, <1>19, <1>20

\* A round of the transfer adds a record and leaves the memory as it is.
LEMMA TransferFacts ==
  ASSUME StudyInvariant, RunTransferEpisode
  PROVE  \E x : /\ records' = Append(records, x)
                /\ RecordSound(x) /\ x.streak = 0
                /\ NoneYet \notin prior' /\ prior \subseteq prior'
  <1> DEFINE m == TransferModes[mode]
             found == TransferFound(m)
             warm == TransferWarm(m, found)
             fewer == TransferFewer(m, found)
             used == IF fewer \/ (m = "forced_transfer" /\ warm) THEN 1 ELSE 0
             steps == IF fewer THEN FewerSteps ELSE MaxSteps
             repeated(r) == RepeatedFailures(r, prior)
             harm(r) == Harmful(m, warm, TransferRisk(m, found), repeated(r))
             x(r) == [mode |-> m, before |-> Len(episodes), retrieved |-> Len(found.episodes),
                      consumed |-> used, warm |-> warm,
                      blocked |-> IF Blocks(m, found) THEN 1 ELSE 0,
                      steps |-> IF fewer THEN FewerSteps ELSE MaxSteps,
                      found |-> FeasibleFound(r), calls |-> Len(r.executions),
                      step |-> StepToFirstFeasible(r), repeated |-> repeated(r),
                      dominant |-> FALSE, streak |-> 0,
                      aligned |-> used > 0 /\ ~harm(r) /\ (r.predicted \/ repeated(r) = 0),
                      harmful |-> harm(r), remembered |-> FALSE]
  <1>1. /\ study = "transfer" /\ mode \in 1 .. 4 /\ source \in Task /\ target \in Task
        /\ MemoryInvariant /\ StoredOf(source) /\ FailuresKept
    BY DEF StudyInvariant, StudyTyped, RunTransferEpisode
  <1>2. PICK r \in Responses(steps) :
          /\ prior' = prior \cup Range(DominantFailures(r))
          /\ records' = Append(records, x(r))
    BY Zenon DEF RunTransferEpisode
  <1>3. ASSUME warm
        PROVE  /\ Len(found.episodes) > 0
               /\ m = "governed_transfer" => Alike
    <2>1. WarmStarts(found) /\ found.episodes # <<>> /\ ~Blocks(m, found)
      BY <1>3 DEF WarmStarts, TransferWarm
    <2>2. ~(m = "no_memory" \/ episodes = <<>>)
      BY <2>1 DEF NotRetrieved, TransferFound
    <2>3. found.episodes \in Seq(Id)
      <3>1. CASE m = "forced_transfer"
        <4> DEFINE e == episodes[Len(episodes)]
        <4>1. found = Forced
          BY <2>2, <3>1 DEF TransferFound
        <4>2. e.id \in Id
          <5>1. StoreTyped /\ NewestKept /\ Len(episodes) \in Nat \ {0}
            BY <1>1, <2>2, EmptySeq DEF MemoryInvariant, StoreTyped
          <5>2. Len(episodes) \in DOMAIN episodes
            BY <5>1 DEF StoreTyped
          <5> QED  BY <5>1, <5>2, StoreFacts DEF EpisodeSound
        <4>3. Forced.episodes = <<>> \/ Forced.episodes = <<e.id>>
          <5>1. Last(episodes) = e
            BY DEF Last
          <5> HIDE DEF e
          <5>2. CASE e.seed = NoCandidate
            BY <5>1, <5>2 DEF Forced, NotRetrieved
          <5>3. CASE e.seed # NoCandidate
            BY <5>1, <5>3 DEF Forced
          <5> QED  BY <5>2, <5>3
        <4>4. <<>> \in Seq(Id) /\ <<e.id>> \in Seq(Id)
          BY <4>2, EmptySeq
        <4> QED  BY <4>1, <4>3, <4>4
      <3>2. CASE m # "forced_transfer"
        <4>1. found = RetrievalResult(target)
          BY <2>2, <3>2 DEF TransferFound
        <4>2. RetrievalResult(target).episodes \in Seq(Id)
          BY <1>1, EpisodesRetrieved DEF MemoryInvariant
        <4> QED  BY <4>1, <4>2
      <3> QED  BY <3>1, <3>2
    <2>4. Len(found.episodes) > 0
      <3>1. Len(found.episodes) \in Nat /\ Len(found.episodes) # 0
        BY <2>1, <2>3, EmptySeq
      <3> QED  BY <3>1
    <2>5. ASSUME m = "governed_transfer" PROVE Alike
      <3>1. found = RetrievalResult(target) /\ episodes # <<>>
        BY <2>2, <2>5 DEF TransferFound
      <3>2. GovernanceAllows(found)
        BY <2>1, <2>5, <3>1 DEF Blocks
      <3>3. GovernanceAllows(RetrievalResult(target))
        BY <3>1, <3>2
      <3> QED  BY <1>1, <3>1, <3>3, GovernedAlike DEF Alike
    <2> QED  BY <2>4, <2>5
  <1>4. steps \in {MaxSteps, FewerSteps} /\ (steps # MaxSteps => warm)
    <2>1. fewer => warm
      BY DEF TransferFewer
    <2>2. CASE fewer
      BY <2>1, <2>2, Zenon
    <2>3. CASE ~fewer
      BY <2>3, Zenon
    <2> QED  BY <2>2, <2>3
  <1>5. harm(r) => m # "governed_transfer"
    BY DEF Harmful
  <1> HIDE DEF m, found, warm, fewer, used
  <1>6. /\ x(r).retrieved = Len(found.episodes)
        /\ x(r).steps = steps /\ x(r).calls = Len(r.executions)
        /\ x(r).step = StepToFirstFeasible(r) /\ x(r).repeated = repeated(r)
        /\ x(r).streak = 0 /\ x(r).mode = m
    OBVIOUS
  <1>7. /\ x(r).warm <=> warm
        /\ x(r).dominant <=> FALSE
        /\ x(r).harmful <=> harm(r)
    BY Zenon
  <1> HIDE DEF steps, harm
  <1>8. ResponseOK(r, steps) /\ steps \in Nat \ {0}
    BY <1>2, <1>4, ResponseAssumption, StepsHold
  <1>9. /\ Len(r.executions) \in Nat
        /\ repeated(r) \in 0 .. Len(r.executions)
        /\ NoneYet \notin Range(DominantFailures(r))
    BY <1>8, FailuresCounted
  <1>10. StepToFirstFeasible(r) \in 0 .. steps
    BY <1>8, FirstFeasibleHolds
  <1> HIDE DEF repeated
  <1> DEFINE y == x(r)
  <1> HIDE DEF x
  <1>11. RecordSound(y)
    <2>1. y.mode = TransferModes[mode]
      BY <1>6 DEF m
    <2>2. y.harmful => TransferModes[mode] # "governed_transfer"
      BY <1>5, <1>7 DEF m
    <2> QED  BY <1>1, <1>3, <1>4, <1>6, <1>7, <1>9, <1>10, <2>1, <2>2 DEF RecordSound
  <1>12. records' = Append(records, y) /\ y.streak = 0
    BY <1>2, <1>6
  <1>13. NoneYet \notin prior' /\ prior \subseteq prior'
    BY <1>1, <1>2, <1>9 DEF FailuresKept
  <1> HIDE DEF y
  <1> WITNESS y
  <1> QED  BY <1>11, <1>12, <1>13

\* Of the records of a longer list none but the last is new.
LEMMA RememberedGrows ==
  ASSUME Listed(records), NEW x, records' = Append(records, x)
  PROVE  /\ \A n \in 0 .. Len(records) : Remembered(n)' = Remembered(n)
         /\ Cardinality(Remembered(Len(records)))' =
              Cardinality(Remembered(Len(records))) + (IF x.remembered THEN 1 ELSE 0)
  <1>1. /\ Len(records) \in Nat /\ Len(records') = Len(records) + 1
        /\ \A i \in 1 .. Len(records) : records'[i] = records[i]
        /\ records'[Len(records) + 1] = x
    BY ListGrows
  <1>2. ASSUME NEW n \in 0 .. Len(records) PROVE Remembered(n)' = Remembered(n)
    BY <1>1 DEF Remembered
  <1> DEFINE old == Remembered(Len(records))
             last == Len(records) + 1
  <1>3. IsFiniteSet(old) /\ last \notin old /\ Cardinality(old) \in Nat
    <2>1. IsFiniteSet(1 .. Len(records))
      BY <1>1, UpTo
    <2>2. old \in SUBSET (1 .. Len(records)) /\ last \notin old
      BY <1>1 DEF Remembered
    <2> HIDE DEF old
    <2> QED  BY <2>1, <2>2, FS_Subset, FS_CardinalityType
  <1>4. {j \in 1 .. Len(records') : records'[j].remembered} =
            IF x.remembered THEN old \cup {last} ELSE old
    <2>1. 1 .. Len(records') = (1 .. Len(records)) \cup {last} /\ last \notin 1 .. Len(records)
      BY <1>1
    <2>2. CASE x.remembered
      BY <1>1, <2>1, <2>2 DEF Remembered
    <2>3. CASE ~x.remembered
      BY <1>1, <2>1, <2>3 DEF Remembered
    <2> QED  BY <2>2, <2>3
  <1>5. Remembered(Len(records))' = {j \in 1 .. Len(records') : records'[j].remembered}
    BY DEF Remembered
  <1>6. Cardinality(old \cup {last}) = Cardinality(old) + 1
    <2> HIDE DEF old, last
    <2> QED  BY <1>3, FS_AddElement
  <1>7. Cardinality(Remembered(Len(records)))' =
            Cardinality(Remembered(Len(records))) + (IF x.remembered THEN 1 ELSE 0)
    <2>1. Cardinality(Remembered(Len(records)))' = Cardinality(IF x.remembered THEN old \cup {last}
                                                                              ELSE old)
      BY <1>4, <1>5
    <2> HIDE DEF last
    <2>2. CASE x.remembered
      BY <1>6, <2>1, <2>2
    <2>3. CASE ~x.remembered
      BY <1>3, <2>1, <2>3
    <2> QED  BY <2>2, <2>3
  <1> QED  BY <1>2, <1>7

LEMMA RecordsGrow ==
  ASSUME RecordsSound, study # "source", UNCHANGED <<study, mode, source, target>>,
         NEW x, RecordSound(x), x.streak <= Len(records), records' = Append(records, x)
  PROVE  RecordsSound' /\ Len(records) \in Nat /\ Len(records') = Len(records) + 1
  <1>1. /\ Listed(records) /\ study' = study /\ mode' = mode /\ source' = source /\ target' = target
        /\ \A i \in DOMAIN records : RecordSound(records[i]) /\ records[i].streak < i
    BY DEF RecordsSound
  <1>2. /\ Len(records) \in Nat /\ DOMAIN records = 1 .. Len(records)
        /\ Listed(records') /\ Len(records') = Len(records) + 1
        /\ DOMAIN records' = 1 .. Len(records) + 1
        /\ \A i \in 1 .. Len(records) : records'[i] = records[i]
        /\ records'[Len(records) + 1] = x
    BY <1>1, ListGrows
  <1>3. ASSUME NEW c, RecordSound(c)
        PROVE  RecordSound(c)'
    BY <1>1, <1>3 DEF RecordSound, Alike
  <1>4. ASSUME NEW i \in DOMAIN records'
        PROVE  RecordSound(records[i])' /\ records'[i].streak < i
    <2>1. PICK c : c = records'[i]
      OBVIOUS
    <2>2. RecordSound(c) /\ c.streak < i
      <3>1. CASE i = Len(records) + 1
        <4>1. c = x /\ x.streak \in Nat
          BY <1>2, <2>1, <3>1 DEF RecordSound
        <4> QED  BY <1>2, <3>1, <4>1
      <3>2. CASE i # Len(records) + 1
        <4>1. i \in DOMAIN records /\ c = records[i]
          BY <1>2, <2>1, <3>2
        <4> QED  BY <1>1, <4>1
      <3> QED  BY <3>1, <3>2
    <2>3. RecordSound(c)'
      BY <1>3, <2>2
    <2>4. RecordSound(records[i])'
      BY <2>1, <2>3 DEF RecordSound
    <2> QED  BY <2>1, <2>2, <2>4
  <1>5. RecordsSound'
    BY <1>1, <1>2, <1>4 DEF RecordsSound, Listed
  <1> QED  BY <1>2, <1>5

LEMMA AblationStep ==
  ASSUME StudyInvariant, RunAblationEpisode
  PROVE  StudyInvariant'
  <1>1. /\ study = "ablation" /\ index' = index + 1
        /\ source' = source /\ target' = target /\ study' = study /\ mode' = mode
        /\ summaries' = summaries
    BY DEF RunAblationEpisode
  <1>2. /\ MemoryInvariant /\ StudyTyped /\ RecordsSound /\ OwnReflections /\ MemoryOfOwnMode
        /\ FailuresKept /\ SummariesSound /\ Listed(records)
    BY DEF StudyInvariant, RecordsSound
  <1>3. PICK x :
           /\ records' = Append(records, x)
           /\ RecordSound(x)
           /\ streak' = x.streak /\ streak' <= Len(records) /\ streak' \in Nat
           /\ NoneYet \notin prior'
           /\ previous' # NoneYet => previous' \in prior'
           /\ x.before = Len(episodes)
           /\ episodes = <<>> => x.retrieved = 0 /\ x.consumed = 0 /\ x.steps = MaxSteps
           /\ MemoryInvariant' /\ StoredOf(source)'
           /\ Len(reflections') = Len(reflections) + (IF x.remembered THEN 1 ELSE 0)
    BY AblationFacts
  <1>4. RecordsSound' /\ Len(records) \in Nat /\ Len(records') = Len(records) + 1
    BY <1>1, <1>2, <1>3, RecordsGrow
  <1>5. StudyTyped'
    BY <1>1, <1>2 DEF StudyTyped
  <1>6. /\ \A n \in 0 .. Len(records) : Remembered(n)' = Remembered(n)
        /\ Cardinality(Remembered(Len(records)))' =
             Cardinality(Remembered(Len(records))) + (IF x.remembered THEN 1 ELSE 0)
    BY <1>2, <1>3, RememberedGrows
  <1>7. Len(reflections) = Cardinality(Remembered(Len(records)))
    BY <1>1, <1>2 DEF OwnReflections
  <1>8. OwnReflections'
    BY <1>3, <1>6, <1>7 DEF OwnReflections
  <1>9. MemoryOfOwnMode'
    <2> SUFFICES ASSUME NEW i \in DOMAIN records'
                 PROVE  LET own == Cardinality({j \in 1 .. (i - 1) : records'[j].remembered})
                        IN  /\ records'[i].before = (IF own < MaxEpisodes THEN own ELSE MaxEpisodes)
                            /\ records'[i].before = 0 => /\ records'[i].retrieved = 0
                                                         /\ records'[i].consumed = 0
                                                         /\ records'[i].steps = MaxSteps
      BY DEF MemoryOfOwnMode
    <2>1. /\ DOMAIN records = 1 .. Len(records) /\ DOMAIN records' = 1 .. Len(records) + 1
          /\ \A k \in 1 .. Len(records) : records'[k] = records[k]
          /\ records'[Len(records) + 1] = x
      BY <1>2, <1>3, ListGrows
    <2>2. i - 1 \in 0 .. Len(records)
      BY <1>4, <2>1
    <2>3. {j \in 1 .. (i - 1) : records'[j].remembered} = Remembered(i - 1)
      BY <1>4, <2>1, <2>2 DEF Remembered
    <2>4. CASE i = Len(records) + 1
      <3>1. Len(episodes) = (IF Len(reflections) < MaxEpisodes THEN Len(reflections)
                                                               ELSE MaxEpisodes)
        BY <1>2 DEF MemoryInvariant, NewestKept
      <3>2. i - 1 = Len(records)
        BY <1>4, <2>4
      <3>3. Len(episodes) = 0 => episodes = <<>>
        BY <1>2, EmptySeq DEF MemoryInvariant, StoreTyped
      <3> QED  BY <1>3, <1>7, <2>1, <2>3, <2>4, <3>1, <3>2, <3>3
    <2>5. CASE i # Len(records) + 1
      <3>1. i \in DOMAIN records /\ records'[i] = records[i]
        BY <1>4, <2>1, <2>5
      <3>2. LET own == Cardinality(Remembered(i - 1))
            IN  /\ records[i].before = (IF own < MaxEpisodes THEN own ELSE MaxEpisodes)
                /\ records[i].before = 0 => /\ records[i].retrieved = 0
                                            /\ records[i].consumed = 0
                                            /\ records[i].steps = MaxSteps
        BY <1>1, <1>2, <3>1 DEF MemoryOfOwnMode, Remembered
      <3> QED  BY <2>3, <3>1, <3>2
    <2> QED  BY <2>4, <2>5
  <1>10. FailuresKept'
    BY <1>3, <1>4 DEF FailuresKept
  <1>11. SummariesSound'
    BY <1>1, <1>2 DEF SummariesSound, Listed
  <1> QED  BY <1>3, <1>4, <1>5, <1>8, <1>9, <1>10, <1>11 DEF StudyInvariant

LEMMA TransferStep ==
  ASSUME StudyInvariant, RunTransferEpisode
  PROVE  StudyInvariant'
  <1>1. /\ study = "transfer" /\ index' = index + 1 /\ UNCHANGED vars
        /\ source' = source /\ target' = target /\ study' = study /\ mode' = mode
        /\ previous' = previous /\ streak' = streak /\ summaries' = summaries
    BY DEF RunTransferEpisode
  <1>2. /\ MemoryInvariant /\ StudyTyped /\ RecordsSound /\ StoredOf(source)
        /\ FailuresKept /\ SummariesSound
    BY DEF StudyInvariant
  <1>3. PICK x : /\ records' = Append(records, x)
                 /\ RecordSound(x) /\ x.streak = 0
                 /\ NoneYet \notin prior' /\ prior \subseteq prior'
    BY TransferFacts
  <1>4. Len(records) \in Nat
    BY <1>2, ListGrows DEF RecordsSound
  <1>5. RecordsSound' /\ Len(records') = Len(records) + 1
    <2>1. x.streak <= Len(records)
      BY <1>3, <1>4
    <2> QED  BY <1>1, <1>2, <1>3, <2>1, RecordsGrow
  <1>6. MemoryInvariant'
    BY <1>1, <1>2, StutterStep
  <1>7. StudyTyped' /\ StoredOf(source)'
    BY <1>1, <1>2 DEF StudyTyped, StoredOf, vars
  <1>8. OwnReflections' /\ MemoryOfOwnMode'
    BY <1>1 DEF OwnReflections, MemoryOfOwnMode
  <1>9. FailuresKept'
    BY <1>1, <1>2, <1>3, <1>4, <1>5 DEF FailuresKept
  <1>10. SummariesSound'
    BY <1>1, <1>2 DEF SummariesSound, Listed
  <1> QED  BY <1>5, <1>6, <1>7, <1>8, <1>9, <1>10 DEF StudyInvariant

LEMMA SourceStep ==
  ASSUME StudyInvariant, RunSourceEpisode
  PROVE  StudyInvariant'
  <1>1. /\ study = "source" /\ index < SourceEpisodes /\ index' = index + 1
        /\ source' = source /\ target' = target /\ study' = study /\ mode' = mode
        /\ prior' = prior /\ previous' = previous /\ streak' = streak
        /\ records' = records /\ summaries' = summaries
    BY DEF RunSourceEpisode
  <1>2. /\ MemoryInvariant /\ StudyTyped /\ RecordsSound /\ StoredOf(source)
        /\ FailuresKept /\ SummariesSound
    BY DEF StudyInvariant
  <1>3. PICK r \in Responses(MaxSteps) : Remember(source, "source", r)
    BY DEF RunSourceEpisode
  <1>4. MemoryInvariant' /\ \A k \in DOMAIN episodes' : episodes'[k].task = source
    <2>1. PICK t \in Task : t = source
      BY <1>2 DEF StudyTyped
    <2>2. index \in 0 .. Episodes + SourceEpisodes
      BY <1>1, <1>2, StudyAssumption DEF StudyTyped
    <2>3. StoredOf(t) /\ Remember(t, "source", r)
      BY <1>2, <1>3, <2>1
    <2>4. "source" \in Range(RepeatedModes) \cup {"source"} /\ MaxSteps \in {MaxSteps, FewerSteps}
      OBVIOUS
    <2>5. MemoryInvariant' /\ StoredOf(t)'
      BY <1>2, <2>2, <2>3, <2>4, RememberStep
    <2> QED  BY <2>1, <2>5 DEF StoredOf
  <1>5. StudyTyped' /\ StoredOf(source)'
    BY <1>1, <1>2, <1>4 DEF StudyTyped, StoredOf
  <1>6. RecordsSound' /\ FailuresKept' /\ SummariesSound'
    <2>1. RecordsSound'
      <3>1. records = <<>> /\ DOMAIN <<>> = {}
        BY <1>1, <1>2, EmptySeq DEF RecordsSound
      <3> QED  BY <1>1, <1>2, <3>1 DEF RecordsSound, Listed
    <2> QED  BY <1>1, <1>2, <2>1 DEF FailuresKept, SummariesSound, Listed
  <1>7. OwnReflections' /\ MemoryOfOwnMode'
    BY <1>1 DEF OwnReflections, MemoryOfOwnMode
  <1> QED  BY <1>4, <1>5, <1>6, <1>7 DEF StudyInvariant

LEMMA StartStep ==
  ASSUME StudyInvariant, StartTransfer
  PROVE  StudyInvariant'
  <1>1. /\ study = "source" /\ study' = "transfer" /\ index' = 0 /\ UNCHANGED vars
        /\ source' = source /\ target' = target /\ mode' = mode
        /\ prior' = prior /\ previous' = previous /\ streak' = streak
        /\ records' = records /\ summaries' = summaries
    BY DEF StartTransfer
  <1>2. /\ MemoryInvariant /\ StudyTyped /\ RecordsSound /\ StoredOf(source)
        /\ FailuresKept /\ SummariesSound
    BY DEF StudyInvariant
  <1>3. MemoryInvariant'
    BY <1>1, <1>2, StutterStep
  <1>4. StudyTyped' /\ StoredOf(source)'
    BY <1>1, <1>2 DEF StudyTyped, StoredOf, vars
  <1>5. RecordsSound'
    <2>1. records = <<>> /\ DOMAIN <<>> = {}
      BY <1>1, <1>2, EmptySeq DEF RecordsSound
    <2> QED  BY <1>1, <1>2, <2>1 DEF RecordsSound, Listed
  <1>6. OwnReflections' /\ MemoryOfOwnMode'
    BY <1>1 DEF OwnReflections, MemoryOfOwnMode
  <1>7. FailuresKept' /\ SummariesSound'
    BY <1>1, <1>2 DEF FailuresKept, SummariesSound, Listed
  <1> QED  BY <1>3, <1>4, <1>5, <1>6, <1>7 DEF StudyInvariant

\* The counts of a mode, of which the second is harmless.
LEMMA SummaryHolds ==
  ASSUME StudyInvariant, study \in {"ablation", "transfer"}
  PROVE  /\ ModeSummary.blocked \in Nat /\ ModeSummary.harmful \in Nat
         /\ mode = 2 => ModeSummary.harmful = 0
  <1> DEFINE blocked == {i \in DOMAIN records : records[i].blocked > 0}
             harmful == {i \in DOMAIN records : records[i].harmful}
  <1>1. RecordsSound /\ DOMAIN records = 1 .. Len(records) /\ Len(records) \in Nat
    BY ListGrows DEF StudyInvariant, RecordsSound
  <1>2. ModeSummary.blocked = Cardinality(blocked) /\ ModeSummary.harmful = Cardinality(harmful)
    BY DEF ModeSummary, Number
  <1>3. /\ blocked \in SUBSET DOMAIN records /\ harmful \in SUBSET DOMAIN records
        /\ IsFiniteSet(DOMAIN records)
    BY <1>1, UpTo
  <1>4. mode = 2 => harmful = {}
    <2>1. ASSUME mode = 2, NEW i \in DOMAIN records PROVE ~records[i].harmful
      <3>1. RecordSound(records[i]) /\ TransferModes[mode] = "governed_transfer"
        BY <1>1, <2>1 DEF RecordsSound, TransferModes
      <3> QED  BY <3>1 DEF RecordSound
    <2> QED  BY <2>1
  <1> HIDE DEF blocked, harmful
  <1>5. Cardinality(blocked) \in Nat /\ Cardinality(harmful) \in Nat
    BY <1>3, FS_Subset, FS_CardinalityType
  <1> QED  BY <1>2, <1>4, <1>5, FS_EmptySet

LEMMA EmptyHolds == EmptyBundle => MemoryInvariant'
  <1>1. Init' => MemoryInvariant'
    BY InitHolds, PTL
  <1>2. BundleValid(<<>>, <<>>, <<>>) = TRUE
    BY EmptySeq DEF BundleValid, Range
  <1>3. EmptyBundle => Init'
    BY <1>2 DEF EmptyBundle, Init, BundleValid, NoAnswer
  <1> QED  BY <1>1, <1>3

LEMMA FinishStep ==
  ASSUME StudyInvariant, FinishMode
  PROVE  StudyInvariant'
  <1>1. /\ study \in {"ablation", "transfer"}
        /\ summaries' = Append(summaries, ModeSummary)
        /\ index' = 0 /\ prior' = {} /\ previous' = NoneYet /\ streak' = 0 /\ records' = <<>>
        /\ source' = source /\ target' = target
        /\ \/ mode = 4 /\ study' = "done" /\ mode' = mode /\ UNCHANGED vars
           \/ mode # 4 /\ mode' = mode + 1 /\ study' = study /\ (EmptyBundle \/ UNCHANGED vars)
        /\ study' = "ablation" => EmptyBundle
    BY DEF FinishMode, vars
  <1>2. MemoryInvariant /\ StudyTyped /\ StoredOf(source) /\ SummariesSound
    BY DEF StudyInvariant
  <1>3. MemoryInvariant'
    BY <1>1, <1>2, EmptyHolds, StutterStep
  <1>4. StudyTyped'
    BY <1>1, <1>2 DEF StudyTyped
  <1>5. <<>> \in Seq({}) /\ Len(<<>>) = 0 /\ DOMAIN <<>> = {}
    BY EmptySeq
  <1>6. StoredOf(source)'
    <2>1. CASE EmptyBundle
      BY <1>5, <2>1 DEF EmptyBundle, StoredOf
    <2>2. CASE UNCHANGED vars
      BY <1>1, <1>2, <2>2 DEF StoredOf, vars
    <2> QED  BY <1>1, <2>1, <2>2
  <1>7. RecordsSound' /\ FailuresKept' /\ MemoryOfOwnMode'
    BY <1>1, <1>5 DEF RecordsSound, Listed, FailuresKept, MemoryOfOwnMode
  <1>8. OwnReflections'
    <2>1. Remembered(Len(records))' = {}
      BY <1>1, <1>5 DEF Remembered
    <2>2. study' = "ablation" => Len(reflections') = 0
      BY <1>1, <1>5 DEF EmptyBundle
    <2> QED  BY <2>1, <2>2, FS_EmptySet DEF OwnReflections
  <1>9. SummariesSound'
    <2> DEFINE new == ModeSummary
    <2>1. /\ new.blocked \in Nat /\ new.harmful \in Nat
          /\ mode = 2 => new.harmful = 0
      BY <1>1, SummaryHolds
    <2> HIDE DEF new
    <2>2. PICK c : c = new
      OBVIOUS
    <2>3. /\ Len(summaries) \in Nat /\ DOMAIN summaries = 1 .. Len(summaries)
          /\ Listed(summaries') /\ Len(summaries') = Len(summaries) + 1
          /\ DOMAIN summaries' = 1 .. Len(summaries) + 1
          /\ \A i \in 1 .. Len(summaries) : summaries'[i] = summaries[i]
          /\ summaries'[Len(summaries) + 1] = c
      <3>1. summaries' = Append(summaries, c) /\ Listed(summaries)
        BY <1>1, <1>2, <2>2 DEF SummariesSound, new
      <3> QED  BY <3>1, ListGrows
    <2>4. Len(summaries) = mode - 1 /\ mode \in 1 .. 4
      BY <1>1, <1>2 DEF SummariesSound, StudyTyped
    <2>5. Len(summaries') = (IF study' = "done" THEN 4 ELSE mode' - 1)
      BY <1>1, <2>3, <2>4
    <2>6. ASSUME NEW i \in DOMAIN summaries'
          PROVE  /\ summaries'[i].blocked \in Nat /\ summaries'[i].harmful \in Nat
                 /\ i = 2 => summaries'[i].harmful = 0
      <3>1. CASE i = Len(summaries) + 1
        BY <2>1, <2>2, <2>3, <2>4, <3>1
      <3>2. CASE i # Len(summaries) + 1
        <4>1. i \in DOMAIN summaries /\ summaries'[i] = summaries[i]
          BY <2>3, <3>2
        <4> QED  BY <1>2, <4>1 DEF SummariesSound
      <3> QED  BY <3>1, <3>2
    <2> QED  BY <2>3, <2>5, <2>6 DEF SummariesSound, Listed
  <1> QED  BY <1>3, <1>4, <1>6, <1>7, <1>8, <1>9 DEF StudyInvariant

(***************************************************************************)
(* The memory studies: the theorems                                        *)
(***************************************************************************)

\* The inductive invariant of the studies: what the memory holds is what the mode under
\* way has ingested, or the source, and every record and summary is of it.
THEOREM StudiesCorrect == StudySpec => []StudyInvariant
  <1>1. ASSUME StudyInvariant, [StudyNext]_allVars PROVE StudyInvariant'
    <2>1. CASE UNCHANGED allVars
      <3>1. /\ UNCHANGED vars
            /\ source' = source /\ target' = target /\ study' = study /\ mode' = mode
            /\ index' = index /\ prior' = prior /\ previous' = previous /\ streak' = streak
            /\ records' = records /\ summaries' = summaries
        BY <2>1 DEF allVars, studyVars
      <3>2. MemoryInvariant'
        BY <1>1, <3>1, StutterStep DEF StudyInvariant
      <3>3. StudyTyped' /\ StoredOf(source)' /\ RecordsSound'
        BY <1>1, <3>1 DEF StudyInvariant, StudyTyped, StoredOf, vars, RecordsSound, RecordSound,
                          Listed, Alike
      <3>4. OwnReflections' /\ MemoryOfOwnMode'
        BY <1>1, <3>1 DEF StudyInvariant, vars, OwnReflections, Remembered, MemoryOfOwnMode
      <3>5. FailuresKept' /\ SummariesSound'
        BY <1>1, <3>1 DEF StudyInvariant, FailuresKept, SummariesSound, Listed
      <3> QED  BY <3>2, <3>3, <3>4, <3>5 DEF StudyInvariant
    <2> QED  BY <1>1, <2>1, AblationStep, SourceStep, StartStep, TransferStep, FinishStep
             DEF StudyNext
  <1> QED  BY StudyInitHolds, <1>1, PTL DEF StudySpec

\* The ablation is a fair one: each mode of it sees the episodes it ingested itself and no
\* others, memory costs an episode at most a step and never for nothing, and the three
\* counts of repeated failures agree.
THEOREM AblationCorrect == StudySpec => []AblationFair
  <1>1. ASSUME StudyInvariant, TypeOK PROVE AblationFair
    <2>1. /\ StudyTyped /\ RecordsSound /\ MemoryOfOwnMode /\ SummariesSound
      BY <1>1 DEF StudyInvariant
    <2>2. \A i \in DOMAIN records : RecordSound(records[i]) /\ records[i].streak < i
      BY <2>1 DEF RecordsSound
    <2>3. \A r \in Range(records) : RecordSound(r)
      BY <2>2 DEF Range
    <2>4. StudyTypeOK
      <3>1. Len(summaries) <= 4
        BY <2>1 DEF StudyTyped, SummariesSound
      <3>2. \A r \in Range(records) : /\ r.calls \in Nat /\ r.steps \in {MaxSteps, FewerSteps}
                                      /\ r.step \in 0 .. r.steps /\ r.repeated \in 0 .. r.calls
        BY <2>3 DEF RecordSound
      <3> QED  BY <1>1, <2>1, <3>1, <3>2 DEF StudyTyped, StudyTypeOK
    <2>5. StepsCutOnce
      <3> SUFFICES ASSUME NEW r \in Range(records)
                   PROVE  /\ r.steps >= FewerSteps
                          /\ r.steps < MaxSteps => r.retrieved > 0 /\ (r.warm \/ r.consumed > 0)
        BY DEF StepsCutOnce
      <3>1. /\ r.steps \in {MaxSteps, FewerSteps}
            /\ r.steps # MaxSteps => r.retrieved > 0 /\ (r.warm \/ r.consumed > 0)
        BY <2>3 DEF RecordSound
      <3> QED  BY <3>1, StepsHold
    <2>6. FailureCountsAgree
      BY <2>2 DEF FailureCountsAgree, RecordSound
    <2> QED  BY <2>1, <2>4, <2>5, <2>6 DEF AblationFair
  <1>2. StudyInvariant => TypeOK
    BY InvariantTyped DEF StudyInvariant
  <1> QED  BY StudiesCorrect, <1>1, <1>2, PTL

\* Some of the evidence is empty: full_memory blocks no advice, governance lets nothing
\* through between tasks that have neither family nor type in common, it always preserves
\* quality, and doing without it always exposes as much harm.
THEOREM VerdictsCorrect == StudySpec => []EmptyVerdicts
  <1>1. ASSUME StudyInvariant PROVE EmptyVerdicts
    <2>1. /\ RecordsSound /\ SummariesSound
      BY <1>1 DEF StudyInvariant
    <2>2. \A r \in Range(records) : RecordSound(r)
      BY <2>1 DEF RecordsSound, Range
    <2>3. FullMemoryNeverBlocks
      BY <2>2 DEF FullMemoryNeverBlocks, RecordSound
    <2>4. GovernedTransfersLike
      BY <2>2 DEF GovernedTransfersLike, RecordSound, Alike
    <2>5. VerdictsWithoutContent
      <3> SUFFICES ASSUME study = "done", Len(summaries) = 4
                   PROVE  AblationSummary.governancePreserves /\ TransferSummary.exposesHarm
        BY DEF VerdictsWithoutContent
      <3>1. DOMAIN summaries = 1 .. 4
        BY <2>1, ListGrows DEF SummariesSound
      <3>2. /\ summaries[4].blocked \in Nat
            /\ summaries[3].harmful \in Nat /\ summaries[2].harmful = 0
        BY <2>1, <3>1 DEF SummariesSound
      <3>3. /\ (CHOOSE i \in 1 .. 4 : RepeatedModes[i] = "full_memory") = 4
            /\ (CHOOSE i \in 1 .. 4 : TransferModes[i] = "governed_transfer") = 2
            /\ (CHOOSE i \in 1 .. 4 : TransferModes[i] = "no_governance") = 3
        BY DEF RepeatedModes, TransferModes
      <3>4. /\ Of(RepeatedModes, "full_memory") = summaries[4]
            /\ Of(TransferModes, "governed_transfer") = summaries[2]
            /\ Of(TransferModes, "no_governance") = summaries[3]
        BY <3>3 DEF Of
      <3>5. /\ Of(RepeatedModes, "full_memory").blocked >= 0
            /\ Of(TransferModes, "no_governance").harmful
                  >= Of(TransferModes, "governed_transfer").harmful
        BY <3>2, <3>4
      <3>6. /\ AblationSummary.governancePreserves
                  <=> Of(RepeatedModes, "full_memory").blocked >= 0
            /\ TransferSummary.exposesHarm
                  <=> Of(TransferModes, "no_governance").harmful
                         >= Of(TransferModes, "governed_transfer").harmful
        BY Zenon DEF AblationSummary, TransferSummary
      <3> QED  BY <3>5, <3>6, Zenon
    <2> QED  BY <2>3, <2>4, <2>5 DEF EmptyVerdicts
  <1> QED  BY StudiesCorrect, <1>1, PTL
=============================================================================
