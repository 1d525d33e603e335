---------------------------- MODULE MemoryLayer ----------------------------
(***************************************************************************)
(* The memory and reflection layer (libs/memory): MemoryService turns a    *)
(* finished search into an episode, mines patterns over the episodes,      *)
(* writes a reflection, governs and forgets, and later answers a task with *)
(* the memory that resembles it.  A confidence is in hundredths; hashes of *)
(* a task, texts and timestamps are left out.                              *)
(***************************************************************************)
EXTENDS Lists, SequencesExt

CONSTANTS
    Task,                \* the design tasks
    FamilyOf(_),         \* circuit_family of a task
    TypeOf(_),           \* task_type of a task
    SharedProfile(_, _), \* the part of the overlap of two tasks that compares their
                         \* constraints, environment, evaluation and shape, in hundredths
    Ingestions,          \* pairs of a finished search and its verification result
    NoVerification,
    NoCandidate,
    MaxEpisodes, MaxPatterns,     \* ForgettingPolicy
    StaleAfter, ExpireAfter,
    MinSupport,          \* ConsolidationPolicy.minimum_pattern_support
    TopK,                \* RetrievalPolicySpec.top_k
    IngestBound          \* bound on the ingestions of a behaviour

\* A limit of zero would keep everything: records[-0:] is the whole list.
ASSUME MemoryAssumption ==
    /\ MaxEpisodes \in Nat \ {0} /\ MaxPatterns \in Nat \ {0}
    /\ StaleAfter \in Nat /\ ExpireAfter \in Nat /\ MinSupport \in Nat \ {0}
    /\ TopK \in Nat \ {0} /\ IngestBound \in Nat
    /\ \A t, u \in Task : SharedProfile(t, u) \in 0..45
    /\ \A t \in Task : SharedProfile(t, t) = 45

\* What a finished search and a verification result have in them.  A search starts with
\* a trace of its initialization (initialize_search), so that it always has one.
SearchOK(s) ==
    /\ s.episode \in STRING /\ s.task \in Task /\ s.phase \in STRING
    /\ s.failures \in Seq(STRING)
    /\ s.traces \in Seq([tag: STRING, progress: BOOLEAN, chain: Seq(STRING)]) \ {<<>>}
    /\ s.pressure \in Nat /\ s.best \in STRING /\ s.bestInfeasible \in STRING
VerificationOK(v) ==
    v.unsatisfied \in Seq(STRING) /\ v.class \in STRING /\ v.candidate \in STRING

ASSUME IngestionAssumption ==
    \A i \in Ingestions :
        SearchOK(i[1]) /\ (i[2] = NoVerification \/ VerificationOK(i[2]))

VARIABLES
    episodes,     \* episode_records
    patterns,     \* pattern_records, one for each pattern type and trigger
    reflections,  \* reflection_records
    valid,        \* validation_status.is_valid
    answer        \* the IngestionResponse or RetrievalResult of the last call

vars == <<episodes, patterns, reflections, valid, answer>>

NoAnswer == [call |-> "none"]

(***************************************************************************)
(* Records                                                                 *)
(***************************************************************************)

PatternType == {"failure_pattern", "success_pattern", "calibration_pattern",
                "search_pattern", "budget_pattern", "robustness_pattern"}
Freshness == {"fresh", "stale", "expired"}
Governance == {"active", "candidate", "conflicted", "forgotten"}
Layer == {"layer2", "layer3", "layer4", "layer5"}
AdviceType == {"initialization_hint", "search_adjustment", "trust_adjustment",
               "validation_focus"}
Outcome == {"verified_success", "partial_success", "failure", "budget_exhausted",
            "trust_blocked"}

Percent == 0..100

\* An EpisodeMemoryRecord with its summaries.
EpisodeOK(e) ==
    /\ e.task \in Task
    /\ Len(e.failures) <= 5 /\ Len(e.effective) <= 4
    /\ e.outcome \in Outcome
    /\ e.evidence \in Nat /\ e.confidence \in Percent

\* The id of a record is a hash of the episode id and of the task.
Id == STRING \X Task

\* A trigger is a failure, an action family, a phase, or one that the miner names; a
\* payload is a failure, a candidate, or one that the summarizer names.
Trigger == STRING \cup {"trust_disagreement", "high_budget_pressure", "robust_success"}
Payload == STRING \cup {"retain_diversity", "tighten", "boundary_constraints"}

Pattern == [type: PatternType, trigger: Trigger, families: SUBSET {FamilyOf(t) : t \in Task},
            types: SUBSET {TypeOf(t) : t \in Task}, refs: SUBSET Id, first: Id,
            count: Nat, confidence: Percent, freshness: Freshness,
            governance: Governance]

Update == [layer: Layer, type: AdviceType, payload: Payload]

\* A FeedbackAdvice.
Advice == [about: Id, families: SUBSET {FamilyOf(t) : t \in Task},
           types: SUBSET {TypeOf(t) : t \in Task}, layer: Layer, type: AdviceType,
           payload: Payload, confidence: Percent, evidence: Nat]

\* A RetrievalResult with the advice that goes with it.
RetrievalOK(a) ==
    /\ a.task \in Task /\ a.precision \in Nat /\ a.precision <= 10000
    /\ a.advice \subseteq Advice /\ \A p \in Range(a.patterns) : p \in Pattern

\* A ReflectionReport.
ReflectionOK(r) ==
    /\ r.task \in Task /\ r.updates \in Seq(Update)
    /\ r.evidence \in Nat /\ r.confidence \in Percent

OrderedUnique(s) == Chosen(s, {i \in DOMAIN s : \A j \in 1..(i - 1) : s[j] # s[i]})
Capped(n) == IF n > 95 THEN 95 ELSE n
Decayed(n, by) == IF n > by THEN n - by ELSE 0

\* sorted by a score for every index, the best first, cut off at the first k.
Best(s, score, k) == FirstOf(k, SortedBy(s, [i \in DOMAIN s |-> 0 - score[i]]))

(***************************************************************************)
(* Consolidation: an episode out of a search and its verification          *)
(***************************************************************************)

DominantFailureModes(s, v) ==
    FirstOf(5, OrderedUnique(
        s.failures \o (IF v = NoVerification THEN <<>>
                       ELSE v.unsatisfied \o (IF v.class = "none" THEN <<>>
                                              ELSE <<v.class>>))))

Feasible(v) ==
    v # NoVerification /\ v.feasibility \in {"feasible_nominal", "feasible_certified"}

\* A trace with actions, that made progress and is of a helpful kind.
Effective(trace) ==
    /\ trace.chain # <<>>
    /\ trace.progress
    /\ trace.tag \in {"candidate_evaluated", "phase_advanced",
                      "simulation_feedback_ingested"}

OutcomeOf(s, v) ==
    IF Feasible(v) THEN "verified_success"
    ELSE IF v # NoVerification /\ v.feasibility = "near_feasible" THEN "partial_success"
    ELSE IF s.alerts /\ s.phase = "terminated" THEN "trust_blocked"
    ELSE IF s.pressure >= 98 THEN "budget_exhausted" ELSE "failure"

\* consolidate_episode.  A search that is ingested twice makes two records with one id.
Consolidated(s, v) ==
    [id         |-> <<s.episode, s.task>>,
     task       |-> s.task,
     failures   |-> DominantFailureModes(s, v),
     effective  |-> FirstOf(4, Chosen(s.traces, {i \in DOMAIN s.traces : Effective(s.traces[i])})),
     phase      |-> s.phase,
     disagrees  |-> v # NoVerification /\ v.disagrees,
     pressure   |-> s.pressure,
     robust     |-> v # NoVerification /\ v.robustness = "robust_certified",
     outcome    |-> OutcomeOf(s, v),
     best       |-> IF v # NoVerification THEN v.candidate ELSE s.best,
     seed       |-> IF s.best # NoCandidate THEN s.best ELSE s.bestInfeasible,
     evidence   |-> Len(s.traces) + (IF v = NoVerification THEN 0 ELSE 2),
     confidence |-> IF v = NoVerification THEN 65 ELSE 85]

(***************************************************************************)
(* Mining, reflection                                                      *)
(***************************************************************************)

\* The groups an episode is appended to, one entry for every time it is.
Mentions(e) ==
    [i \in DOMAIN e.failures |-> <<"failure_pattern", e.failures[i]>>]
    \o [i \in DOMAIN e.effective |-> <<"success_pattern", e.effective[i].chain[1]>>]
    \o << <<"search_pattern", e.phase>> >>
    \o (IF e.disagrees THEN << <<"calibration_pattern", "trust_disagreement">> >> ELSE <<>>)
    \o (IF e.pressure >= 80 THEN << <<"budget_pattern", "high_budget_pressure">> >> ELSE <<>>)
    \o (IF e.robust THEN << <<"robustness_pattern", "robust_success">> >> ELSE <<>>)

\* Of what each episode mentions, every append to a group: an episode and a mention.
Appends(said) == UNION {{i} \X DOMAIN said[i] : i \in DOMAIN said}
Key(said, at) == said[at[1]][at[2]]
Group(said, key) ==
    UNION {{i} \X {j \in DOMAIN said[i] : said[i][j] = key} : i \in DOMAIN said}
Earlier(a, b) == a[1] < b[1] \/ (a[1] = b[1] /\ a[2] < b[2])

\* The appends that open a group, of those that get enough.
Openings(said) ==
    {at \in Appends(said) :
        LET group == Group(said, Key(said, at))
        IN  Cardinality(group) >= MinSupport /\ ~\E by \in group : Earlier(by, at)}

\* What the group opened there becomes.
PatternOf(eps, said, at) ==
    LET group == Group(said, Key(said, at))
        by    == {append[1] : append \in group}
        n     == Cardinality(group)
    IN  [type |-> Key(said, at)[1], trigger |-> Key(said, at)[2],
         families |-> {FamilyOf(eps[i].task) : i \in by},
         types |-> {TypeOf(eps[i].task) : i \in by},
         refs |-> {eps[i].id : i \in by},
         first |-> eps[at[1]].id,
         count |-> n,
         confidence |-> Capped(45 + 10 * n),
         freshness |-> "fresh", governance |-> "active"]

\* mine_patterns: the groups with enough mentions, in the order they were opened.
Mine(eps) ==
    LET said  == [i \in DOMAIN eps |-> Mentions(eps[i])]
        open  == Openings(said)
        place == [at \in open |-> 1 + Cardinality({by \in open : Earlier(by, at)})]
    IN  [n \in 1..Cardinality(open) |->
            PatternOf(eps, said, CHOOSE at \in open : place[at] = n)]

Focus(e, otherwise) == IF e.failures = <<>> THEN otherwise ELSE e.failures[1]

\* recommended_policy_updates of build_reflection_report.
PolicyUpdates(e) ==
    << [layer |-> "layer4", type |-> "search_adjustment",
        payload |-> Focus(e, "retain_diversity")] >>
    \o (IF e.disagrees
        THEN << [layer |-> "layer3", type |-> "trust_adjustment", payload |-> "tighten"] >>
        ELSE <<>>)
    \o (IF e.outcome # "verified_success"
        THEN << [layer |-> "layer5", type |-> "validation_focus",
                 payload |-> Focus(e, "boundary_constraints")] >>
        ELSE << [layer |-> "layer2", type |-> "initialization_hint", payload |-> e.best] >>)

Reflection(e, mined) ==
    [task       |-> e.task,
     scope      |-> e.id,
     updates    |-> PolicyUpdates(e),
     evidence   |-> e.evidence,
     confidence |-> Capped(55 + 5 * Len(mined)
                              + (IF e.outcome = "verified_success" THEN 10 ELSE 0))]

\* emit_feedback: one advice for each update, in the scope of the first pattern, or
\* else of the episode.
Feedback(e, scope, r) ==
    {[about |-> e.id, families |-> scope.families, types |-> scope.types,
      layer |-> r.updates[i].layer, type |-> r.updates[i].type,
      payload |-> r.updates[i].payload, confidence |-> r.confidence,
      evidence |-> IF r.evidence > 0 THEN r.evidence ELSE e.evidence] :
        i \in DOMAIN r.updates}
OwnScope(e) == [families |-> {FamilyOf(e.task)}, types |-> {TypeOf(e.task)}]

(***************************************************************************)
(* Governance, forgetting, validation                                      *)
(***************************************************************************)

\* apply_quality_governance for one of the mined patterns.
Governed(p, mined) ==
    LET weak == p.count < MinSupport
        conflicts == \E q \in Range(mined) :
                        q # p /\ q.type = p.type /\ q.trigger = p.trigger
    IN  [p EXCEPT !.governance = IF conflicts THEN "conflicted"
                                 ELSE IF weak \/ p.confidence < 55 THEN "candidate" ELSE @,
                  !.confidence = IF weak /\ @ > 49 THEN 49 ELSE @]

\* Mutant: a bounded store keeps all of its records.
Unbounded(n, s) == s

\* list[-n:], for n at least one.
Newest(n, s) == IF Len(s) <= n THEN s ELSE SubSeq(s, Len(s) - n + 1, Len(s))

\* The sort key of apply_forgetting: active, then support, then confidence.
Strength(p) ==
    (IF p.governance = "active" THEN 1000000 ELSE 0) + 1000 * p.count + p.confidence

\* The loop of apply_forgetting, for a store of that many episodes.
Aged(p, total) ==
    LET gap == IF total > p.count THEN total - p.count ELSE 0
    IN  IF gap >= ExpireAfter
        THEN [p EXCEPT !.freshness = "expired", !.governance = "forgotten",
                       !.confidence = Decayed(@, 10)]
        ELSE IF gap >= StaleAfter
        THEN [p EXCEPT !.freshness = "stale", !.confidence = Decayed(@, 5)]
        ELSE p

\* Mutant: patterns age by the number of patterns.
PatternsAgedByPatterns(mined, total) ==
    [i \in DOMAIN mined |-> Aged(Governed(mined[i], mined), Len(mined))]

PatternsAfter(mined, total) ==
    LET governed == [i \in DOMAIN mined |-> Governed(mined[i], mined)]
        kept == Newest(MaxPatterns, SortedBy(governed,
                                             [i \in DOMAIN governed |-> Strength(governed[i])]))
    IN  [i \in DOMAIN kept |-> Aged(kept[i], total)]

Stored(eps) == {eps[i].id : i \in DOMAIN eps}

\* Mutant: reflections are not looked at.
BundleValidWithoutReflections(eps, pats, refls) ==
    /\ \A i \in DOMAIN eps : eps[i].evidence > 0
    /\ \A p \in Range(pats) : p.refs # {} /\ p.refs \subseteq Stored(eps)

\* validate_memory_bundle: the errors, which alone decide is_valid.
BundleValid(eps, pats, refls) ==
    /\ \A i \in DOMAIN eps : eps[i].evidence > 0
    /\ \A p \in Range(pats) : p.refs # {} /\ p.refs \subseteq Stored(eps)
    /\ \A i \in DOMAIN refls : refls[i].evidence > 0 /\ refls[i].scope \in Stored(eps)

(***************************************************************************)
(* Operations                                                              *)
(***************************************************************************)

\* compile_memory_bundle: an empty bundle, which has nothing to be wrong about.
Init ==
    /\ episodes = <<>> /\ patterns = <<>> /\ reflections = <<>>
    /\ valid = BundleValid(<<>>, <<>>, <<>>)
    /\ answer = NoAnswer

\* MemoryService.ingest_episode.  The patterns are mined before the oldest episode is
\* dropped, and replace those there were; the reflections are only added to.
IngestEpisode(s, v) ==
    LET episode    == Consolidated(s, v)
        all        == Append(episodes, episode)
        mined      == Mine(all)
        reflection == Reflection(episode, mined)
        kept       == Newest(MaxEpisodes, all)
    IN  /\ Len(reflections) < IngestBound
        /\ episodes' = kept
        /\ patterns' = PatternsAfter(mined, Len(kept))
        /\ reflections' = Append(reflections, reflection)
        /\ valid' = BundleValid(episodes', patterns', reflections')
        /\ answer' = [call |-> "ingest", task |-> s.task, patterns |-> mined,
                      advice |-> Feedback(episode, IF mined = <<>> THEN OwnScope(episode)
                                                   ELSE mined[1], reflection)]

(* Retrieval: scores in ten-thousandths. *)

Indicator(b) == IF b THEN 1 ELSE 0
SignatureOverlap(t, u) ==
    35 * Indicator(FamilyOf(t) = FamilyOf(u)) + 20 * Indicator(TypeOf(t) = TypeOf(u))
    + SharedProfile(t, u)
EpisodeScore(t, e) ==
    50 * SignatureOverlap(t, e.task)
    + 300 * (IF e.evidence < 5 THEN e.evidence ELSE 5)
    + 1500 * Indicator(FamilyOf(t) = FamilyOf(e.task))
    + 1000 * Indicator(TypeOf(t) = TypeOf(e.task))
PatternScore(t, p) ==
    5000 * Indicator(FamilyOf(t) \in p.families) + 2500 * Indicator(TypeOf(t) \in p.types)
    + 25 * p.confidence
MinimumScore == 2500

EpisodeHits(t) ==
    Chosen(episodes, {i \in DOMAIN episodes : EpisodeScore(t, episodes[i]) >= MinimumScore})

\* Mutant: what governance says is not asked.
PatternHitsUngoverned(t) ==
    Chosen(patterns, {i \in DOMAIN patterns : PatternScore(t, patterns[i]) >= MinimumScore})

PatternHits(t) ==
    Chosen(patterns, {i \in DOMAIN patterns :
                        /\ PatternScore(t, patterns[i]) >= MinimumScore
                        /\ patterns[i].governance \in {"active", "candidate"}})
ReflectionHits(t) ==
    Chosen(reflections, {i \in DOMAIN reflections :
                           \E e \in Range(episodes) : /\ e.id = reflections[i].scope
                                                      /\ FamilyOf(e.task) = FamilyOf(t)})

\* episode_lookup: of the records with one id the last is found.
Lookup(id) == episodes[Max({i \in DOMAIN episodes : episodes[i].id = id})]

\* What a pattern hit advises: only its first episode is asked, if it is still stored,
\* with the first reflection on it.
PatternAdvice(p) ==
    LET on == Chosen(reflections, {i \in DOMAIN reflections : reflections[i].scope = p.first})
    IN  IF p.first \in Stored(episodes) /\ on # <<>>
        THEN Feedback(Lookup(p.first), p, on[1]) ELSE {}

\* reflection_lookup: of the reflections with one id, which is of their task and their
\* episode, the last is found.
ReflectionAdvice(hit) ==
    LET same == {i \in DOMAIN reflections : /\ reflections[i].task = hit.task
                                            /\ reflections[i].scope = hit.scope}
        r    == reflections[Max(same)]
    IN  IF r.scope \in Stored(episodes)
        THEN Feedback(Lookup(r.scope), OwnScope(Lookup(r.scope)), r) ELSE {}

\* retrieve, and the advice of MemoryService.retrieve_relevant_memory.
RetrievalResult(t) ==
    LET eh == EpisodeHits(t)
        ph == PatternHits(t)
        rh == ReflectionHits(t)
        es == Best(eh, [i \in DOMAIN eh |-> EpisodeScore(t, eh[i])], TopK)
        ps == Best(ph, [i \in DOMAIN ph |-> PatternScore(t, ph[i])], TopK)
        rs == Best(rh, [i \in DOMAIN rh |-> rh[i].confidence], TopK)
    IN  [call |-> "retrieve", task |-> t, patterns |-> ps,
         episodes |-> [i \in DOMAIN es |-> es[i].id],
         precision |-> IF es = <<>> THEN 0 ELSE EpisodeScore(t, es[1]),
         advice |-> (UNION {PatternAdvice(p) : p \in Range(ps)})
                    \cup (UNION {ReflectionAdvice(r) : r \in Range(rs)})]

\* The bundle is left alone.
RetrieveRelevantMemory(t) ==
    /\ answer' = RetrievalResult(t)
    /\ UNCHANGED <<episodes, patterns, reflections, valid>>

Next ==
    \/ \E i \in Ingestions : IngestEpisode(i[1], i[2])
    \/ \E t \in Task : RetrieveRelevantMemory(t)

Spec == Init /\ [][Next]_vars

(***************************************************************************)
(* What must hold                                                          *)
(***************************************************************************)

TypeOK ==
    /\ \A i \in DOMAIN episodes : EpisodeOK(episodes[i])
    /\ Len(episodes) <= MaxEpisodes
    /\ \A p \in Range(patterns) : p \in Pattern
    /\ Len(patterns) <= MaxPatterns
    /\ \A i \in DOMAIN reflections : ReflectionOK(reflections[i])
    /\ valid \in BOOLEAN
    /\ answer.call = "retrieve" => RetrievalOK(answer)

\* The store is bounded by dropping the oldest episodes and nothing else: what is kept
\* are the episodes of the newest reflections, in their order.
NewestKept ==
    /\ Len(episodes) = (IF Len(reflections) < MaxEpisodes THEN Len(reflections)
                                                          ELSE MaxEpisodes)
    /\ \A i \in DOMAIN episodes :
          reflections[Len(reflections) - Len(episodes) + i].scope = episodes[i].id

\* Forgetting is what makes a bundle invalid, and only the reflections left behind: a
\* bundle is valid exactly while every reflection is on an episode still stored.
ValidIffRemembered ==
    valid <=> \A j \in DOMAIN reflections : reflections[j].scope \in Stored(episodes)

\* A pattern can name an episode that is gone, but no more than the one dropped at the
\* last ingestion, for the patterns are mined anew at each.
PatternsDangleByOne ==
    \A p \in Range(patterns) :
        /\ Cardinality(p.refs \ Stored(episodes)) <= 1
        /\ p.refs \subseteq {reflections[j].scope : j \in DOMAIN reflections}

\* Forgetting and mining keep in step: what is stored is the newest, a bundle knows
\* when it has forgotten, and no reference dangles for longer than one ingestion.
ForgettingSound == NewestKept /\ ValidIffRemembered /\ PatternsDangleByOne

\* The memory advises a task only from an episode it still has and can give evidence
\* for, in a scope that covers the family or the type of the task, and never on a
\* pattern that governance has forgotten.
AdviceGrounded ==
    answer.call = "retrieve" =>
        /\ \A a \in answer.advice :
              /\ a.about \in Stored(episodes) /\ a.evidence > 0
              /\ FamilyOf(answer.task) \in a.families \/ TypeOf(answer.task) \in a.types
        /\ \A p \in Range(answer.patterns) : p \in Range(patterns) /\ p.governance # "forgotten"

\* A task that is like a stored episode in family and type is not answered as if it
\* were new: something is recalled, with less than even negative-transfer risk.
RecallsOwnKind ==
    /\ answer.call = "retrieve"
    /\ \E i \in DOMAIN episodes : /\ FamilyOf(episodes[i].task) = FamilyOf(answer.task)
                                 /\ TypeOf(episodes[i].task) = TypeOf(answer.task)
    => answer.precision > 5000

\* What the memory says of a task rests on what it has, and says something when it
\* has something.
RetrievalSound == AdviceGrounded /\ RecallsOwnKind

Age(p) == CASE p.freshness = "fresh" -> 0 [] p.freshness = "stale" -> 1 [] OTHER -> 2

\* A pattern does not get any fresher without new support, however often it is mined
\* anew, governed and aged.
NoFreshnessWithoutSupport ==
    [][\A p \in Range(patterns), q \in Range(patterns') :
          p.type = q.type /\ p.trigger = q.trigger /\ q.count <= p.count
              => Age(q) >= Age(p)]_vars
=============================================================================
