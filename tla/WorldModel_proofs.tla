-------------------------- MODULE WorldModel_proofs --------------------------
(***************************************************************************)
(* Proofs about WorldModel, for every task, every bundle of actions and    *)
(* every truth: that rollouts keep to the state they start from, that what *)
(* is learned from truths stays sound, that predictions say how far they   *)
(* can be trusted, and that every value is of its schema.                  *)
(***************************************************************************)
EXTENDS WorldModel, SequenceTheorems, FiniteSetTheorems, WellFoundedInduction, TLAPS

(***************************************************************************)
(* Numbers                                                                 *)
(***************************************************************************)

\* Some number of a set is the least; what passes from each number to the next holds of
\* every number.
LEMMA Least ==
  ASSUME NEW S \in SUBSET Nat, S # {}
  PROVE  \E n \in S : \A m \in S : n <= m
  <1> DEFINE R == {ss \in Nat \X Nat : ss[1] < ss[2]}
  <1>1. IsWellFoundedOn(R, Nat)
    BY NatLessThanWellFounded DEF OpToRel
  <1>2. \E x \in S : \A y \in S : ~ (<<y, x>> \in R)
    <2> HIDE DEF R
    <2> QED  BY <1>1, WFMin
  <1>3. PICK x \in S : \A y \in S : ~ (<<y, x>> \in R)
    BY <1>2
  <1>4. ASSUME NEW y \in S PROVE x <= y
    <2>1. <<y, x>> \in Nat \X Nat /\ ~(<<y, x>> \in R)
      BY <1>3
    <2> QED  BY <2>1
  <1> QED  BY <1>4

LEMMA Induct ==
  ASSUME NEW S, 0 \in S, \A n \in Nat : n \in S => n + 1 \in S
  PROVE  \A n \in Nat : n \in S
  <1> SUFFICES ASSUME NEW k \in Nat, k \notin S PROVE FALSE
    OBVIOUS
  <1> DEFINE B == {n \in Nat : n \notin S}
  <1>1. B \in SUBSET Nat /\ B # {}
    OBVIOUS
  <1>2. PICK n \in B : \A m \in B : n <= m
    <2> HIDE DEF B
    <2> QED  BY <1>1, Least
  <1>3. n \in Nat /\ n \notin S /\ n # 0
    BY <1>2
  <1>4. n - 1 \in Nat /\ n - 1 \notin B
    BY <1>2, <1>3
  <1>5. (n - 1) + 1 \in S
    BY <1>4
  <1> QED  BY <1>3, <1>5

(***************************************************************************)
(* States and rollouts                                                     *)
(***************************************************************************)

ActionIds == {a.id : a \in DesignActions}

\* A state tells its parameters in its id, has a history of known actions, and shows
\* what it does not owe to a simulation as its own proxies.
SoundState(s) ==
    /\ {"id", "parameters", "load", "fidelity", "observed", "history", "uncertainty",
        "provenance"} \subseteq DOMAIN s
    /\ s.id[3] = s.parameters
    /\ s.history \in [actions : Seq(ActionIds), depth : Nat]
    /\ s.provenance.origin # "real_simulation" =>
          s.uncertainty.source = "prediction" /\ s.observed = Projected(s.parameters, s.load)

\* A rollout passes through the states c, each made from the one before it.
Passes(r, c, m) ==
    /\ DOMAIN r.steps = 1 .. m /\ Len(r.steps) = m
    /\ c[0] = r.start /\ c[m] = r.terminal
    /\ \A k \in 1 .. m : /\ r.steps[k].action \in DesignActions
                         /\ Admissible(r.steps[k].action)
                         /\ r.steps[k].transition.next = c[k]
                         /\ c[k] = NextState(c[k - 1], r.steps[k].action)
SoundRollout(r) == SoundState(r.start) /\ \E m \in Nat : \E c : Passes(r, c, m)

\* What the service remembers a rollout by finds a state of the parameters it began with.
Remembered ==
    /\ \A r \in rollouts : PathKey(r) \in DOMAIN initials
    /\ \A key \in DOMAIN initials : initials[key].id = key[1] /\ SoundState(initials[key])

RolloutInvariant ==
    /\ \A s \in states : SoundState(s)
    /\ \A r \in rollouts : SoundRollout(r)
    /\ Remembered

\* A state that is built, and one that is made by an action, is sound.
LEMMA BuiltSound ==
  ASSUME NEW parameters, NEW load, NEW fidelity, NEW provenance,
         NEW history \in [actions : Seq(ActionIds), depth : Nat]
  PROVE  /\ SoundState(BuildWorldState(parameters, load, fidelity, history, provenance))
         /\ BuildWorldState(parameters, load, fidelity, history, provenance).parameters
              = parameters
         /\ BuildWorldState(parameters, load, fidelity, history, provenance).history = history
         /\ BuildWorldState(parameters, load, fidelity, history, provenance).provenance
              = provenance
  BY DEF BuildWorldState, SoundState, StateId

LEMMA NextSound ==
  ASSUME NEW s, SoundState(s), NEW a \in DesignActions
  PROVE  /\ SoundState(NextState(s, a))
         /\ NextState(s, a).parameters = Applied(s.parameters, a)
         /\ NextState(s, a).history = [actions |-> Append(s.history.actions, a.id),
                                       depth |-> s.history.depth + 1]
         /\ NextState(s, a).provenance.origin = "model_rollout"
  <1> DEFINE history == [actions |-> Append(s.history.actions, a.id),
                         depth |-> s.history.depth + 1]
             fidelity == IF a.operator = "promote_fidelity" THEN "partial_simulation"
                         ELSE s.fidelity
             provenance == Provenance("predicted", s.provenance.artifacts)
  <1>1. history \in [actions : Seq(ActionIds), depth : Nat]
    BY DEF SoundState, ActionIds
  <1>2. NextState(s, a) =
           BuildWorldState(Applied(s.parameters, a), s.load, fidelity, history, provenance)
    BY DEF NextState
  <1>3. provenance.origin = "model_rollout"
    BY DEF Provenance
  <1> DEFINE next == BuildWorldState(Applied(s.parameters, a), s.load, fidelity, history,
                                     provenance)
  <1> HIDE DEF fidelity, provenance, history
  <1>4. /\ SoundState(next) /\ next.parameters = Applied(s.parameters, a)
        /\ next.history = history /\ next.provenance = provenance
    BY <1>1, BuiltSound
  <1> HIDE DEF next
  <1> QED  BY <1>2, <1>3, <1>4 DEF history, next

\* The recursion of Walk: what it makes of the first k actions, for every k.
WalkFrom(w, b, start, actions, n) ==
    w = [k \in 0 .. n |-> IF k = 0 THEN [current |-> start, steps |-> <<>>]
                          ELSE StepOn(b, start, w[k - 1], actions[k])]

LEMMA WalkExists ==
  ASSUME NEW b, NEW start, NEW actions, NEW n \in Nat
  PROVE  \E w : WalkFrom(w, b, start, actions, n)
  <1> DEFINE S == {m \in Nat : \E w : WalkFrom(w, b, start, actions, m)}
             First == [current |-> start, steps |-> <<>>]
  <1>1. 0 \in S
    <2>1. WalkFrom([k \in 0 .. 0 |-> First], b, start, actions, 0)
      BY DEF WalkFrom
    <2> QED  BY <2>1
  <1>2. ASSUME NEW m \in Nat, m \in S PROVE m + 1 \in S
    <2>1. PICK w : WalkFrom(w, b, start, actions, m)
      BY <1>2
    <2> DEFINE last == StepOn(b, start, w[m], actions[m + 1])
               more == [k \in 0 .. m + 1 |-> IF k = m + 1 THEN last ELSE w[k]]
    <2>2. ASSUME NEW k \in 0 .. m + 1
          PROVE  more[k] = (IF k = 0 THEN First ELSE StepOn(b, start, more[k - 1], actions[k]))
      <3>1. CASE k = m + 1
        <4>1. more[k] = last /\ more[k - 1] = w[m] /\ k # 0
          BY <3>1
        <4> HIDE DEF more
        <4> QED  BY <3>1, <4>1
      <3>2. CASE k # m + 1
        <4>1. k \in 0 .. m /\ more[k] = w[k] /\ (k # 0 => more[k - 1] = w[k - 1])
          BY <3>2
        <4>2. w[k] = (IF k = 0 THEN First ELSE StepOn(b, start, w[k - 1], actions[k]))
          BY <2>1, <4>1 DEF WalkFrom
        <4> HIDE DEF more
        <4> QED  BY <4>1, <4>2
      <3> QED  BY <3>1, <3>2
    <2>3. more = [k \in 0 .. m + 1 |-> IF k = 0 THEN First
                                       ELSE StepOn(b, start, more[k - 1], actions[k])]
      <3>1. more = [k \in 0 .. m + 1 |-> more[k]]
        OBVIOUS
      <3> HIDE DEF more
      <3> QED  BY <2>2, <3>1
    <2> HIDE DEF more
    <2> QED  BY <2>3 DEF WalkFrom
  <1>3. \A m \in Nat : m \in S
    <2> HIDE DEF S
    <2> QED  BY <1>1, <1>2, Induct
  <1> QED  BY <1>3

LEMMA WalkHolds ==
  ASSUME NEW b, NEW start, NEW actions, NEW n \in Nat
  PROVE  \E w : /\ WalkFrom(w, b, start, actions, n)
                /\ Walk(b, start, actions, n) = w[n]
  <1> DEFINE w == CHOOSE f : WalkFrom(f, b, start, actions, n)
  <1>1. WalkFrom(w, b, start, actions, n)
    BY WalkExists
  <1>2. Walk(b, start, actions, n) = w[n]
    BY DEF Walk, WalkFrom
  <1> HIDE DEF w
  <1> QED  BY <1>1, <1>2

\* A list that is continued by its next member.
LEMMA AppendNext ==
  ASSUME NEW n \in Nat, NEW f
  PROVE  Append([i \in 1 .. n |-> f[i]], f[n + 1]) = [i \in 1 .. n + 1 |-> f[i]]
  <1> DEFINE X == {f[i] : i \in 1 .. n + 1}
             s == [i \in 1 .. n |-> f[i]]
  <1>1. \A i \in 1 .. n + 1 : f[i] \in X
    OBVIOUS
  <1>2. s \in [1 .. n -> X] /\ f[n + 1] \in X
    BY <1>1
  <1>3. s \in Seq(X) /\ Len(s) = n
    <2> HIDE DEF X
    <2>1. s \in Seq(X)
      BY <1>2, SeqDef
    <2> QED  BY <2>1
  <1>4. Append(s, f[n + 1]) = [i \in 1 .. n + 1 |-> IF i = n + 1 THEN f[n + 1] ELSE s[i]]
    <2> HIDE DEF X, s
    <2> QED  BY <1>2, <1>3
  <1>5. \A i \in 1 .. n + 1 : (IF i = n + 1 THEN f[n + 1] ELSE s[i]) = f[i]
    OBVIOUS
  <1> HIDE DEF s
  <1> QED  BY <1>4, <1>5 DEF s

\* Every rollout passes through the states its actions make.
LEMMA RolledOutSound ==
  ASSUME NEW b, NEW start, SoundState(start), NEW actions \in Rollouts, NEW horizon \in Nat,
         \A n \in 1 .. Taken(actions, horizon) : Admissible(actions[n])
  PROVE  /\ SoundRollout(RolledOut(b, start, actions, horizon))
         /\ RolledOut(b, start, actions, horizon).start = start
  <1> DEFINE length == LengthOf(actions, horizon)
             m == Taken(actions, horizon)
             r == RolledOut(b, start, actions, horizon)
  <1>1. actions \in Seq(DesignActions)
    BY RolloutAssumption
  <1>2. /\ m \in Nat /\ m <= Len(actions)
        /\ \A k \in 1 .. m : actions[k] \in DesignActions /\ Admissible(actions[k])
    <2>1. m \in Nat /\ m <= Len(actions) /\ Len(actions) \in Nat
      BY <1>1 DEF Taken, LengthOf
    <2>2. \A k \in 1 .. m : Admissible(actions[k])
      OBVIOUS
    <2>3. \A k \in 1 .. m : k \in DOMAIN actions
      BY <1>1, <2>1
    <2> HIDE DEF m
    <2> QED  BY <1>1, <2>1, <2>2, <2>3
  <1>3. r = RolloutAfter(b, start, length, Walk(b, start, actions, m))
    BY DEF RolledOut
  <1> HIDE DEF m, length
  <1>4. PICK w : WalkFrom(w, b, start, actions, m) /\ Walk(b, start, actions, m) = w[m]
    BY <1>2, WalkHolds
  <1>5. /\ r.start = start /\ r.terminal = w[m].current /\ r.steps = w[m].steps
    BY <1>3, <1>4 DEF RolloutAfter
  <1> HIDE DEF r
  <1>6. w[0] = [current |-> start, steps |-> <<>>]
    BY <1>2, <1>4 DEF WalkFrom
  <1>7. ASSUME NEW k \in 1 .. m PROVE w[k] = StepOn(b, start, w[k - 1], actions[k])
    BY <1>2, <1>4 DEF WalkFrom
  <1> DEFINE tr(k) == Transition(b, w[k - 1].current, actions[k])
             step == [k \in 1 .. m |-> [action |-> actions[k], transition |-> tr(k),
                                        simulation |-> SimulationValue(tr(k).metrics)]]
             c == [k \in 0 .. m |-> w[k].current]
             Good(k) == w[k].steps = [i \in 1 .. k |-> step[i]]
             S == {k \in Nat : k <= m => Good(k)}
  <1>8. ASSUME NEW k \in 1 .. m
        PROVE  /\ w[k].steps = Append(w[k - 1].steps, step[k])
               /\ w[k].current = NextState(w[k - 1].current, actions[k])
               /\ step[k].transition.next = w[k].current
    <2>1. w[k] = WithStep(b, w[k - 1], actions[k], tr(k))
      BY <1>7 DEF StepOn
    <2>2. tr(k).next = NextState(w[k - 1].current, actions[k])
      BY DEF Transition, TransitionTo
    <2> HIDE DEF tr
    <2> QED  BY <2>1, <2>2 DEF WithStep
  <1>9. Good(m)
    <2>1. 0 \in S
      BY <1>6
    <2>2. ASSUME NEW k \in Nat, k \in S PROVE k + 1 \in S
      <3> SUFFICES ASSUME k + 1 <= m PROVE Good(k + 1)
        OBVIOUS
      <3>1. Good(k)
        BY <1>2, <2>2
      <3>2. k + 1 \in 1 .. m /\ (k + 1) - 1 = k
        BY <1>2
      <3> HIDE DEF step
      <3>3. w[k + 1].steps = Append(w[k].steps, step[k + 1])
        BY <1>8, <3>2
      <3> QED  BY <3>1, <3>3, AppendNext
    <2>3. \A k \in Nat : k \in S
      <3> HIDE DEF S
      <3> QED  BY <2>1, <2>2, Induct
    <2> HIDE DEF Good
    <2> QED  BY <1>2, <2>3
  <1>10. r.steps = step
    BY <1>5, <1>9
  <1>11. Passes(r, c, m)
    <2>1. DOMAIN r.steps = 1 .. m /\ Len(r.steps) = m
      BY <1>2, <1>10
    <2>2. c[0] = r.start /\ c[m] = r.terminal
      BY <1>2, <1>5, <1>6
    <2>3. ASSUME NEW k \in 1 .. m
          PROVE  /\ r.steps[k].action = actions[k]
                 /\ r.steps[k].transition.next = c[k]
                 /\ c[k] = NextState(c[k - 1], actions[k])
      <3>1. step[k].action = actions[k]
        OBVIOUS
      <3>2. c[k] = w[k].current /\ c[k - 1] = w[k - 1].current
        BY <1>2
      <3> HIDE DEF step, c
      <3> QED  BY <1>8, <1>10, <3>1, <3>2
    <2> HIDE DEF c, step
    <2> QED  BY <1>2, <2>1, <2>2, <2>3 DEF Passes
  <1> QED  BY <1>2, <1>5, <1>11 DEF SoundRollout, r

\* The actions of a state after k steps of a rollout.
Told(r, k) == r.start.history.actions \o [i \in 1 .. k |-> r.steps[i].action.id]

\* What a rollout passes through has moved no frozen variable, and tells what was done.
LEMMA PassedHolds ==
  ASSUME NEW r, SoundState(r.start), NEW m \in Nat, NEW c, Passes(r, c, m), NEW k \in 0 .. m
  PROVE  /\ SoundState(c[k])
         /\ \A v \in FrozenVariables : c[k].parameters.value[v] = r.start.parameters.value[v]
         /\ c[k].history.actions = Told(r, k)
         /\ c[k].history.depth = r.start.history.depth + k
         /\ k > 0 => c[k].provenance.origin = "model_rollout"
  <1> DEFINE told(j) == [i \in 1 .. j |-> r.steps[i].action.id]
             Good(j) ==
               /\ SoundState(c[j])
               /\ \A v \in FrozenVariables :
                     c[j].parameters.value[v] = r.start.parameters.value[v]
               /\ c[j].history.actions = r.start.history.actions \o told(j)
               /\ c[j].history.depth = r.start.history.depth + j
               /\ j > 0 => c[j].provenance.origin = "model_rollout"
             S == {j \in Nat : j <= m => Good(j)}
  <1>1. r.start.history.actions \in Seq(ActionIds) /\ r.start.history.depth \in Nat
    BY DEF SoundState
  <1>2. \A i \in 1 .. m : r.steps[i].action.id \in ActionIds
    BY DEF Passes, ActionIds
  <1>3. \A j \in 0 .. m : told(j) \in Seq(ActionIds) /\ Len(told(j)) = j
    BY <1>2
  <1>4. 0 \in S
    <2>1. c[0] = r.start
      BY DEF Passes
    <2>2. told(0) = <<>> /\ r.start.history.actions \o <<>> = r.start.history.actions
      BY <1>1
    <2> HIDE DEF told
    <2>3. Good(0)
      BY <1>1, <2>1, <2>2
    <2> QED  BY <2>3
  <1>5. ASSUME NEW j \in Nat, j \in S PROVE j + 1 \in S
    <2> SUFFICES ASSUME j + 1 <= m PROVE Good(j + 1)
      <3> HIDE DEF Good
      <3> QED  OBVIOUS
    <2> DEFINE a == r.steps[j + 1].action
    <2>0. Good(j)
      <3> HIDE DEF Good
      <3> QED  BY <1>5
    <2>1. /\ SoundState(c[j])
          /\ \A v \in FrozenVariables :
                c[j].parameters.value[v] = r.start.parameters.value[v]
          /\ c[j].history.actions = r.start.history.actions \o told(j)
          /\ c[j].history.depth = r.start.history.depth + j
      BY <2>0
    <2>2. /\ j + 1 \in 1 .. m /\ j \in 0 .. m /\ j + 1 \in 0 .. m /\ (j + 1) - 1 = j
      OBVIOUS
    <2>3. a \in DesignActions /\ Admissible(a) /\ c[j + 1] = NextState(c[j], a)
      BY <2>2 DEF Passes
    <2>4. /\ SoundState(c[j + 1])
          /\ c[j + 1].parameters = Applied(c[j].parameters, a)
          /\ c[j + 1].history = [actions |-> Append(c[j].history.actions, a.id),
                                 depth |-> c[j].history.depth + 1]
          /\ c[j + 1].provenance.origin = "model_rollout"
      <3>1. SoundState(c[j])
        BY <2>1
      <3> HIDE DEF a
      <3> QED  BY <2>3, <3>1, NextSound
    <2>5. ASSUME NEW v \in FrozenVariables
          PROVE  c[j + 1].parameters.value[v] = r.start.parameters.value[v]
      <3>1. v \in FeatureKeys /\ v \notin a.targets
        BY <2>3, TaskAssumption DEF Admissible
      <3>2. c[j + 1].parameters.value[v] = c[j].parameters.value[v]
        BY <2>4, <3>1 DEF Applied
      <3> QED  BY <2>1, <3>2
    <2>6. c[j + 1].history.actions = r.start.history.actions \o told(j + 1)
      <3>1. told(j + 1) = Append(told(j), a.id)
        <4> DEFINE f == [i \in 1 .. m |-> r.steps[i].action.id]
        <4>1. /\ told(j) = [i \in 1 .. j |-> f[i]] /\ told(j + 1) = [i \in 1 .. j + 1 |-> f[i]]
              /\ f[j + 1] = a.id
          BY <2>2
        <4> HIDE DEF f, told, a
        <4> QED  BY <4>1, AppendNext
      <3>2. a.id \in ActionIds /\ told(j) \in Seq(ActionIds)
        BY <1>2, <1>3, <2>2
      <3>3. c[j + 1].history.actions = Append(r.start.history.actions \o told(j), a.id)
        <4>1. c[j + 1].history.actions = Append(c[j].history.actions, a.id)
          BY <2>4
        <4>2. c[j].history.actions = r.start.history.actions \o told(j)
          BY <2>1
        <4> HIDE DEF told, a
        <4> QED  BY <4>1, <4>2
      <3> HIDE DEF told, a
      <3>4. ASSUME NEW s \in Seq(ActionIds), NEW t \in Seq(ActionIds), NEW x \in ActionIds
            PROVE  Append(s \o t, x) = s \o Append(t, x)
        OBVIOUS
      <3> QED  BY <1>1, <3>1, <3>2, <3>3, <3>4
    <2>7. c[j + 1].history.depth = r.start.history.depth + (j + 1)
      <3>1. c[j + 1].history.depth = c[j].history.depth + 1
        BY <2>4
      <3>2. c[j].history.depth = r.start.history.depth + j
        BY <2>1
      <3>3. r.start.history.depth \in Nat
        BY <1>1
      <3> QED  BY <3>1, <3>2, <3>3
    <2> QED  BY <2>4, <2>5, <2>6, <2>7
  <1>6. \A j \in Nat : j \in S
    <2> HIDE DEF S
    <2> QED  BY <1>4, <1>5, Induct
  <1>7. Good(k)
    <2> HIDE DEF Good
    <2> QED  BY <1>6
  <1> QED  BY <1>7 DEF Told

\* Applied one after the other the actions of a rollout make its last parameters.
LEMMA AppliedAllHolds ==
  ASSUME NEW r, SoundState(r.start), NEW m \in Nat, NEW c, Passes(r, c, m)
  PROVE  AppliedAll(r.start.parameters, [n \in DOMAIN r.steps |-> r.steps[n].action])
            = c[m].parameters
  <1> DEFINE p == r.start.parameters
             acts == [n \in 1 .. m |-> r.steps[n].action]
             Eq(f) == f = [k \in 0 .. Len(acts) |->
                             IF k = 0 THEN p ELSE Applied(f[k - 1], acts[k])]
             after == CHOOSE f : Eq(f)
             made == [k \in 0 .. m |-> c[k].parameters]
  <1>1. [n \in DOMAIN r.steps |-> r.steps[n].action] = acts
    BY DEF Passes
  <1>2. Len(acts) = m
    <2>1. \A n \in 1 .. m : r.steps[n].action \in DesignActions
      BY DEF Passes
    <2>2. acts \in Seq(DesignActions)
      <3>1. acts \in [1 .. m -> DesignActions]
        BY <2>1
      <3> HIDE DEF acts
      <3> QED  BY <3>1, SeqDef
    <2> QED  BY <2>2
  <1>3. AppliedAll(p, acts) = after[m]
    BY <1>2 DEF AppliedAll
  <1>4. ASSUME NEW k \in 1 .. m PROVE c[k].parameters = Applied(c[k - 1].parameters, acts[k])
    <2>1. SoundState(c[k - 1])
      BY PassedHolds
    <2>2. c[k] = NextState(c[k - 1], acts[k]) /\ acts[k] \in DesignActions
      BY DEF Passes
    <2> HIDE DEF acts
    <2>3. NextState(c[k - 1], acts[k]).parameters = Applied(c[k - 1].parameters, acts[k])
      BY <2>1, <2>2, NextSound
    <2> QED  BY <2>2, <2>3
  <1>5. Eq(made)
    <2>1. ASSUME NEW k \in 0 .. m
          PROVE  made[k] = (IF k = 0 THEN p ELSE Applied(made[k - 1], acts[k]))
      <3>1. CASE k = 0
        BY <3>1 DEF Passes
      <3>2. CASE k # 0
        <4>1. k \in 1 .. m /\ made[k] = c[k].parameters /\ made[k - 1] = c[k - 1].parameters
          BY <3>2
        <4> HIDE DEF made, acts
        <4> QED  BY <1>4, <3>2, <4>1
      <3> QED  BY <3>1, <3>2
    <2>2. made = [k \in 0 .. m |-> made[k]]
      OBVIOUS
    <2> HIDE DEF made, acts
    <2> QED  BY <1>2, <2>1, <2>2
  <1>6. Eq(after)
    <2> HIDE DEF Eq, made
    <2> QED  BY <1>5
  <1> DEFINE S == {k \in Nat : k <= m => after[k] = c[k].parameters}
  <1>7. ASSUME NEW k \in 0 .. m
        PROVE  after[k] = (IF k = 0 THEN p ELSE Applied(after[k - 1], acts[k]))
    <2> HIDE DEF acts, after
    <2> QED  BY <1>2, <1>6
  <1> HIDE DEF after, Eq
  <1>8. 0 \in S
    <2>1. 0 \in 0 .. m
      OBVIOUS
    <2>2. after[0] = p
      BY <1>7, <2>1
    <2>3. c[0] = r.start
      BY DEF Passes
    <2> QED  BY <2>2, <2>3
  <1>9. ASSUME NEW k \in Nat, k \in S PROVE k + 1 \in S
    <2> SUFFICES ASSUME k + 1 <= m PROVE after[k + 1] = c[k + 1].parameters
      OBVIOUS
    <2>1. k + 1 \in 1 .. m /\ k + 1 \in 0 .. m /\ (k + 1) - 1 = k /\ k + 1 # 0
      OBVIOUS
    <2>2. after[k] = c[k].parameters
      BY <1>9
    <2> HIDE DEF acts
    <2>3. after[k + 1] = Applied(after[k], acts[k + 1])
      BY <1>7, <2>1
    <2>4. c[k + 1].parameters = Applied(c[k].parameters, acts[k + 1])
      BY <1>4, <2>1
    <2> QED  BY <2>2, <2>3, <2>4
  <1>10. \A k \in Nat : k \in S
    <2> HIDE DEF S
    <2> QED  BY <1>8, <1>9, Induct
  <1> QED  BY <1>1, <1>3, <1>10

LEMMA RolloutInit == Init => RolloutInvariant
  BY DEF Init, RolloutInvariant, Remembered

\* One more state that is sound.
LEMMA HeldSound ==
  ASSUME RolloutInvariant, NEW s, SoundState(s), Hold(s), UNCHANGED <<rollouts, initials>>
  PROVE  RolloutInvariant'
  <1>1. \A t \in states' : SoundState(t)
    BY DEF Hold, RolloutInvariant
  <1>2. \A r : PathKey(r)' = PathKey(r)
    BY DEF PathKey
  <1> QED  BY <1>1, <1>2 DEF RolloutInvariant, Remembered

LEMMA BuildStates ==
  ASSUME RolloutInvariant, NEW request, BuildState(request)
  PROVE  RolloutInvariant'
  <1> DEFINE built == BuildWorldState(request.parameters, request.load, "quick_screening",
                                      NoHistory, Provenance("initial", FALSE))
  <1>1. NoHistory \in [actions : Seq(ActionIds), depth : Nat]
    BY DEF NoHistory
  <1>2. SoundState(built)
    <2> HIDE DEF built
    <2> QED  BY <1>1, BuiltSound DEF built
  <1> QED  BY <1>2, HeldSound DEF BuildState

LEMMA PredictStates ==
  ASSUME RolloutInvariant, NEW s \in states, NEW a \in DesignActions, PredictTransition(s, a)
  PROVE  RolloutInvariant'
  <1>1. Hold(NextState(s, a)) /\ UNCHANGED <<rollouts, initials>>
    BY DEF PredictTransition, Transition, TransitionTo
  <1>2. SoundState(NextState(s, a))
    BY NextSound DEF RolloutInvariant
  <1> QED  BY <1>1, <1>2, HeldSound

LEMMA TruthStates ==
  ASSUME RolloutInvariant, NEW s \in states, NEW truth, TruthState(s, truth)
  PROVE  RolloutInvariant'
  <1> DEFINE strong == truth.level = "configured_truth" /\ truth.status = "strong"
             t == [s EXCEPT
                     !.fidelity = "full_ground_truth",
                     !.observed = truth.measured,
                     !.uncertainty.source = "truth",
                     !.uncertainty.confidence = IF strong THEN 100 ELSE 75,
                     !.uncertainty.epistemic = IF strong THEN 2 ELSE 12,
                     !.uncertainty.aleatoric = IF strong THEN 3 ELSE 8,
                     !.provenance = Provenance("simulated", TRUE)]
  <1>1. Hold(t) /\ UNCHANGED <<rollouts, initials>>
    BY DEF TruthState
  <1>2. SoundState(s)
    BY DEF RolloutInvariant
  <1>3. Provenance("simulated", TRUE).origin = "real_simulation"
    BY DEF Provenance
  <1>4. SoundState(t)
    <2>1. /\ t.id = s.id /\ t.parameters = s.parameters /\ t.history = s.history
          /\ t.provenance = Provenance("simulated", TRUE)
      BY <1>2 DEF SoundState
    <2>2. DOMAIN t = DOMAIN s
      OBVIOUS
    <2> HIDE DEF t
    <2> QED  BY <1>2, <1>3, <2>1, <2>2 DEF SoundState
  <1> HIDE DEF t
  <1> QED  BY <1>1, <1>4, HeldSound

LEMMA RolloutStates ==
  ASSUME RolloutInvariant, NEW s \in states, NEW actions \in Rollouts, NEW horizon \in Nat,
         Rollout(s, actions, horizon)
  PROVE  RolloutInvariant'
  <1> DEFINE r == RolledOut(bundle, s, actions, horizon)
  <1>1. /\ rollouts' = rollouts \cup {r}
        /\ initials' = [key \in DOMAIN initials \cup {PathKey(r)} |->
                          IF key = PathKey(r) THEN s ELSE initials[key]]
        /\ states' = states
        /\ \A n \in 1 .. Taken(actions, horizon) : Admissible(actions[n])
    BY DEF Rollout
  <1>2. SoundState(s)
    BY DEF RolloutInvariant
  <1>3. SoundRollout(r) /\ r.start = s
    BY <1>1, <1>2, RolledOutSound
  <1> HIDE DEF r
  <1>4. \A q \in rollouts' : SoundRollout(q)
    BY <1>1, <1>3 DEF RolloutInvariant
  <1>5. Remembered'
    <2>1. \A q : PathKey(q)' = PathKey(q)
      BY DEF PathKey
    <2>2. \A q \in rollouts' : PathKey(q) \in DOMAIN initials'
      BY <1>1 DEF RolloutInvariant, Remembered
    <2>3. ASSUME NEW key \in DOMAIN initials'
          PROVE  initials'[key].id = key[1] /\ SoundState(initials'[key])
      <3>1. CASE key = PathKey(r)
        <4>1. initials'[key] = s /\ key[1] = s.id
          BY <1>1, <1>3, <3>1 DEF PathKey
        <4> QED  BY <1>2, <4>1
      <3>2. CASE key # PathKey(r)
        <4>1. key \in DOMAIN initials /\ initials'[key] = initials[key]
          BY <1>1, <3>2
        <4> QED  BY <4>1 DEF RolloutInvariant, Remembered
      <3> QED  BY <3>1, <3>2
    <2> QED  BY <2>1, <2>2, <2>3 DEF Remembered
  <1> QED  BY <1>1, <1>4, <1>5 DEF RolloutInvariant

LEMMA RolloutNext == RolloutInvariant /\ [Next]_vars => RolloutInvariant'
  <1> SUFFICES ASSUME RolloutInvariant, [Next]_vars PROVE RolloutInvariant'
    OBVIOUS
  <1>1. ASSUME UNCHANGED <<states, rollouts, initials>> PROVE RolloutInvariant'
    <2>1. \A r : PathKey(r)' = PathKey(r)
      BY DEF PathKey
    <2> QED  BY <1>1, <2>1 DEF RolloutInvariant, Remembered
  <1>2. ASSUME NEW request \in Requests, BuildState(request) PROVE RolloutInvariant'
    BY <1>2, BuildStates
  <1>3. ASSUME NEW s \in states, NEW a \in DesignActions, PredictTransition(s, a)
        PROVE  RolloutInvariant'
    BY <1>3, PredictStates
  <1>4. ASSUME NEW s \in states, NEW actions \in Rollouts, NEW horizon \in 0 .. 2,
               Rollout(s, actions, horizon)
        PROVE  RolloutInvariant'
    BY <1>4, RolloutStates
  <1>5. ASSUME NEW s \in states, NEW truth \in TruthRecords, TruthState(s, truth)
        PROVE  RolloutInvariant'
    BY <1>5, TruthStates
  <1>6. ASSUME NEW s \in states, NEW truth \in TruthRecords, Calibrate(s, truth)
        PROVE  RolloutInvariant'
    BY <1>1, <1>6 DEF Calibrate
  <1>7. ASSUME NEW stats \in Experiments, NEW cap \in Caps, Train(stats, cap)
        PROVE  RolloutInvariant'
    BY <1>1, <1>7 DEF Train
  <1>8. CASE Attach
    BY <1>1, <1>8 DEF Attach
  <1>9. CASE UNCHANGED vars
    BY <1>1, <1>9 DEF vars
  <1> QED  BY <1>2, <1>3, <1>4, <1>5, <1>6, <1>7, <1>8, <1>9 DEF Next

\* The path of the diagnostics: the state the service remembers, and one after each step.
LEMMA PathHolds ==
  ASSUME RolloutInvariant, NEW r \in rollouts, NEW m \in Nat, DOMAIN r.steps = 1 .. m
  PROVE  Len(PathStates(r)) = m + 1 /\ PathStates(r)[1] = initials[PathKey(r)]
  <1> DEFINE next == [n \in DOMAIN r.steps |-> r.steps[n].transition.next]
             X == {initials[PathKey(r)]} \cup {next[n] : n \in 1 .. m}
  <1>1. PathStates(r) = <<initials[PathKey(r)]>> \o next
    BY DEF PathStates, RolloutInvariant, Remembered
  <1>2. next \in [1 .. m -> X]
    OBVIOUS
  <1> HIDE DEF next
  <1>3. <<initials[PathKey(r)]>> \in Seq(X)
    OBVIOUS
  <1> HIDE DEF X
  <1>4. next \in Seq(X)
    BY <1>2, SeqDef
  <1>5. Len(next) = m
    BY <1>2, <1>4
  <1> QED  BY <1>1, <1>3, <1>4, <1>5

\* Whatever callers build, predict, roll out, train and calibrate in between: a rollout
\* moves no frozen variable, is what its actions make of the state it began with, and
\* its diagnostics are about the path it took.
THEOREM RolloutsCorrect == Spec => []RolloutsSound
  <1>1. RolloutInvariant => RolloutsSound
    <2> SUFFICES ASSUME RolloutInvariant PROVE RolloutsSound
      OBVIOUS
    <2>1. ASSUME NEW r \in rollouts
          PROVE  \E m \in Nat : \E c : SoundState(r.start) /\ Passes(r, c, m)
      BY DEF RolloutInvariant, SoundRollout
    <2>2. FrozenStay
      <3> SUFFICES ASSUME NEW r \in rollouts, NEW n \in DOMAIN r.steps,
                          NEW v \in FrozenVariables
                   PROVE  r.steps[n].transition.next.parameters.value[v]
                             = r.start.parameters.value[v]
        BY DEF FrozenStay
      <3>1. PICK m \in Nat : \E c : SoundState(r.start) /\ Passes(r, c, m)
        BY <2>1
      <3>2. PICK c : SoundState(r.start) /\ Passes(r, c, m)
        BY <3>1
      <3>3. n \in 0 .. m /\ r.steps[n].transition.next = c[n]
        BY <3>2 DEF Passes
      <3> QED  BY <3>2, <3>3, PassedHolds
    <2>3. RolloutsReplay
      <3> SUFFICES ASSUME NEW r \in rollouts
                   PROVE  /\ r.terminal.parameters =
                                AppliedAll(r.start.parameters,
                                           [n \in DOMAIN r.steps |-> r.steps[n].action])
                          /\ r.terminal.history =
                                [actions |-> r.start.history.actions
                                             \o [n \in DOMAIN r.steps |-> r.steps[n].action.id],
                                 depth |-> r.start.history.depth + Len(r.steps)]
        BY DEF RolloutsReplay
      <3>1. PICK m \in Nat : \E c : SoundState(r.start) /\ Passes(r, c, m)
        BY <2>1
      <3>2. PICK c : SoundState(r.start) /\ Passes(r, c, m)
        BY <3>1
      <3>3. DOMAIN r.steps = 1 .. m /\ Len(r.steps) = m /\ c[m] = r.terminal
        BY <3>2 DEF Passes
      <3>4. /\ SoundState(c[m])
            /\ c[m].history.actions = Told(r, m)
            /\ c[m].history.depth = r.start.history.depth + m
        BY <3>2, PassedHolds
      <3>5. c[m].history = [actions |-> c[m].history.actions, depth |-> c[m].history.depth]
        BY <3>4 DEF SoundState
      <3>6. AppliedAll(r.start.parameters, [n \in DOMAIN r.steps |-> r.steps[n].action])
              = c[m].parameters
        BY <3>2, AppliedAllHolds
      <3> QED  BY <3>3, <3>4, <3>5, <3>6 DEF Told
    <2>4. DiagnosticsCoverRollout
      <3> SUFFICES ASSUME NEW r \in rollouts
                   PROVE  /\ Len(PathDistances(r)) = Len(r.steps)
                          /\ PathStates(r)[1].parameters = r.start.parameters
        BY DEF DiagnosticsCoverRollout
      <3>1. PICK m \in Nat : \E c : SoundState(r.start) /\ Passes(r, c, m)
        BY <2>1
      <3>2. DOMAIN r.steps = 1 .. m /\ Len(r.steps) = m /\ SoundState(r.start)
        BY <3>1 DEF Passes
      <3>3. Len(PathStates(r)) = m + 1 /\ PathStates(r)[1] = initials[PathKey(r)]
        BY <3>2, PathHolds
      <3>4. Len(PathDistances(r)) = m
        <4> DEFINE d(n) == LatentDistance(PathStates(r)[n], PathStates(r)[n + 1])
        <4>1. PathDistances(r) = [n \in 1 .. m |-> d(n)]
          BY <3>3 DEF PathDistances
        <4>2. [n \in 1 .. m |-> d(n)] \in [1 .. m -> {d(n) : n \in 1 .. m}]
          OBVIOUS
        <4> DEFINE X == {d(n) : n \in 1 .. m}
                   s == [n \in 1 .. m |-> d(n)]
        <4> HIDE DEF X, s, d
        <4>3. s \in Seq(X)
          BY <4>2, SeqDef DEF s, X
        <4>4. DOMAIN s = 1 .. m
          BY DEF s
        <4> QED  BY <4>1, <4>3, <4>4 DEF s
      <3>5. initials[PathKey(r)].parameters = r.start.parameters
        BY <3>2 DEF RolloutInvariant, Remembered, SoundState, PathKey
      <3> QED  BY <3>2, <3>3, <3>4, <3>5
    <2> QED  BY <2>2, <2>3, <2>4 DEF RolloutsSound
  <1> QED  BY RolloutInit, RolloutNext, <1>1, PTL DEF Spec

(***************************************************************************)
(* Sums, averages and bounds                                               *)
(***************************************************************************)

\* The library's sum, as the function on subsets that it is.
SumFrom(iter, f, S) ==
    iter = [s \in SUBSET S |-> IF s = {} THEN 0
                               ELSE f[CHOOSE x \in s : TRUE] + iter[s \ {CHOOSE x \in s : TRUE}]]

\* What passes to a finite set from what is left of it without the member it chooses
\* holds of every finite set.
LEMMA InductOnSets ==
  ASSUME NEW S, IsFiniteSet(S), NEW Good \in SUBSET SUBSET S, {} \in Good,
         \A s \in SUBSET S :
            s # {} /\ IsFiniteSet(s) /\ s \ {CHOOSE x \in s : TRUE} \in Good => s \in Good
  PROVE  S \in Good
  <1> DEFINE N == {n \in Nat : \A s \in SUBSET S : Cardinality(s) = n => s \in Good}
  <1>0. \A s \in SUBSET S : IsFiniteSet(s)
    BY FS_Subset
  <1>1. 0 \in N
    BY <1>0, FS_EmptySet
  <1>2. ASSUME NEW n \in Nat, n \in N PROVE n + 1 \in N
    <2> SUFFICES ASSUME NEW s \in SUBSET S, Cardinality(s) = n + 1
                 PROVE  s \in Good
      OBVIOUS
    <2>1. IsFiniteSet(s) /\ s # {}
      BY <1>0, FS_EmptySet
    <2> DEFINE x == CHOOSE y \in s : TRUE
    <2>2. x \in s
      BY <2>1
    <2>3. Cardinality(s \ {x}) = n
      <3> HIDE DEF x
      <3>1. Cardinality(s \ {x}) = Cardinality(s) - 1
        BY <2>1, <2>2, FS_RemoveElement
      <3> QED  BY <3>1
    <2>4. s \ {x} \in Good
      BY <1>2, <2>3
    <2> QED  BY <2>1, <2>4
  <1>3. \A n \in Nat : n \in N
    <2> HIDE DEF N
    <2> QED  BY <1>1, <1>2, Induct
  <1> QED  BY <1>3, FS_CardinalityType

\* The sum over the members of a set is defined by recursion on the set.
LEMMA SumExists ==
  ASSUME NEW S, IsFiniteSet(S), NEW f
  PROVE  \E iter : SumFrom(iter, f, S)
  <1> DEFINE one(s) == CHOOSE x \in s : TRUE
             Upto(n) == {s \in SUBSET S : Cardinality(s) <= n}
             At(iter, s) == IF s = {} THEN 0 ELSE f[one(s)] + iter[s \ {one(s)}]
             Holds(iter, n) == iter = [s \in Upto(n) |-> At(iter, s)]
             N == {n \in Nat : \E iter : Holds(iter, n)}
  <1>1. \A s \in SUBSET S : IsFiniteSet(s) /\ Cardinality(s) \in Nat /\ Cardinality(s) <= Cardinality(S)
    BY FS_Subset, FS_CardinalityType
  <1>2. \A s \in SUBSET S : s # {} =>
           /\ s \ {one(s)} \in SUBSET S
           /\ Cardinality(s \ {one(s)}) = Cardinality(s) - 1
    BY <1>1, FS_RemoveElement
  <1>0. Cardinality({}) = 0 /\ \A s \in SUBSET S : Cardinality(s) = 0 <=> s = {}
    BY <1>1, FS_EmptySet
  <1>3. 0 \in N
    <2> DEFINE zero == [s \in Upto(0) |-> 0]
    <2>1. \A s \in Upto(0) : s = {}
      BY <1>0, <1>1
    <2>2. Holds(zero, 0)
      <3>1. \A s \in Upto(0) : At(zero, s) = 0
        BY <2>1
      <3> HIDE DEF At, Upto
      <3>2. [s \in Upto(0) |-> At(zero, s)] = [s \in Upto(0) |-> 0]
        BY <3>1
      <3> QED  BY <3>2
    <2> QED  BY <2>2
  <1>4. ASSUME NEW n \in Nat, n \in N PROVE n + 1 \in N
    <2>1. PICK iter : Holds(iter, n)
      BY <1>4
    <2> DEFINE more == [s \in Upto(n + 1) |-> At(iter, s)]
    <2>2. ASSUME NEW s \in Upto(n + 1) PROVE At(iter, s) = At(more, s)
      <3>1. CASE s = {}
        BY <3>1
      <3>2. CASE s # {}
        <4> DEFINE t == s \ {one(s)}
        <4>1. t \in Upto(n) /\ t \in Upto(n + 1)
          BY <1>1, <1>2, <3>2
        <4>2. iter[t] = At(iter, t)
          <5> HIDE DEF At, Upto, t
          <5> QED  BY <2>1, <4>1
        <4>3. more[t] = At(iter, t)
          <5> HIDE DEF At, Upto, t
          <5> QED  BY <4>1
        <4>4. iter[t] = more[t]
          BY <4>2, <4>3
        <4> HIDE DEF more, Upto
        <4> QED  BY <3>2, <4>4
      <3> QED  BY <3>1, <3>2
    <2>3. Holds(more, n + 1)
      <3> HIDE DEF At, Upto
      <3>1. [s \in Upto(n + 1) |-> At(iter, s)] = [s \in Upto(n + 1) |-> At(more, s)]
        BY <2>2
      <3> QED  BY <3>1
    <2> HIDE DEF Holds, more
    <2> QED  BY <2>3
  <1>5. Cardinality(S) \in N
    <2>1. \A n \in Nat : n \in N
      <3> HIDE DEF N
      <3> QED  BY <1>3, <1>4, Induct
    <2> HIDE DEF N
    <2> QED  BY <1>1, <2>1
  <1>6. PICK iter : Holds(iter, Cardinality(S))
    BY <1>5
  <1>7. Upto(Cardinality(S)) = SUBSET S
    BY <1>1
  <1>8. SumFrom(iter, f, S)
    <2> HIDE DEF Upto
    <2> QED  BY <1>6, <1>7 DEF SumFrom
  <1> QED  BY <1>8

\* What the sum is made of.
LEMMA SumHolds ==
  ASSUME NEW S, IsFiniteSet(S), NEW f
  PROVE  \E iter : SumFrom(iter, f, S) /\ Total(S, f) = iter[S]
  <1> DEFINE iter == CHOOSE g : SumFrom(g, f, S)
  <1>1. SumFrom(iter, f, S)
    BY SumExists
  <1>2. Total(S, f) = iter[S]
    BY DEF Total, SumFunctionOnSet, FoldFunctionOnSet, MapThenFoldSet, SumFrom
  <1> HIDE DEF iter
  <1> QED  BY <1>1, <1>2

\* A sum of whole numbers is one, and lies between the bounds of its summands.
LEMMA SumBetween ==
  ASSUME NEW S, IsFiniteSet(S), NEW f, NEW low \in Int, NEW high \in Int,
         \A x \in S : f[x] \in Int /\ low <= f[x] /\ f[x] <= high
  PROVE  /\ Total(S, f) \in Int
         /\ low * Cardinality(S) <= Total(S, f)
         /\ Total(S, f) <= high * Cardinality(S)
  <1>1. PICK iter : SumFrom(iter, f, S) /\ Total(S, f) = iter[S]
    BY SumHolds
  <1> DEFINE Bounded(s) == /\ iter[s] \in Int
                           /\ low * Cardinality(s) <= iter[s]
                           /\ iter[s] <= high * Cardinality(s)
             Good == {s \in SUBSET S : Bounded(s)}
  <1>2. {} \in Good
    <2>1. Cardinality({}) = 0
      BY FS_EmptySet
    <2>2. iter[{}] = 0
      BY <1>1 DEF SumFrom
    <2> QED  BY <2>1, <2>2
  <1>3. ASSUME NEW s \in SUBSET S, s # {}, IsFiniteSet(s), s \ {CHOOSE x \in s : TRUE} \in Good
        PROVE  s \in Good
    <2> DEFINE one == CHOOSE x \in s : TRUE
               t == s \ {one}
               n == Cardinality(t)
    <2>1. iter[s] = f[one] + iter[t]
      BY <1>1, <1>3 DEF SumFrom
    <2>2. one \in s /\ one \in S
      BY <1>3
    <2>3. Cardinality(s) = n + 1 /\ n \in Nat
      <3> HIDE DEF one
      <3>1. IsFiniteSet(t) /\ Cardinality(t) = Cardinality(s) - 1
        BY <1>3, <2>2, FS_RemoveElement
      <3>2. Cardinality(t) \in Nat /\ Cardinality(s) \in Nat
        BY <1>3, <3>1, FS_CardinalityType
      <3> QED  BY <3>1, <3>2
    <2>4. Bounded(t) /\ f[one] \in Int /\ low <= f[one] /\ f[one] <= high
      BY <1>3, <2>2
    <2> HIDE DEF one, n
    <2>5. low * (n + 1) = low * n + low /\ high * (n + 1) = high * n + high
          /\ low * n \in Int /\ high * n \in Int
      BY <2>3
    <2>6. /\ iter[t] \in Int
          /\ low * n <= iter[t] /\ iter[t] <= high * n
      BY <2>4 DEF n
    <2> HIDE DEF t
    <2>7. Bounded(s)
      BY <2>1, <2>3, <2>4, <2>5, <2>6
    <2> QED  BY <2>7
  <1>4. S \in Good
    <2> HIDE DEF Good
    <2> QED  BY <1>2, <1>3, InductOnSets
  <1> QED  BY <1>1, <1>4

\* A finite set of numbers has a greatest and a least one.
LEMMA Extremes ==
  ASSUME NEW S \in SUBSET Int, IsFiniteSet(S), S # {}
  PROVE  /\ Max(S) \in S /\ \A y \in S : y <= Max(S)
         /\ Min(S) \in S /\ \A y \in S : Min(S) <= y
  <1> DEFINE Ends(s) == \E low, high \in s : \A y \in s : low <= y /\ y <= high
             Good == {s \in SUBSET S : s = {} \/ Ends(s)}
  <1>1. ASSUME NEW s \in SUBSET S, s # {}, s \ {CHOOSE x \in s : TRUE} \in Good
        PROVE  s \in Good
    <2> DEFINE one == CHOOSE x \in s : TRUE
    <2>1. one \in s /\ one \in Int
      BY <1>1
    <2> HIDE DEF one
    <2>2. CASE s \ {one} = {}
      <3>1. s = {one}
        BY <2>1, <2>2
      <3>2. Ends(s)
        BY <2>1, <3>1
      <3> QED  BY <3>2
    <2>3. CASE Ends(s \ {one})
      <3>1. PICK low, high \in s \ {one} : \A y \in s \ {one} : low <= y /\ y <= high
        BY <2>3
      <3>2. low \in Int /\ high \in Int /\ \A y \in s : y \in Int
        BY <3>1
      <3>3. \A y \in s : y = one \/ (low <= y /\ y <= high)
        BY <3>1
      <3> DEFINE l == IF one < low THEN one ELSE low
                 h == IF one > high THEN one ELSE high
      <3>4. l \in s /\ h \in s /\ \A y \in s : l <= y /\ y <= h
        BY <2>1, <3>1, <3>2, <3>3
      <3>5. Ends(s)
        BY <3>4
      <3> QED  BY <3>5
    <2> QED  BY <1>1, <2>2, <2>3 DEF one
  <1>2. S \in Good
    <2> HIDE DEF Ends
    <2>1. {} \in Good
      OBVIOUS
    <2> HIDE DEF Good
    <2> QED  BY <1>1, <2>1, InductOnSets
  <1>3. PICK low, high \in S : \A y \in S : low <= y /\ y <= high
    BY <1>2
  <1> QED  BY <1>3 DEF Max, Min

LEMMA OfTwo ==
  ASSUME NEW a \in Int, NEW b \in Int
  PROVE  /\ Max({a, b}) = IF a >= b THEN a ELSE b
         /\ Min({a, b}) = IF a <= b THEN a ELSE b
  <1>1. /\ Max({a, b}) \in {a, b} /\ Max({a, b}) >= a /\ Max({a, b}) >= b
        /\ Min({a, b}) \in {a, b} /\ Min({a, b}) <= a /\ Min({a, b}) <= b
    <2>1. IsFiniteSet({a} \cup {b})
      BY FS_Singleton, FS_Union
    <2>2. {a} \cup {b} = {a, b}
      OBVIOUS
    <2> QED  BY <2>1, <2>2, Extremes
  <1> QED  BY <1>1

LEMMA ImageFinite ==
  ASSUME NEW S, IsFiniteSet(S), NEW f
  PROVE  IsFiniteSet({f[x] : x \in S})
  <1> DEFINE g == [x \in S |-> f[x]]
  <1>1. g \in Surjection(S, {f[x] : x \in S})
    BY DEF Surjection
  <1> HIDE DEF g
  <1> QED  BY <1>1, FS_Surjection

\* Sums of whole numbers, and of natural ones.
LEMMA SumTyped ==
  ASSUME NEW S, IsFiniteSet(S), NEW f, \A x \in S : f[x] \in Int
  PROVE  /\ Total(S, f) \in Int
         /\ (\A x \in S : f[x] >= 0) => Total(S, f) >= 0
  <1> DEFINE image == {f[x] : x \in S} \cup {0}
  <1>1. IsFiniteSet(image) /\ image # {} /\ image \in SUBSET Int
    <2>1. IsFiniteSet({f[x] : x \in S})
      BY ImageFinite
    <2>2. IsFiniteSet(image)
      BY <2>1, FS_AddElement
    <2> QED  BY <2>2
  <1>2. /\ Min(image) \in image /\ Max(image) \in Int
        /\ \A y \in image : Min(image) <= y /\ y <= Max(image)
    <2> HIDE DEF image
    <2> QED  BY <1>1, Extremes
  <1>3. \A x \in S : f[x] \in Int /\ Min(image) <= f[x] /\ f[x] <= Max(image)
    BY <1>2
  <1>4. Min(image) \in Int /\ ((\A x \in S : f[x] >= 0) => Min(image) >= 0)
    BY <1>1, <1>2
  <1> HIDE DEF image
  <1>5. Total(S, f) \in Int /\ Min(image) * Cardinality(S) <= Total(S, f)
    BY <1>2, <1>3, <1>4, SumBetween
  <1>6. Cardinality(S) \in Nat
    BY FS_CardinalityType
  <1>7. ASSUME NEW a \in Int, a >= 0, NEW n \in Nat PROVE a * n >= 0
    BY <1>7
  <1>8. Min(image) * Cardinality(S) \in Int
    BY <1>4, <1>6
  <1>9. Min(image) >= 0 => Min(image) * Cardinality(S) >= 0
    BY <1>4, <1>6, <1>7
  <1> QED  BY <1>4, <1>5, <1>8, <1>9

\* Rounding a fraction keeps it between whole numbers it lies between.
LEMMA RoundedBetween ==
  ASSUME NEW n \in Int, NEW d \in Nat \ {0}
  PROVE  /\ Rounded(n, d) \in Int
         /\ 2 * d * Rounded(n, d) <= 2 * n + d
         /\ 2 * n + d < 2 * d * Rounded(n, d) + 2 * d
         /\ \A low \in Int : low * d <= n => low <= Rounded(n, d)
         /\ \A high \in Int : n <= high * d => Rounded(n, d) <= high
  <1> DEFINE k == 2 * d
             a == 2 * n + d
             q == a \div k
  <1>1. k \in Nat /\ k > 0 /\ a \in Int
    OBVIOUS
  <1>2. q \in Int /\ k * q <= a /\ a < k * q + k
    <2> HIDE DEF k, a
    <2> QED  BY <1>1
  <1>3. Rounded(n, d) = q
    BY DEF Rounded
  <1>4. ASSUME NEW x \in Int, NEW y \in Int, x < y
        PROVE  k * x + k <= k * y
    <2> HIDE DEF k
    <2>1. y - x - 1 \in Nat
      BY <1>4
    <2>2. k * (y - x - 1) >= 0
      BY <1>1, <2>1
    <2>3. k * (y - x - 1) = k * y - k * x - k
      BY <1>1
    <2>4. k * x \in Int /\ k * y \in Int
      BY <1>1
    <2> QED  BY <1>1, <2>2, <2>3, <2>4
  <1>5. k * q \in Int
    BY <1>1, <1>2
  <1>6. ASSUME NEW low \in Int, low * d <= n PROVE low <= q
    <2>1. k * low = 2 * (low * d) /\ low * d \in Int
      OBVIOUS
    <2>2. k * low <= a - d /\ k * low \in Int
      BY <1>6, <2>1
    <2> SUFFICES ASSUME q < low PROVE FALSE
      BY <1>2
    <2>3. k * q + k <= k * low
      BY <1>2, <1>4
    <2> HIDE DEF q
    <2> QED  BY <1>1, <1>2, <1>5, <2>2, <2>3
  <1>7. ASSUME NEW high \in Int, n <= high * d PROVE q <= high
    <2>1. k * high = 2 * (high * d) /\ high * d \in Int
      OBVIOUS
    <2>2. a <= k * high + d /\ k * high \in Int
      BY <1>7, <2>1
    <2> SUFFICES ASSUME high < q PROVE FALSE
      BY <1>2
    <2>3. k * high + k <= k * q
      BY <1>2, <1>4
    <2> HIDE DEF q
    <2> QED  BY <1>1, <1>2, <1>5, <2>2, <2>3
  <1> HIDE DEF q
  <1> QED  BY <1>2, <1>3, <1>6, <1>7

LEMMA RoundedNat ==
  ASSUME NEW n \in Int, n >= 0, NEW d \in Nat \ {0}
  PROVE  Rounded(n, d) \in Nat
  <1> DEFINE low == 0
  <1>1. low \in Int /\ low * d <= n
    OBVIOUS
  <1> HIDE DEF low
  <1>2. low <= Rounded(n, d) /\ Rounded(n, d) \in Int
    BY <1>1, RoundedBetween
  <1> QED  BY <1>2 DEF low

LEMMA MeanBetween ==
  ASSUME NEW S, IsFiniteSet(S), NEW f, \A x \in S : f[x] \in Int
  PROVE  /\ Mean(S, f) \in Int
         /\ (\A x \in S : f[x] >= 0) => Mean(S, f) >= 0
         /\ \A high \in Nat : (\A x \in S : 0 <= f[x] /\ f[x] <= high) => Mean(S, f) <= high
  <1>1. CASE S = {}
    BY <1>1 DEF Mean
  <1>2. CASE S # {}
    <2>1. Cardinality(S) \in Nat \ {0} /\ Mean(S, f) = Rounded(Total(S, f), Cardinality(S))
      BY <1>2, FS_CardinalityType, FS_EmptySet DEF Mean
    <2>2. Total(S, f) \in Int /\ ((\A x \in S : f[x] >= 0) => Total(S, f) >= 0)
      BY SumTyped
    <2>3. Mean(S, f) \in Int
      BY <2>1, <2>2, RoundedBetween
    <2>4. ASSUME \A x \in S : f[x] >= 0 PROVE Mean(S, f) >= 0
      <3>1. 0 * Cardinality(S) <= Total(S, f)
        BY <2>1, <2>2, <2>4
      <3>2. 0 <= Rounded(Total(S, f), Cardinality(S))
        <4> DEFINE low == 0
        <4>1. low \in Int /\ low * Cardinality(S) <= Total(S, f)
          BY <3>1
        <4> HIDE DEF low
        <4>2. low <= Rounded(Total(S, f), Cardinality(S))
          BY <2>1, <2>2, <4>1, RoundedBetween
        <4> QED  BY <4>2 DEF low
      <3> QED  BY <2>1, <3>2
    <2>5. ASSUME NEW high \in Nat, \A x \in S : 0 <= f[x] /\ f[x] <= high
          PROVE  Mean(S, f) <= high
      <3>1. \A x \in S : f[x] \in Int /\ 0 <= f[x] /\ f[x] <= high
        BY <2>5
      <3>2. Total(S, f) <= high * Cardinality(S)
        <4> DEFINE low == 0
        <4>1. low \in Int /\ high \in Int /\ \A x \in S : low <= f[x]
          BY <3>1
        <4> HIDE DEF low
        <4> QED  BY <3>1, <4>1, SumBetween
      <3>3. Rounded(Total(S, f), Cardinality(S)) <= high
        BY <2>1, <2>2, <3>2, RoundedBetween
      <3> QED  BY <2>1, <3>3
    <2> QED  BY <2>3, <2>4, <2>5
  <1> QED  BY <1>1, <1>2

(***************************************************************************)
(* States                                                                  *)
(***************************************************************************)

\* Normalization and the proxies are defined for every value of a variable, as the
\* functions of the code are.
TablesTotal ==
    /\ \A v \in Int : NormalizedValue[v] \in Int
    /\ \A f \in Range(SupportedFamilies), x \in Int : MapOf(Proxy[f][x], Metrics, Int)

LEMMA FamilyKnown ==
  ASSUME NEW parameters \in ParameterValues
  PROVE  ActiveFamily(parameters) \in Range(SupportedFamilies)
  <1>1. CASE CircuitFamily # "unknown"
    BY <1>1 DEF ActiveFamily, SupportedFamilies, Range
  <1>2. CASE CircuitFamily = "unknown"
    <2>1. parameters.choice \in 0 .. Len(TemplateChoices) /\ TemplateChoices \in Seq(Families)
      BY TaskAssumption DEF ParameterValues
    <2>2. CASE parameters.choice # 0
      <3>1. parameters.choice \in DOMAIN TemplateChoices /\ TemplateChoices # <<>>
        BY <2>1, <2>2
      <3>2. SupportedFamilies = TemplateChoices
        BY <1>2, <3>1 DEF SupportedFamilies
      <3> QED  BY <1>2, <2>2, <3>1, <3>2 DEF ActiveFamily, Range
    <2>3. CASE parameters.choice = 0
      <3>1. 1 \in DOMAIN SupportedFamilies
        BY <1>2, <2>1 DEF SupportedFamilies
      <3> QED  BY <1>2, <2>3, <3>1 DEF ActiveFamily, Range
    <2> QED  BY <2>2, <2>3
  <1> QED  BY <1>1, <1>2

LEMMA ProjectedTyped ==
  ASSUME TablesTotal, NEW parameters \in ParameterValues, NEW load
  PROVE  MapOf(Projected(parameters, load), Metrics, Int)
  <1> DEFINE x == Total(FeatureKeys, parameters.value)
             p == Proxy[ActiveFamily(parameters)][x]
  <1>1. x \in Int
    BY TaskAssumption, SumTyped DEF ParameterValues
  <1>2. MapOf(p, Metrics, Int)
    <2> HIDE DEF x
    <2> QED  BY <1>1, FamilyKnown DEF TablesTotal
  <1>3. Projected(parameters, load) = [m \in DOMAIN p |-> p[m] - (IF load = "heavy" THEN p[m] \div 10 ELSE 0)]
    BY DEF Projected
  <1> HIDE DEF p
  <1> QED  BY <1>2, <1>3 DEF MapOf

LEMMA OodTyped ==
  ASSUME TablesTotal, NEW parameters \in ParameterValues
  PROVE  OodScore(parameters) \in Nat
  <1> DEFINE beyond == [v \in FeatureKeys |->
                          LET n == NormalizedValue[parameters.value[v]] IN Abs(n - Clip(n, 0, 100))]
             image == {beyond[v] : v \in FeatureKeys}
  <1>1. \A v \in FeatureKeys : NormalizedValue[parameters.value[v]] \in Int
    BY DEF TablesTotal, ParameterValues
  <1>2. \A v \in FeatureKeys : beyond[v] \in Nat
    BY <1>1 DEF Abs, Clip
  <1>3. OodScore(parameters) = Max({0} \cup image)
    BY DEF OodScore
  <1> HIDE DEF beyond
  <1>4. IsFiniteSet(image)
    BY TaskAssumption, ImageFinite
  <1>5. IsFiniteSet({0} \cup image)
    BY <1>4, FS_Singleton, FS_Union
  <1>6. Max({0} \cup image) \in {0} \cup image
    <2>1. {0} \cup image \in SUBSET Int /\ {0} \cup image # {}
      BY <1>2
    <2> HIDE DEF image
    <2> QED  BY <1>5, <2>1, Extremes
  <1> QED  BY <1>2, <1>3, <1>6

\* States are built in the shape of the schema.
LEMMA BuiltTyped ==
  ASSUME TablesTotal, NEW parameters \in ParameterValues, NEW load \in Loads,
         NEW fidelity \in AnalysisFidelities, NEW history \in HistoryContext,
         NEW provenance \in ProvenanceRecord
  PROVE  WorldState(BuildWorldState(parameters, load, fidelity, history, provenance))
  <1> DEFINE s == BuildWorldState(parameters, load, fidelity, history, provenance)
             ood == OodScore(parameters)
             doubt == 15 + Rounded(45 * ood, 100) + (IF CircuitFamily = "unknown" THEN 10 ELSE 0)
             noise == 12 + Rounded(15 * LoadPenalty(load), 100)
             epistemic == Min({100, doubt})
             aleatoric == Min({100, noise})
             confidence == Clip(100 - Rounded(60 * epistemic + 40 * aleatoric, 100), 5, 98)
  <1>1. ood \in Nat
    BY OodTyped
  <1>2. epistemic \in Percent
    <2>1. doubt \in Nat
      <3> HIDE DEF ood
      <3> QED  BY <1>1 DEF Rounded
    <2> HIDE DEF doubt
    <2>2. Min({100, doubt}) = IF 100 <= doubt THEN 100 ELSE doubt
      BY <2>1, OfTwo
    <2> QED  BY <2>1, <2>2 DEF Percent
  <1>3. aleatoric \in Percent
    <2>1. noise \in Nat
      BY DEF Rounded, LoadPenalty
    <2> HIDE DEF noise
    <2>2. Min({100, noise}) = IF 100 <= noise THEN 100 ELSE noise
      BY <2>1, OfTwo
    <2> QED  BY <2>1, <2>2 DEF Percent
  <1>4. confidence \in Percent
    <2> HIDE DEF epistemic, aleatoric
    <2> QED  BY <1>2, <1>3 DEF Percent, Clip, Rounded
  <1>5. s.uncertainty = [source |-> "prediction", epistemic |-> epistemic, aleatoric |-> aleatoric,
                         ood |-> Clip(ood, 0, 100), confidence |-> confidence]
    BY DEF BuildWorldState
  <1>6. Clip(ood, 0, 100) \in Percent
    <2> HIDE DEF ood
    <2> QED  BY <1>1 DEF Clip, Percent
  <1>7. s.uncertainty \in UncertaintyContext
    <2> HIDE DEF epistemic, aleatoric, confidence, ood, s
    <2> QED  BY <1>2, <1>3, <1>4, <1>5, <1>6 DEF UncertaintyContext, FieldSources
  <1>8. /\ s.parameters = parameters /\ s.load = load /\ s.fidelity = fidelity
        /\ s.observed = Projected(parameters, load) /\ s.history = history
        /\ s.provenance = provenance
    BY DEF BuildWorldState
  <1>9. MapOf(Projected(parameters, load), Metrics, Int)
    BY ProjectedTyped
  <1> HIDE DEF s
  <1>10. WorldState(s)
    BY <1>7, <1>8, <1>9 DEF WorldState
  <1> QED  BY <1>10 DEF s

LEMMA AppliedTyped ==
  ASSUME NEW parameters \in ParameterValues, NEW a \in DesignActions, Admissible(a)
  PROVE  Applied(parameters, a) \in ParameterValues
  <1>1. a \in DesignAction
    BY CallerAssumption
  <1>2. a.operator \in {"set", "shift", "scale"} => a.payload[1] \in Int
    BY <1>1 DEF DesignAction, Admissible
  <1>3. ASSUME NEW v \in FeatureKeys PROVE NewValue(a, parameters.value[v]) \in Int
    <2>1. parameters.value[v] \in Int
      BY DEF ParameterValues
    <2> QED  BY <1>2, <2>1 DEF NewValue
  <1>4. "choice" \in a.targets => NewValue(a, parameters.choice) \in 0 .. Len(TemplateChoices)
    BY ChoiceAssumption DEF ParameterValues
  <1>5. /\ parameters.choice \in 0 .. Len(TemplateChoices)
        /\ \A v \in FeatureKeys : parameters.value[v] \in Int
    BY DEF ParameterValues
  <1> QED  BY <1>3, <1>4, <1>5 DEF Applied, ParameterValues

LEMMA NextTyped ==
  ASSUME TablesTotal, NEW s, WorldState(s), NEW a \in DesignActions, Admissible(a)
  PROVE  WorldState(NextState(s, a))
  <1> DEFINE history == [actions |-> Append(s.history.actions, a.id),
                         depth |-> s.history.depth + 1]
             fidelity == IF a.operator = "promote_fidelity" THEN "partial_simulation"
                         ELSE s.fidelity
             provenance == Provenance("predicted", s.provenance.artifacts)
  <1>1. history \in HistoryContext
    BY DEF WorldState, HistoryContext
  <1>2. fidelity \in AnalysisFidelities
    BY DEF WorldState, AnalysisFidelities
  <1>3. provenance \in ProvenanceRecord
    <2>1. s.provenance.artifacts \in BOOLEAN
      BY DEF WorldState, ProvenanceRecord
    <2> QED  BY <2>1 DEF Provenance, ProvenanceRecord, StateOrigins, SourceStages
  <1>4. Applied(s.parameters, a) \in ParameterValues /\ s.load \in Loads
    BY AppliedTyped DEF WorldState
  <1>5. NextState(s, a) =
           BuildWorldState(Applied(s.parameters, a), s.load, fidelity, history, provenance)
    BY DEF NextState
  <1> HIDE DEF fidelity, provenance, history
  <1> QED  BY <1>1, <1>2, <1>3, <1>4, <1>5, BuiltTyped

(***************************************************************************)
(* Lists                                                                   *)
(***************************************************************************)

\* Members are placed by how many come before them: below[x] are those before x.
PlacedBy(S, below, place) ==
    /\ below \in [S -> SUBSET S]
    /\ \A x \in S : x \notin below[x]
    /\ \A x, y \in S : x # y => \/ x \in below[y] /\ below[x] \subseteq below[y]
                                \/ y \in below[x] /\ below[y] \subseteq below[x]
    /\ place = [x \in S |-> 1 + Cardinality(below[x])]

\* Every place is taken, and once.
LEMMA PlacesAreTaken ==
  ASSUME NEW S, IsFiniteSet(S), NEW below, NEW place, PlacedBy(S, below, place)
  PROVE  /\ Cardinality(S) \in Nat
         /\ \A n \in 1 .. Cardinality(S) : \E x \in S : place[x] = n
         /\ \A x \in S : place[x] \in 1 .. Cardinality(S)
  <1> USE DEF PlacedBy
  <1> DEFINE N == Cardinality(S)
  <1>1. N \in Nat
    BY FS_CardinalityType
  <1>2. \A x \in S : IsFiniteSet(below[x]) /\ Cardinality(below[x]) \in Nat
    BY FS_Subset, FS_CardinalityType
  <1>3. ASSUME NEW x \in S PROVE place[x] \in 1 .. N
    <2>1. below[x] \in SUBSET S /\ below[x] # S
      OBVIOUS
    <2>2. Cardinality(below[x]) <= N /\ Cardinality(below[x]) # N
      BY <2>1, FS_Subset
    <2> QED  BY <1>1, <1>2, <2>2
  <1>4. ASSUME NEW x \in S, NEW y \in S, x \in below[y], below[x] \subseteq below[y]
        PROVE  place[x] < place[y]
    <2>1. IsFiniteSet(below[y]) /\ below[x] \in SUBSET below[y] /\ below[x] # below[y]
      BY <1>2, <1>4
    <2>2. /\ Cardinality(below[x]) <= Cardinality(below[y])
          /\ Cardinality(below[x]) # Cardinality(below[y])
      BY <2>1, FS_Subset
    <2> QED  BY <1>2, <2>2
  <1>5. \A x \in S : place[x] \in Int
    BY <1>1, <1>3
  <1>6. \A x, y \in S : place[x] = place[y] => x = y
    BY <1>4, <1>5
  <1>7. \A n \in 1 .. N : \E x \in S : place[x] = n
    <2>1. place \in Injection(S, 1 .. N)
      BY <1>3, <1>6 DEF Injection, IsInjective
    <2>2. IsFiniteSet(1 .. N) /\ Cardinality(1 .. N) = N
      BY <1>1, FS_Interval
    <2>3. place \in Surjection(S, 1 .. N)
      BY <2>1, <2>2, FS_Injection
    <2> QED  BY <2>3 DEF Surjection
  <1> QED  BY <1>1, <1>3, <1>7

\* A list is part of another when it holds members of it, each as often at the most.
Picks(at, t, s) ==
    /\ \A n \in DOMAIN t : at[n] \in DOMAIN s /\ t[n] = s[at[n]]
    /\ \A i, j \in DOMAIN t : at[i] = at[j] => i = j
PartOf(t, s) == \E at : Picks(at, t, s)

LEMMA PartOfPart ==
  ASSUME NEW s, NEW t, NEW u, PartOf(u, t), PartOf(t, s)
  PROVE  PartOf(u, s)
  <1>1. PICK at1 : Picks(at1, u, t)
    BY DEF PartOf
  <1>2. PICK at2 : Picks(at2, t, s)
    BY DEF PartOf
  <1>3. Picks([n \in DOMAIN u |-> at2[at1[n]]], u, s)
    BY <1>1, <1>2 DEF Picks
  <1> QED  BY <1>3 DEF PartOf

\* What is chosen of a list is a part of it, from the chosen indices.
LEMMA ChosenHolds ==
  ASSUME NEW X, NEW s \in Seq(X), NEW I \in SUBSET DOMAIN s
  PROVE  /\ Chosen(s, I) \in Seq(X)
         /\ \E at : Picks(at, Chosen(s, I), s) /\ \A n \in DOMAIN Chosen(s, I) : at[n] \in I
  <1> DEFINE below == [i \in I |-> {j \in I : j < i}]
             place == [i \in I |-> 1 + Cardinality({j \in I : j < i})]
             at == [n \in 1 .. Cardinality(I) |-> CHOOSE i \in I : place[i] = n]
             N == Cardinality(I)
  <1>1. Len(s) \in Nat /\ DOMAIN s = 1 .. Len(s) /\ I \subseteq Int
    OBVIOUS
  <1>2. IsFiniteSet(I)
    <2>1. IsFiniteSet(1 .. Len(s))
      BY <1>1, FS_Interval
    <2> QED  BY <1>1, <2>1, FS_Subset
  <1>3. PlacedBy(I, below, place)
    BY <1>1 DEF PlacedBy
  <1>4. N \in Nat /\ \A n \in 1 .. N : \E x \in I : place[x] = n
    <2> HIDE DEF below, place
    <2> QED  BY <1>2, <1>3, PlacesAreTaken
  <1>5. Chosen(s, I) = [n \in 1 .. N |-> s[at[n]]]
    BY DEF Chosen
  <1> HIDE DEF place
  <1>6. \A n \in 1 .. N : at[n] \in I /\ place[at[n]] = n
    BY <1>4
  <1> HIDE DEF at
  <1>7. \A n \in 1 .. N : s[at[n]] \in X
    BY <1>6
  <1>8. Chosen(s, I) \in Seq(X)
    BY <1>4, <1>5, <1>7
  <1>9. DOMAIN Chosen(s, I) = 1 .. N
    BY <1>5
  <1>10. Picks(at, Chosen(s, I), s)
    BY <1>5, <1>6, <1>9 DEF Picks
  <1> QED  BY <1>6, <1>8, <1>9, <1>10

LEMMA FirstOfHolds ==
  ASSUME NEW X, NEW s \in Seq(X), NEW n \in Nat
  PROVE  FirstOf(n, s) \in Seq(X) /\ PartOf(FirstOf(n, s), s)
  <1> DEFINE m == IF Len(s) < n THEN Len(s) ELSE n
             t == FirstOf(n, s)
  <1>0. DOMAIN s = 1 .. Len(s)
    OBVIOUS
  <1>1. Len(s) \in Nat /\ m \in 0 .. Len(s)
    OBVIOUS
  <1>2. t = SubSeq(s, 1, m)
    BY DEF FirstOf
  <1> HIDE DEF m, t
  <1>3. t \in Seq(X) /\ Len(t) = m /\ \A i \in 1 .. m : t[i] = s[i]
    BY <1>1, <1>2
  <1>4. DOMAIN t = 1 .. m
    BY <1>1, <1>3
  <1>5. Picks([i \in 1 .. m |-> i], t, s)
    BY <1>0, <1>1, <1>3, <1>4 DEF Picks
  <1> QED  BY <1>3, <1>5 DEF PartOf, t

\* The lists of a list, one after the other: where each member of the whole comes from.
FlatFrom(flat, seqs) ==
    flat = [i \in 1 .. Len(seqs) |-> IF i = 1 THEN seqs[i] ELSE flat[i - 1] \o seqs[i]]
ComesFrom(from, whole, seqs, n) ==
    /\ \A k \in DOMAIN whole : /\ from[k] \in (1 .. n) \X Nat
                               /\ from[k][2] \in DOMAIN seqs[from[k][1]]
                               /\ whole[k] = seqs[from[k][1]][from[k][2]]
    /\ \A k, l \in DOMAIN whole : from[k] = from[l] => k = l

LEMMA Lengthened ==
  ASSUME NEW X, NEW seqs \in Seq(Seq(X)), NEW n \in Nat, n + 1 \in DOMAIN seqs,
         NEW whole \in Seq(X), NEW from, ComesFrom(from, whole, seqs, n)
  PROVE  \E more : ComesFrom(more, whole \o seqs[n + 1], seqs, n + 1)
  <1> DEFINE last == seqs[n + 1]
             a == Len(whole)
             b == Len(last)
             all == whole \o last
             more == [k \in 1 .. a + b |-> IF k <= a THEN from[k] ELSE <<n + 1, k - a>>]
  <1>1. last \in Seq(X)
    OBVIOUS
  <1>2. a \in Nat /\ b \in Nat
    BY <1>1
  <1>3. DOMAIN whole = 1 .. a /\ DOMAIN last = 1 .. b
    BY <1>1
  <1> HIDE DEF last
  <1>4. /\ all \in Seq(X) /\ Len(all) = a + b
        /\ \A k \in 1 .. a + b : all[k] = IF k <= a THEN whole[k] ELSE last[k - a]
    BY <1>1, ConcatProperties
  <1>5. DOMAIN all = 1 .. a + b
    BY <1>4
  <1> HIDE DEF a, b, all
  <1>6. ASSUME NEW k \in 1 .. a + b
        PROVE  /\ k <= a => /\ more[k] = from[k] /\ k \in DOMAIN whole
                            /\ from[k] \in (1 .. n) \X Nat
               /\ ~(k <= a) => more[k] = <<n + 1, k - a>> /\ k - a \in 1 .. b
    BY <1>2, <1>3 DEF ComesFrom
  <1> HIDE DEF more
  <1>7. ASSUME NEW k \in 1 .. a + b
        PROVE  /\ more[k] \in (1 .. n + 1) \X Nat
               /\ more[k][2] \in DOMAIN seqs[more[k][1]]
               /\ all[k] = seqs[more[k][1]][more[k][2]]
    <2>1. CASE k <= a
      <3>1. more[k] = from[k] /\ k \in DOMAIN whole /\ all[k] = whole[k]
        BY <1>4, <1>6, <2>1
      <3>2. /\ from[k] \in (1 .. n) \X Nat /\ from[k][2] \in DOMAIN seqs[from[k][1]]
            /\ whole[k] = seqs[from[k][1]][from[k][2]]
        BY <3>1 DEF ComesFrom
      <3>3. from[k] \in (1 .. n + 1) \X Nat
        BY <3>2
      <3> QED  BY <3>1, <3>2, <3>3
    <2>2. CASE ~(k <= a)
      <3>1. more[k] = <<n + 1, k - a>> /\ k - a \in 1 .. b /\ all[k] = last[k - a]
        BY <1>4, <1>6, <2>2
      <3>2. more[k][1] = n + 1 /\ more[k][2] = k - a
        BY <3>1
      <3>3. seqs[n + 1] = last
        BY DEF last
      <3> QED  BY <1>2, <1>3, <3>1, <3>2, <3>3
    <2> QED  BY <2>1, <2>2
  <1>8. ASSUME NEW k \in 1 .. a + b
        PROVE  /\ k <= a => more[k][1] \in 1 .. n
               /\ ~(k <= a) => more[k][1] = n + 1 /\ more[k][2] = k - a
    BY <1>6
  <1>9. ASSUME NEW k \in 1 .. a + b, NEW l \in 1 .. a + b, more[k] = more[l]
        PROVE  k = l
    <2>1. more[k][1] = more[l][1] /\ more[k][2] = more[l][2] /\ n + 1 \notin 1 .. n
      BY <1>9
    <2>2. CASE k <= a /\ l <= a
      BY <1>6, <1>9, <2>2 DEF ComesFrom
    <2>3. CASE ~(k <= a) /\ ~(l <= a)
      <3>1. more[k][2] = k - a /\ more[l][2] = l - a
        BY <1>8, <2>3
      <3>2. k - a = l - a
        BY <2>1, <3>1
      <3>3. k \in Int /\ l \in Int
        BY <1>2
      <3> HIDE DEF more
      <3> QED  BY <1>2, <3>2, <3>3
    <2>4. CASE (k <= a) /\ ~(l <= a)
      BY <1>8, <2>1, <2>4
    <2>5. CASE ~(k <= a) /\ (l <= a)
      BY <1>8, <2>1, <2>5
    <2> QED  BY <2>2, <2>3, <2>4, <2>5
  <1>10. ComesFrom(more, all, seqs, n + 1)
    BY <1>5, <1>7, <1>9 DEF ComesFrom
  <1> QED  BY <1>10 DEF all, last

LEMMA FlattenExists ==
  ASSUME NEW X, NEW seqs \in Seq(Seq(X))
  PROVE  \E flat : FlatFrom(flat, seqs)
  <1> DEFINE At(flat, i) == IF i = 1 THEN seqs[i] ELSE flat[i - 1] \o seqs[i]
             Upto(flat, n) == flat = [i \in 1 .. n |-> At(flat, i)]
             S == {n \in Nat : \E flat : Upto(flat, n)}
  <1>1. 0 \in S
    <2>1. Upto(<<>>, 0)
      OBVIOUS
    <2> QED  BY <2>1
  <1>2. ASSUME NEW n \in Nat, n \in S PROVE n + 1 \in S
    <2>1. PICK flat : Upto(flat, n)
      BY <1>2
    <2> DEFINE more == [i \in 1 .. n + 1 |-> At(flat, i)]
    <2>2. ASSUME NEW i \in 1 .. n + 1 PROVE At(flat, i) = At(more, i)
      <3>1. CASE i = 1
        BY <3>1
      <3>2. CASE i # 1
        <4>1. i - 1 \in 1 .. n /\ i - 1 \in 1 .. n + 1
          BY <3>2
        <4>2. flat[i - 1] = At(flat, i - 1)
          <5> HIDE DEF At
          <5> QED  BY <2>1, <4>1
        <4>3. more[i - 1] = At(flat, i - 1)
          <5> HIDE DEF At
          <5> QED  BY <4>1
        <4>4. flat[i - 1] = more[i - 1]
          BY <4>2, <4>3
        <4> HIDE DEF more
        <4> QED  BY <3>2, <4>4
      <3> QED  BY <3>1, <3>2
    <2>3. Upto(more, n + 1)
      <3> HIDE DEF At
      <3>1. [i \in 1 .. n + 1 |-> At(flat, i)] = [i \in 1 .. n + 1 |-> At(more, i)]
        BY <2>2
      <3> QED  BY <3>1
    <2> HIDE DEF Upto, more
    <2> QED  BY <2>3
  <1>3. Len(seqs) \in S
    <2>1. \A n \in Nat : n \in S
      <3> HIDE DEF S
      <3> QED  BY <1>1, <1>2, Induct
    <2> HIDE DEF S
    <2> QED  BY <2>1
  <1> QED  BY <1>3 DEF FlatFrom

\* The lists of a list, one after the other, hold their members and no other, each once.
LEMMA FlattenHolds ==
  ASSUME NEW X, NEW seqs \in Seq(Seq(X))
  PROVE  /\ FlattenSeq(seqs) \in Seq(X)
         /\ \E from : ComesFrom(from, FlattenSeq(seqs), seqs, Len(seqs))
  <1>0. Len(seqs) \in Nat /\ DOMAIN seqs = 1 .. Len(seqs)
    OBVIOUS
  <1>1. CASE Len(seqs) = 0
    <2>1. FlattenSeq(seqs) = <<>>
      BY <1>1 DEF FlattenSeq
    <2>2. ComesFrom(<<>>, <<>>, seqs, Len(seqs))
      BY DEF ComesFrom
    <2> QED  BY <2>1, <2>2
  <1>2. CASE Len(seqs) # 0
    <2> DEFINE flat == CHOOSE g : FlatFrom(g, seqs)
    <2>1. FlatFrom(flat, seqs)
      BY FlattenExists
    <2>2. FlattenSeq(seqs) = flat[Len(seqs)]
      BY <1>2 DEF FlattenSeq, FlatFrom
    <2> HIDE DEF flat
    <2> DEFINE Good(n) == flat[n] \in Seq(X) /\ \E from : ComesFrom(from, flat[n], seqs, n)
               S == {n \in Nat : n + 1 <= Len(seqs) => Good(n + 1)}
    <2>3. 0 \in S
      <3>1. 1 \in DOMAIN seqs /\ seqs[1] \in Seq(X)
        BY <1>0, <1>2
      <3>2. flat[1] = seqs[1]
        BY <1>0, <2>1, <3>1 DEF FlatFrom
      <3>3. \A k \in DOMAIN seqs[1] : k \in Nat
        BY <3>1
      <3> DEFINE from == [k \in DOMAIN seqs[1] |-> <<1, k>>]
      <3>4. \A k \in DOMAIN seqs[1] : /\ from[k] = <<1, k>>
                                      /\ from[k][1] = 1 /\ from[k][2] = k
        OBVIOUS
      <3> HIDE DEF from
      <3>5. ComesFrom(from, flat[1], seqs, 1)
        <4>1. \A k \in DOMAIN seqs[1] : from[k] \in (1 .. 1) \X Nat
          <5>1. \A k \in Nat : <<1, k>> \in (1 .. 1) \X Nat
            OBVIOUS
          <5> QED  BY <3>3, <3>4, <5>1
        <4> QED  BY <3>2, <3>4, <4>1 DEF ComesFrom
      <3>6. Good(1)
        BY <3>1, <3>2, <3>5
      <3> HIDE DEF Good
      <3> QED  BY <3>6
    <2>4. ASSUME NEW n \in Nat, n \in S PROVE n + 1 \in S
      <3> SUFFICES ASSUME n + 2 <= Len(seqs) PROVE Good(n + 2)
        <4> HIDE DEF Good
        <4>1. (n + 1) + 1 = n + 2
          OBVIOUS
        <4> QED  BY <4>1
      <3>1. Good(n + 1)
        <4> HIDE DEF Good
        <4>1. n + 1 <= Len(seqs)
          BY <1>0
        <4> QED  BY <2>4, <4>1
      <3> DEFINE i == n + 1
      <3>2. i \in Nat /\ i + 1 \in DOMAIN seqs /\ i + 1 = n + 2 /\ i + 1 # 1 /\ (i + 1) - 1 = i
        BY <1>0
      <3> HIDE DEF i
      <3>3. flat[i + 1] = flat[i] \o seqs[i + 1]
        BY <1>0, <2>1, <3>2 DEF FlatFrom
      <3>4. PICK from : ComesFrom(from, flat[i], seqs, i)
        BY <3>1 DEF i
      <3>5. flat[i] \in Seq(X) /\ seqs[i + 1] \in Seq(X)
        BY <3>1, <3>2 DEF i
      <3>6. \E more : ComesFrom(more, flat[i] \o seqs[i + 1], seqs, i + 1)
        BY <3>2, <3>4, <3>5, Lengthened
      <3>7. flat[i] \o seqs[i + 1] \in Seq(X)
        BY <3>5
      <3> QED  BY <3>2, <3>3, <3>6, <3>7
    <2>5. \A n \in Nat : n \in S
      <3> HIDE DEF S
      <3> QED  BY <2>3, <2>4, Induct
    <2>6. Good(Len(seqs))
      <3>1. Len(seqs) - 1 \in Nat /\ (Len(seqs) - 1) + 1 = Len(seqs)
        BY <1>0, <1>2
      <3> HIDE DEF Good
      <3>2. Len(seqs) - 1 \in S
        <4> HIDE DEF S
        <4> QED  BY <2>5, <3>1
      <3> QED  BY <1>0, <3>1, <3>2
    <2> QED  BY <2>2, <2>6
  <1> QED  BY <1>1, <1>2

(***************************************************************************)
(* Datasets and their splits                                               *)
(***************************************************************************)

\* The record that a verification leaves when its candidate has a snapshot.
RecordOf(v) ==
    [id |-> <<v.run, v.candidate>>, split |-> SplitForRecord(v), family |-> v.family,
     normalized |-> v.normalized, measured |-> v.measured]
AllRecords(stats) == [n \in DOMAIN stats |-> RecordOf(stats[n])]

\* The split of a record follows from its id.
SoundRecord(r) ==
    /\ DatasetRecord(r)
    /\ r.split = IF Digest[<<r.id[2], r.id[1]>>] = 0 THEN "eval" ELSE "train"

LEMMA RecordSound ==
  ASSUME NEW v, VerificationStats(v)
  PROVE  SoundRecord(RecordOf(v)) /\ RecordOf(v).id = <<v.run, v.candidate>>
  BY DEF VerificationStats, SoundRecord, DatasetRecord, RecordOf, SplitForRecord, Splits

\* The members of a list that are all sound.
SoundRecords(s) == s \in Seq(Range(s)) /\ \A n \in DOMAIN s : SoundRecord(s[n])

LEMMA OfRange ==
  ASSUME NEW X, NEW s \in Seq(X)
  PROVE  s \in Seq(Range(s)) /\ DOMAIN s = 1 .. Len(s) /\ Len(s) \in Nat
  <1>1. Len(s) \in Nat /\ DOMAIN s = 1 .. Len(s) /\ s = [n \in 1 .. Len(s) |-> s[n]]
    OBVIOUS
  <1>2. s \in [1 .. Len(s) -> Range(s)]
    BY <1>1 DEF Range
  <1> QED  BY <1>1, <1>2, SeqDef

LEMMA PartSound ==
  ASSUME NEW s, SoundRecords(s), NEW X, NEW t \in Seq(X), PartOf(t, s)
  PROVE  SoundRecords(t)
  <1>1. \A n \in DOMAIN t : SoundRecord(t[n])
    BY DEF PartOf, Picks, SoundRecords
  <1> QED  BY <1>1, OfRange DEF SoundRecords

LEMMA AllRecordsSound ==
  ASSUME NEW stats \in Experiments
  PROVE  SoundRecords(AllRecords(stats)) /\ DOMAIN AllRecords(stats) = DOMAIN stats
  <1>1. stats \in Seq(Range(stats)) /\ \A n \in DOMAIN stats : VerificationStats(stats[n])
    BY RecordsAssumption
  <1>2. DOMAIN stats = 1 .. Len(stats) /\ Len(stats) \in Nat
    BY <1>1
  <1> DEFINE all == AllRecords(stats)
             X == {RecordOf(stats[n]) : n \in DOMAIN stats}
  <1>3. \A n \in DOMAIN stats : RecordOf(stats[n]) \in X
    OBVIOUS
  <1>4. all \in [1 .. Len(stats) -> X]
    BY <1>2, <1>3 DEF AllRecords
  <1>5. all \in Seq(X)
    <2> HIDE DEF all, X
    <2> QED  BY <1>2, <1>4, SeqDef
  <1>6. DOMAIN all = DOMAIN stats /\ \A n \in DOMAIN stats : all[n] = RecordOf(stats[n])
    BY DEF AllRecords
  <1>7. \A n \in DOMAIN stats : SoundRecord(RecordOf(stats[n]))
    BY <1>1, RecordSound
  <1> HIDE DEF all, X
  <1>8. SoundRecords(all)
    BY <1>5, <1>6, <1>7, OfRange DEF SoundRecords
  <1> QED  BY <1>6, <1>8 DEF all

LEMMA RecordsPart ==
  ASSUME NEW stats \in Experiments
  PROVE  SoundRecords(Records(stats)) /\ PartOf(Records(stats), AllRecords(stats))
  <1> DEFINE all == AllRecords(stats)
             I == {n \in DOMAIN stats : stats[n].snapshot}
  <1>1. Records(stats) = Chosen(all, I)
    BY DEF Records, AllRecords, RecordOf
  <1>2. SoundRecords(all) /\ I \in SUBSET DOMAIN all
    BY AllRecordsSound
  <1> HIDE DEF all, I
  <1>3. Chosen(all, I) \in Seq(Range(all)) /\ PartOf(Chosen(all, I), all)
    BY <1>2, ChosenHolds DEF SoundRecords, PartOf
  <1>4. SoundRecords(Chosen(all, I))
    BY <1>2, <1>3, PartSound
  <1> QED  BY <1>1, <1>3, <1>4 DEF all

\* The records of a family, and those of a split.
LEMMA OfFamilyHolds ==
  ASSUME NEW X, NEW s \in Seq(X), NEW f
  PROVE  /\ OfFamily(s, f) \in Seq(X) /\ PartOf(OfFamily(s, f), s)
         /\ \A n \in DOMAIN OfFamily(s, f) : OfFamily(s, f)[n].family = f
  <1> DEFINE I == {n \in DOMAIN s : s[n].family = f}
             t == Chosen(s, I)
  <1>1. I \in SUBSET DOMAIN s /\ \A n \in I : s[n].family = f
    OBVIOUS
  <1>2. t = OfFamily(s, f)
    BY DEF OfFamily
  <1> HIDE DEF I
  <1>3. t \in Seq(X) /\ \E at : Picks(at, t, s) /\ \A n \in DOMAIN t : at[n] \in I
    BY <1>1, ChosenHolds
  <1> HIDE DEF t
  <1>4. PICK at : Picks(at, t, s) /\ \A n \in DOMAIN t : at[n] \in I
    BY <1>3
  <1>5. \A n \in DOMAIN t : at[n] \in I /\ t[n] = s[at[n]]
    BY <1>4 DEF Picks
  <1>6. \A n \in DOMAIN t : t[n].family = f
    BY <1>1, <1>5
  <1>7. PartOf(t, s)
    BY <1>4 DEF PartOf
  <1> QED  BY <1>2, <1>3, <1>6, <1>7

LEMMA SplitOfHolds ==
  ASSUME NEW X, NEW s \in Seq(X), NEW split
  PROVE  /\ SplitOf(s, split) \in Seq(X) /\ PartOf(SplitOf(s, split), s)
         /\ \A n \in DOMAIN SplitOf(s, split) : SplitOf(s, split)[n].split = split
  <1> DEFINE I == {n \in DOMAIN s : s[n].split = split}
             t == Chosen(s, I)
  <1>1. I \in SUBSET DOMAIN s /\ \A n \in I : s[n].split = split
    OBVIOUS
  <1>2. t = SplitOf(s, split)
    BY DEF SplitOf
  <1> HIDE DEF I
  <1>3. t \in Seq(X) /\ \E at : Picks(at, t, s) /\ \A n \in DOMAIN t : at[n] \in I
    BY <1>1, ChosenHolds
  <1> HIDE DEF t
  <1>4. PICK at : Picks(at, t, s) /\ \A n \in DOMAIN t : at[n] \in I
    BY <1>3
  <1>5. \A n \in DOMAIN t : at[n] \in I /\ t[n] = s[at[n]]
    BY <1>4 DEF Picks
  <1>6. \A n \in DOMAIN t : t[n].split = split
    BY <1>1, <1>5
  <1>7. PartOf(t, s)
    BY <1>4 DEF PartOf
  <1> QED  BY <1>2, <1>3, <1>6, <1>7

\* A cap leaves a part of the records: those of each family are together, and no family
\* comes twice.
LEMMA CappedHolds ==
  ASSUME NEW X, NEW s \in Seq(X), NEW cap \in Nat
  PROVE  Capped(s, cap) \in Seq(X) /\ PartOf(Capped(s, cap), s)
  <1>1. CASE cap = 0
    <2>1. Picks([n \in DOMAIN s |-> n], s, s)
      BY DEF Picks
    <2> QED  BY <1>1, <2>1 DEF Capped, PartOf
  <1>2. CASE cap # 0
    <2> DEFINE own(n) == OfFamily(s, CircuitFamilies[n])
               seqs == [n \in DOMAIN CircuitFamilies |-> FirstOf(cap, own(n))]
               whole == FlattenSeq(seqs)
    <2>1. Capped(s, cap) = whole
      BY <1>2 DEF Capped
    <2>2. ASSUME NEW n \in DOMAIN CircuitFamilies
          PROVE  /\ seqs[n] \in Seq(X) /\ PartOf(seqs[n], s)
                 /\ \A i \in DOMAIN seqs[n] : seqs[n][i].family = CircuitFamilies[n]
      <3>1. /\ own(n) \in Seq(X) /\ PartOf(own(n), s)
            /\ \A i \in DOMAIN own(n) : own(n)[i].family = CircuitFamilies[n]
        BY OfFamilyHolds
      <3> HIDE DEF own
      <3>2. seqs[n] \in Seq(X) /\ PartOf(seqs[n], own(n))
        BY <3>1, FirstOfHolds
      <3>3. PartOf(seqs[n], s)
        BY <3>1, <3>2, PartOfPart
      <3>4. \A i \in DOMAIN seqs[n] : \E j \in DOMAIN own(n) : seqs[n][i] = own(n)[j]
        <4> HIDE DEF seqs
        <4> QED  BY <3>2 DEF PartOf, Picks
      <3> HIDE DEF seqs
      <3> QED  BY <3>1, <3>2, <3>3, <3>4
    <2>3. /\ Len(CircuitFamilies) \in Nat /\ DOMAIN CircuitFamilies = 1 .. Len(CircuitFamilies)
          /\ DOMAIN seqs = DOMAIN CircuitFamilies
      BY TrainingAssumption
    <2> HIDE DEF seqs
    <2>4. seqs \in Seq(Seq(X)) /\ Len(seqs) = Len(CircuitFamilies)
      <3>1. seqs \in [1 .. Len(CircuitFamilies) -> Seq(X)]
        <4>1. seqs = [n \in DOMAIN CircuitFamilies |-> seqs[n]]
          BY DEF seqs
        <4> QED  BY <2>2, <2>3, <4>1
      <3>2. seqs \in Seq(Seq(X))
        BY <2>3, <3>1, SeqDef
      <3> QED  BY <2>3, <3>2
    <2>5. whole \in Seq(X) /\ \E from : ComesFrom(from, whole, seqs, Len(seqs))
      BY <2>4, FlattenHolds
    <2> HIDE DEF whole
    <2>6. PICK from : ComesFrom(from, whole, seqs, Len(seqs))
      BY <2>5
    <2> DEFINE pick(n) == CHOOSE at : Picks(at, seqs[n], s)
               at == [k \in DOMAIN whole |-> pick(from[k][1])[from[k][2]]]
    <2>7. \A n \in DOMAIN CircuitFamilies : Picks(pick(n), seqs[n], s)
      BY <2>2 DEF PartOf
    <2> HIDE DEF pick
    <2>8. ASSUME NEW k \in DOMAIN whole
          PROVE  /\ from[k][1] \in DOMAIN CircuitFamilies
                 /\ from[k][2] \in DOMAIN seqs[from[k][1]]
                 /\ from[k] = <<from[k][1], from[k][2]>>
                 /\ whole[k] = seqs[from[k][1]][from[k][2]]
      BY <2>3, <2>4, <2>6 DEF ComesFrom
    <2>9. ASSUME NEW k \in DOMAIN whole
          PROVE  /\ at[k] \in DOMAIN s /\ whole[k] = s[at[k]]
                 /\ whole[k].family = CircuitFamilies[from[k][1]]
      BY <2>2, <2>7, <2>8 DEF Picks
    <2>10. ASSUME NEW k \in DOMAIN whole, NEW l \in DOMAIN whole, at[k] = at[l]
           PROVE  k = l
      <3>1. from[k][1] = from[l][1]
        BY <2>8, <2>9, <2>10, TrainingAssumption
      <3>2. from[k][2] = from[l][2]
        BY <2>7, <2>8, <2>10, <3>1 DEF Picks
      <3>3. from[k] = from[l]
        BY <2>8, <3>1, <3>2
      <3> QED  BY <2>6, <3>3 DEF ComesFrom
    <2>11. Picks(at, whole, s)
      BY <2>9, <2>10 DEF Picks
    <2> QED  BY <2>1, <2>5, <2>11 DEF PartOf
  <1> QED  BY <1>1, <1>2

LEMMA DatasetHolds ==
  ASSUME NEW stats \in Experiments, NEW cap \in Caps
  PROVE  LET dataset == WorldModelDataset(stats, cap)
         IN  /\ SoundRecords(dataset.records)
             /\ PartOf(dataset.records, AllRecords(stats))
             /\ dataset.targets \subseteq Metrics
  <1> DEFINE dataset == WorldModelDataset(stats, cap)
             kept == Capped(Records(stats), cap)
  <1>1. cap \in Nat
    BY RecordsAssumption
  <1>2. SoundRecords(Records(stats)) /\ PartOf(Records(stats), AllRecords(stats))
    BY RecordsPart
  <1>3. kept \in Seq(Range(Records(stats))) /\ PartOf(kept, Records(stats))
    BY <1>1, <1>2, CappedHolds DEF SoundRecords
  <1>4. SoundRecords(kept) /\ PartOf(kept, AllRecords(stats))
    BY <1>2, <1>3, PartSound, PartOfPart
  <1>5. dataset.records = kept /\ dataset.targets = TargetsOf(kept)
    BY DEF WorldModelDataset, DatasetOf
  <1> HIDE DEF kept, dataset
  <1>6. TargetsOf(kept) \subseteq Metrics
    BY <1>4 DEF TargetsOf, SoundRecords, SoundRecord, DatasetRecord, MapOf
  <1> QED  BY <1>4, <1>5, <1>6 DEF dataset

\* A piece of a list.
LEMMA PieceHolds ==
  ASSUME NEW X, NEW s \in Seq(X), NEW a \in 1 .. Len(s) + 1, NEW b \in 0 .. Len(s), a <= b + 1
  PROVE  /\ SubSeq(s, a, b) \in Seq(X) /\ PartOf(SubSeq(s, a, b), s)
         /\ Len(SubSeq(s, a, b)) = b - a + 1
         /\ DOMAIN SubSeq(s, a, b) = 1 .. b - a + 1
         /\ \A i \in 1 .. b - a + 1 : SubSeq(s, a, b)[i] = s[a + i - 1]
  <1> DEFINE t == SubSeq(s, a, b)
  <1>0. DOMAIN s = 1 .. Len(s)
    OBVIOUS
  <1>1. Len(s) \in Nat
    OBVIOUS
  <1>2. t = [i \in 1 .. b - a + 1 |-> s[a + i - 1]]
    BY <1>1
  <1>3. \A i \in 1 .. b - a + 1 : a + i - 1 \in 1 .. Len(s)
    BY <1>1
  <1>4. \A i \in 1 .. b - a + 1 : s[a + i - 1] \in X
    BY <1>3
  <1>5. t \in Seq(X) /\ Len(t) = b - a + 1
    BY <1>1, <1>2, <1>4
  <1>6. DOMAIN t = 1 .. b - a + 1 /\ \A i \in 1 .. b - a + 1 : t[i] = s[a + i - 1]
    BY <1>2
  <1> HIDE DEF t
  <1> DEFINE at == [i \in 1 .. b - a + 1 |-> a + i - 1]
  <1>7. \A i \in DOMAIN t : at[i] = a + i - 1
    BY <1>6
  <1> HIDE DEF at
  <1>8. \A i \in DOMAIN t : at[i] \in DOMAIN s /\ t[i] = s[at[i]]
    BY <1>0, <1>3, <1>6, <1>7
  <1>9. \A i, j \in DOMAIN t : at[i] = at[j] => i = j
    BY <1>6, <1>7
  <1>10. PartOf(t, s)
    BY <1>8, <1>9 DEF PartOf, Picks
  <1> QED  BY <1>5, <1>6, <1>10 DEF t

\* Two records of a dataset with the same id are of a candidate that was verified again.
LEMMA SameIdAgain ==
  ASSUME NEW stats \in Experiments, NEW records, SoundRecords(records),
         PartOf(records, AllRecords(stats)),
         NEW i \in DOMAIN records, NEW j \in DOMAIN records, i # j,
         records[i].id = records[j].id
  PROVE  records[i].id \in VerifiedAgain
  <1>1. PICK at : Picks(at, records, AllRecords(stats))
    BY DEF PartOf
  <1>2. /\ at[i] \in DOMAIN stats /\ at[j] \in DOMAIN stats /\ at[i] # at[j]
        /\ records[i] = RecordOf(stats[at[i]]) /\ records[j] = RecordOf(stats[at[j]])
    BY <1>1, AllRecordsSound DEF Picks, AllRecords
  <1>3. \A v : RecordOf(v).id = <<v.run, v.candidate>>
    BY DEF RecordOf
  <1>4. records[i].id \in Runs \X Candidates
    BY DEF SoundRecords, SoundRecord, DatasetRecord
  <1>5. \A n \in {at[i], at[j]} : <<stats[n].run, stats[n].candidate>> = records[i].id
    BY <1>2, <1>3
  <1> QED  BY <1>2, <1>4, <1>5 DEF VerifiedAgain

\* What a surrogate is trained and judged on.
SoundSplit(split) ==
    /\ split.source \in SplitSources
    /\ SoundRecords(split.train) /\ SoundRecords(split.eval)
    /\ split.source = "dataset_declared" => IdsOf(split.train) \cap IdsOf(split.eval) = {}
    /\ split.source = "fallback_missing_eval" =>
          IdsOf(split.train) \cap IdsOf(split.eval) \subseteq VerifiedAgain

LEMMA SplitHolds ==
  ASSUME NEW stats \in Experiments, NEW records, SoundRecords(records),
         PartOf(records, AllRecords(stats))
  PROVE  SoundSplit(ResolvedSplit(records))
  <1> DEFINE train == SplitOf(records, "train")
             eval == SplitOf(records, "eval")
             X == Range(records)
             L == Len(records)
             a == Max({1, L - MinimumEvalRecords + 1})
             last == LastOf(MinimumEvalRecords, records)
             first == SubSeq(records, 1, L - Len(last))
             few == SubSeq(records, 1, Max({1, L - MinimumEvalRecords}))
  <1>0. records \in Seq(X) /\ L \in Nat /\ MinimumEvalRecords \in Nat
    BY TrainingAssumption DEF SoundRecords
  <1>1. SoundRecords(train) /\ \A n \in DOMAIN train : train[n].split = "train"
    BY <1>0, SplitOfHolds, PartSound
  <1>2. SoundRecords(eval) /\ \A n \in DOMAIN eval : eval[n].split = "eval"
    BY <1>0, SplitOfHolds, PartSound
  <1> HIDE DEF X
  <1>3. a \in 1 .. L + 1
    <2>1. a = IF 1 >= L - MinimumEvalRecords + 1 THEN 1 ELSE L - MinimumEvalRecords + 1
      BY <1>0, OfTwo
    <2> QED  BY <1>0, <2>1
  <1>4. last = SubSeq(records, a, L)
    BY DEF LastOf
  <1> HIDE DEF a, L
  <1>5. /\ last \in Seq(X) /\ PartOf(last, records)
        /\ Len(last) = L - a + 1 /\ DOMAIN last = 1 .. L - a + 1
        /\ \A i \in 1 .. L - a + 1 : last[i] = records[a + i - 1]
    <2>1. L \in 0 .. L /\ a <= L + 1 /\ L = Len(records)
      BY <1>0, <1>3 DEF L
    <2> HIDE DEF last
    <2> QED  BY <1>0, <1>3, <1>4, <2>1, PieceHolds
  <1>6. L - Len(last) = a - 1
    BY <1>0, <1>3, <1>5
  <1>7. /\ first \in Seq(X) /\ PartOf(first, records)
        /\ DOMAIN first = 1 .. a - 1
        /\ \A i \in 1 .. a - 1 : first[i] = records[i]
    <2> DEFINE b == a - 1
    <2>1. b \in 0 .. L /\ 1 \in 1 .. L + 1 /\ 1 <= b + 1 /\ L = Len(records) /\ b - 1 + 1 = b
      BY <1>0, <1>3 DEF L
    <2>2. first = SubSeq(records, 1, b)
      BY <1>6
    <2>3. \A i \in 1 .. b : 1 + i - 1 = i
      BY <2>1
    <2> HIDE DEF b, first
    <2>4. /\ first \in Seq(X) /\ PartOf(first, records) /\ DOMAIN first = 1 .. b
          /\ \A i \in 1 .. b : first[i] = records[i]
      BY <1>0, <2>1, <2>2, <2>3, PieceHolds
    <2> QED  BY <2>4 DEF b
  <1>8. SoundRecords(first) /\ SoundRecords(last)
    <2> HIDE DEF first, last
    <2> QED  BY <1>5, <1>7, PartSound
  <1>9. IdsOf(train) \cap IdsOf(eval) = {}
    <2> SUFFICES ASSUME NEW i \in DOMAIN train, NEW j \in DOMAIN eval, train[i].id = eval[j].id
                 PROVE  FALSE
      BY DEF IdsOf
    <2>1. train[i].split = "train" /\ eval[j].split = "eval"
      BY <1>1, <1>2
    <2>2. SoundRecord(train[i]) /\ SoundRecord(eval[j])
      BY <1>1, <1>2 DEF SoundRecords
    <2> HIDE DEF train, eval
    <2> QED  BY <2>1, <2>2 DEF SoundRecord
  <1>10. IdsOf(first) \cap IdsOf(last) \subseteq VerifiedAgain
    <2> SUFFICES ASSUME NEW i \in DOMAIN first, NEW j \in DOMAIN last, first[i].id = last[j].id
                 PROVE  first[i].id \in VerifiedAgain
      BY DEF IdsOf
    <2> HIDE DEF first, last
    <2>1. /\ first[i] = records[i] /\ last[j] = records[a + j - 1]
          /\ i \in 1 .. a - 1 /\ j \in 1 .. L - a + 1
      BY <1>5, <1>7
    <2>2. i \in 1 .. L /\ a + j - 1 \in 1 .. L /\ i # a + j - 1
      BY <1>0, <1>3, <2>1
    <2>3. DOMAIN records = 1 .. L
      BY <1>0, OfRange DEF L
    <2> QED  BY <2>1, <2>2, <2>3, SameIdAgain
  <1>11. CASE Len(records) = 1
    BY <1>11 DEF ResolvedSplit, Summary, SoundSplit, SplitSources
  <1>12. CASE Len(records) # 1 /\ eval = <<>>
    <2>1. ResolvedSplit(records) = Summary("fallback_missing_eval", first, last)
      BY <1>12 DEF ResolvedSplit, L
    <2> HIDE DEF first, last, eval
    <2> QED  BY <1>8, <1>10, <2>1 DEF Summary, SoundSplit, SplitSources
  <1>13. CASE Len(records) # 1 /\ eval # <<>> /\ train = <<>>
    <2>1. ResolvedSplit(records) = Summary("fallback_missing_train", few, eval)
      BY <1>13 DEF ResolvedSplit, L
    <2>2. records # <<>>
      <3> SUFFICES ASSUME records = <<>> PROVE FALSE
        OBVIOUS
      <3>1. eval \in Seq(X) /\ PartOf(eval, records)
        BY <1>0, SplitOfHolds
      <3>2. DOMAIN eval = {}
        BY <3>1 DEF PartOf, Picks
      <3> HIDE DEF eval
      <3> QED  BY <1>13, <3>1, <3>2
    <2>3. L # 0
      BY <1>0, <2>2 DEF L
    <2> DEFINE b == Max({1, L - MinimumEvalRecords})
    <2>4. b \in 1 .. L
      <3>1. b = IF 1 >= L - MinimumEvalRecords THEN 1 ELSE L - MinimumEvalRecords
        BY <1>0, OfTwo
      <3> QED  BY <1>0, <2>3, <3>1
    <2>5. few = SubSeq(records, 1, b)
      OBVIOUS
    <2> HIDE DEF b, few
    <2>6. few \in Seq(X) /\ PartOf(few, records)
      <3>1. b \in 0 .. L /\ 1 \in 1 .. L + 1 /\ 1 <= b + 1 /\ L = Len(records)
        BY <1>0, <2>4 DEF L
      <3> QED  BY <1>0, <2>5, <3>1, PieceHolds
    <2>7. SoundRecords(few)
      BY <2>6, PartSound
    <2> HIDE DEF eval
    <2> QED  BY <1>2, <2>1, <2>7 DEF Summary, SoundSplit, SplitSources
  <1>14. CASE Len(records) # 1 /\ eval # <<>> /\ train # <<>>
    <2>1. ResolvedSplit(records) = Summary("dataset_declared", train, eval)
      BY <1>14 DEF ResolvedSplit
    <2> HIDE DEF train, eval
    <2> QED  BY <1>1, <1>2, <1>9, <2>1 DEF Summary, SoundSplit, SplitSources
  <1> QED  BY <1>11, <1>12, <1>13, <1>14

(***************************************************************************)
(* Inference                                                               *)
(***************************************************************************)

Places == [FeatureKeys -> Int]

LEMMA DistanceTyped ==
  ASSUME NEW a \in Places, NEW b \in Places
  PROVE  Distance(a, b) \in Nat
  <1> DEFINE f == [k \in FeatureKeys |-> Abs(a[k] - b[k])]
  <1>1. \A k \in FeatureKeys : f[k] \in Int /\ f[k] >= 0
    BY DEF Places, Abs
  <1>2. Distance(a, b) = Total(FeatureKeys, f)
    BY DEF Distance
  <1> HIDE DEF f
  <1> QED  BY <1>1, <1>2, TaskAssumption, SumTyped

LEMMA RecordTyped ==
  ASSUME NEW s, SoundRecords(s), NEW n \in DOMAIN s
  PROVE  /\ s[n].normalized \in Places /\ s[n].id \in Runs \X Candidates
         /\ s[n].family \in Families /\ DOMAIN s[n].measured \subseteq Metrics
         /\ \A m \in DOMAIN s[n].measured : s[n].measured[m] \in Int
  BY DEF SoundRecords, SoundRecord, DatasetRecord, Places, MapOf

LEMMA RecordsFinite ==
  ASSUME NEW s, SoundRecords(s)
  PROVE  IsFiniteSet(DOMAIN s)
  <1>1. DOMAIN s = 1 .. Len(s) /\ Len(s) \in Nat
    BY OfRange DEF SoundRecords
  <1> QED  BY <1>1, FS_Interval

LEMMA WeightTyped ==
  ASSUME NEW s, SoundRecords(s), NEW near \in SUBSET DOMAIN s, NEW at \in Places, NEW n \in near
  PROVE  Weight(s, near, at, n) \in Nat
  <1>1. \A i \in near : Distance(at, s[i].normalized) \in Nat
    BY RecordTyped, DistanceTyped
  <1>2. CASE \E i \in near : Distance(at, s[i].normalized) = 0
    BY <1>2 DEF Weight
  <1>3. CASE ~ \E i \in near : Distance(at, s[i].normalized) = 0
    <2>1. Distance(at, s[n].normalized) \in Nat \ {0}
      BY <1>1, <1>3
    <2>2. Weight(s, near, at, n) = 6000 \div Distance(at, s[n].normalized)
      BY <1>3 DEF Weight
    <2>3. ASSUME NEW d \in Nat \ {0} PROVE 6000 \div d \in Nat
      BY <2>3
    <2> QED  BY <2>1, <2>2, <2>3
  <1> QED  BY <1>2, <1>3

LEMMA FromNeighborsTyped ==
  ASSUME NEW s, SoundRecords(s), NEW near \in SUBSET DOMAIN s, NEW at \in Places, NEW m
  PROVE  FromNeighbors(s, near, at, m) \in [value : Int, spread : Nat]
  <1> DEFINE known == {n \in near : m \in DOMAIN s[n].measured}
             weight == [n \in known |-> Weight(s, known, at, n)]
             total == Max({1, Total(known, weight)})
             weighted == [n \in known |-> weight[n] * s[n].measured[m]]
             value == Rounded(Total(known, weighted), total)
             off == [n \in known |-> weight[n] * Abs(s[n].measured[m] - value)]
             spread == Rounded(Total(known, off), total)
  <1>1. known \in SUBSET DOMAIN s /\ IsFiniteSet(known)
    BY RecordsFinite, FS_Subset
  <1>2. \A n \in known : weight[n] \in Nat
    BY <1>1, WeightTyped
  <1>3. \A n \in known : s[n].measured[m] \in Int
    BY RecordTyped
  <1>4. FromNeighbors(s, near, at, m) =
          IF known = {} THEN [value |-> 0, spread |-> 0] ELSE [value |-> value, spread |-> spread]
    BY DEF FromNeighbors
  <1> HIDE DEF known
  <1>5. total \in Nat \ {0}
    <2>1. Total(known, weight) \in Int
      <3> HIDE DEF weight
      <3> QED  BY <1>1, <1>2, SumTyped
    <2> DEFINE t == Total(known, weight)
    <2> HIDE DEF t, weight
    <2>2. Max({1, t}) = IF 1 >= t THEN 1 ELSE t
      BY <2>1, OfTwo DEF t
    <2> QED  BY <2>1, <2>2 DEF t
  <1> HIDE DEF total
  <1>6. \A n \in known : weighted[n] \in Int
    <2> HIDE DEF weight
    <2>1. ASSUME NEW x \in Nat, NEW y \in Int PROVE x * y \in Int
      OBVIOUS
    <2> QED  BY <1>2, <1>3, <2>1
  <1> HIDE DEF weighted
  <1>7. value \in Int
    <2>1. Total(known, weighted) \in Int
      BY <1>1, <1>6, SumTyped
    <2> QED  BY <1>5, <2>1, RoundedBetween
  <1> HIDE DEF value
  <1>8. \A n \in known : off[n] \in Int /\ off[n] >= 0
    <2> HIDE DEF weight
    <2>1. ASSUME NEW x \in Nat, NEW y \in Nat PROVE x * y \in Int /\ x * y >= 0
      OBVIOUS
    <2>2. \A n \in known : Abs(s[n].measured[m] - value) \in Nat
      BY <1>3, <1>7 DEF Abs
    <2> QED  BY <1>2, <2>1, <2>2
  <1> HIDE DEF off, weight
  <1>9. spread \in Nat
    <2>1. Total(known, off) \in Int /\ Total(known, off) >= 0
      BY <1>1, <1>8, SumTyped
    <2> QED  BY <1>5, <2>1, RoundedNat
  <1> QED  BY <1>4, <1>7, <1>9

\* What is inferred for a place among sound examples.
InferenceTyped(i, targets) ==
    /\ DOMAIN i.of = targets
    /\ \A m \in targets : i.of[m] \in [value : Int, spread : Nat]
    /\ i.confidence \in Percent
    /\ i.nearest \subseteq Runs \X Candidates

LEMMA InferenceHolds ==
  ASSUME NEW s, SoundRecords(s), NEW family, NEW at \in Places, NEW targets
  PROVE  InferenceTyped(Inference(s, family, at, targets), targets)
  <1> DEFINE near == Neighbors(s, family, at)
             dist == [n \in near |-> Distance(at, s[n].normalized)]
             far == Mean(near, dist)
             own == {n \in near : s[n].family = family}
             support == Rounded(100 * 100, 100 + far)
             ratio == Rounded(100 * Cardinality(own), Max({1, Cardinality(near)}))
             doubt == Rounded(60 * support + 40 * ratio, 100)
             i == Inference(s, family, at, targets)
  <1>1. near \in SUBSET DOMAIN s
    BY DEF Neighbors, Comparable
  <1>2. /\ i.of = [m \in targets |-> FromNeighbors(s, near, at, m)]
        /\ i.confidence = Min({100, doubt})
        /\ i.nearest = {s[n].id : n \in near}
    BY DEF Inference, InferenceFrom
  <1> HIDE DEF near
  <1>3. /\ IsFiniteSet(near) /\ IsFiniteSet(own)
        /\ Cardinality(own) \in Nat /\ Cardinality(near) \in Nat
        /\ Cardinality(own) <= Cardinality(near)
    <2>1. IsFiniteSet(near)
      BY <1>1, RecordsFinite, FS_Subset
    <2> QED  BY <2>1, FS_Subset, FS_CardinalityType
  <1>4. far \in Nat
    <2>1. \A n \in near : dist[n] \in Int /\ dist[n] >= 0
      BY <1>1, RecordTyped, DistanceTyped
    <2> HIDE DEF dist
    <2> QED  BY <1>3, <2>1, MeanBetween
  <1> HIDE DEF far
  <1>5. support \in Percent
    <2> DEFINE d == 100 + far
    <2>1. d \in Nat \ {0} /\ 100 * 100 \in Nat /\ 100 * 100 <= 100 * d
      BY <1>4
    <2> HIDE DEF d
    <2>2. Rounded(100 * 100, d) \in Nat
      BY <2>1, RoundedNat
    <2>3. Rounded(100 * 100, d) <= 100
      BY <2>1, RoundedBetween
    <2> QED  BY <2>2, <2>3 DEF Percent, d
  <1> HIDE DEF support
  <1>6. ratio \in Percent
    <2> DEFINE c == Cardinality(own)
               e == Cardinality(near)
               d == Max({1, e})
    <2>1. c \in Nat /\ e \in Nat /\ c <= e
      BY <1>3
    <2> HIDE DEF c, e
    <2>2. d = IF 1 >= e THEN 1 ELSE e
      BY <2>1, OfTwo
    <2> HIDE DEF d
    <2>3. d \in Nat \ {0} /\ 100 * c \in Nat /\ 100 * c <= 100 * d
      BY <2>1, <2>2
    <2> DEFINE k == 100 * c
    <2>4. ratio = Rounded(k, d)
      BY DEF c, d, e
    <2>5. k \in Nat /\ k <= 100 * d
      BY <2>3
    <2> HIDE DEF k
    <2>6. Rounded(k, d) \in Nat
      BY <2>3, <2>5, RoundedNat
    <2>7. Rounded(k, d) <= 100
      BY <2>3, <2>5, RoundedBetween
    <2> QED  BY <2>4, <2>6, <2>7 DEF Percent
  <1> HIDE DEF ratio
  <1>7. i.confidence \in Percent
    <2>1. doubt \in Nat
      BY <1>5, <1>6 DEF Percent, Rounded
    <2> HIDE DEF doubt, i
    <2>2. Min({100, doubt}) = IF 100 <= doubt THEN 100 ELSE doubt
      BY <2>1, OfTwo
    <2> QED  BY <1>2, <2>1, <2>2 DEF Percent
  <1>8. i.nearest \subseteq Runs \X Candidates
    <2> HIDE DEF i
    <2> QED  BY <1>1, <1>2, RecordTyped
  <1> HIDE DEF i
  <1>9. InferenceTyped(i, targets)
    BY <1>1, <1>2, <1>7, <1>8, FromNeighborsTyped DEF InferenceTyped
  <1> QED  BY <1>9 DEF i

(***************************************************************************)
(* Training runs                                                           *)
(***************************************************************************)

LEMMA HalfWidthHolds ==
  ASSUME NEW v \in Int, NEW spread \in Nat
  PROVE  HalfWidth(v, spread) \in Nat
  <1> DEFINE w == Rounded(3 * Abs(v), 100)
  <1>1. w \in Nat
    BY DEF Rounded, Abs
  <1> HIDE DEF w
  <1>2. Max({w, spread}) = IF w >= spread THEN w ELSE spread
    BY <1>1, OfTwo
  <1> QED  BY <1>1, <1>2 DEF HalfWidth, w

LEMMA IntervalTyped ==
  ASSUME NEW p \in [value : Int, spread : Nat], NEW truth \in Int
  PROVE  IntervalOf(p, truth) \in PredictionInterval
  <1> DEFINE v == p.value
             w == HalfWidth(p.value, p.spread)
  <1>1. v \in Int /\ p.spread \in Nat
    OBVIOUS
  <1>2. w \in Nat
    BY <1>1, HalfWidthHolds
  <1>3. IntervalOf(p, truth) = [value |-> v, truth |-> truth, spread |-> p.spread,
                                low |-> v - w, high |-> v + w]
    BY DEF IntervalOf
  <1> HIDE DEF v, w
  <1> QED  BY <1>1, <1>2, <1>3 DEF PredictionInterval

\* A record is judged in the shape of the schema.
LEMMA EvaluationTyped ==
  ASSUME NEW s, SoundRecords(s), NEW t, SoundRecords(t), NEW n \in DOMAIN t,
         NEW targets \in SUBSET Metrics
  PROVE  EvaluationExample(EvaluationOf(t[n], s, targets))
  <1> DEFINE r == t[n]
             i == Inference(s, r.family, r.normalized, targets)
             e == EvaluationOf(r, s, targets)
  <1>1. /\ r.normalized \in Places /\ r.id \in Runs \X Candidates
        /\ DOMAIN r.measured \subseteq Metrics /\ \A m \in DOMAIN r.measured : r.measured[m] \in Int
    BY RecordTyped
  <1> HIDE DEF r
  <1>2. InferenceTyped(i, targets)
    BY <1>1, InferenceHolds
  <1>3. /\ e.id = r.id /\ e.nearest = i.nearest /\ e.confidence = i.confidence
        /\ e.intervals = [m \in targets \cap DOMAIN r.measured |->
                            IntervalOf(i.of[m], r.measured[m])]
    BY DEF EvaluationOf, EvaluationWith
  <1> HIDE DEF i, e
  <1>4. MapOf(e.intervals, Metrics, PredictionInterval)
    <2>1. \A m \in targets \cap DOMAIN r.measured :
             IntervalOf(i.of[m], r.measured[m]) \in PredictionInterval
      BY <1>1, <1>2, IntervalTyped DEF InferenceTyped
    <2> QED  BY <1>3, <2>1 DEF MapOf
  <1>5. EvaluationExample(e)
    BY <1>1, <1>2, <1>3, <1>4 DEF EvaluationExample, InferenceTyped
  <1> QED  BY <1>5 DEF e, r

\* The evaluations of a list of records.
Evaluated(all) ==
    /\ all \in Seq(Range(all)) /\ IsFiniteSet(DOMAIN all)
    /\ \A n \in DOMAIN all : EvaluationExample(all[n])

LEMMA EvaluationsHold ==
  ASSUME NEW s, SoundRecords(s), NEW t, SoundRecords(t), NEW targets \in SUBSET Metrics
  PROVE  Evaluated([n \in DOMAIN t |-> EvaluationOf(t[n], s, targets)])
  <1> DEFINE all == [n \in DOMAIN t |-> EvaluationOf(t[n], s, targets)]
             X == {all[n] : n \in DOMAIN t}
  <1>1. DOMAIN t = 1 .. Len(t) /\ Len(t) \in Nat
    BY OfRange DEF SoundRecords
  <1>2. DOMAIN all = DOMAIN t /\ \A n \in DOMAIN t : EvaluationExample(all[n])
    BY EvaluationTyped
  <1>3. all = [n \in 1 .. Len(t) |-> all[n]]
    BY <1>1
  <1> HIDE DEF all
  <1>4. all \in [1 .. Len(t) -> X]
    BY <1>1, <1>3
  <1> HIDE DEF X
  <1>5. all \in Seq(X)
    BY <1>1, <1>4, SeqDef
  <1>6. IsFiniteSet(DOMAIN all)
    BY <1>2, RecordsFinite
  <1>7. Evaluated(all)
    BY <1>2, <1>5, <1>6, OfRange DEF Evaluated
  <1> QED  BY <1>7 DEF all

LEMMA SummaryTyped ==
  ASSUME NEW all, Evaluated(all), NEW m
  PROVE  SummaryOf(all, m) \in MetricSummary
  <1> DEFINE judged == {n \in DOMAIN all : m \in DOMAIN all[n].intervals}
             off == [n \in judged |-> Abs(all[n].intervals[m].value - all[n].intervals[m].truth)]
             hit == [n \in judged |-> IF Covered(all[n].intervals[m]) THEN 100 ELSE 0]
  <1>1. IsFiniteSet(judged) /\ Cardinality(judged) \in Nat
    BY FS_Subset, FS_CardinalityType DEF Evaluated
  <1>2. \A n \in judged : all[n].intervals[m] \in PredictionInterval
    BY DEF Evaluated, EvaluationExample, MapOf
  <1>3. SummaryOf(all, m) = [mae |-> Mean(judged, off), coverage |-> Mean(judged, hit),
                             sample_count |-> Cardinality(judged)]
    BY DEF SummaryOf
  <1>4. \A n \in judged : off[n] \in Int /\ off[n] >= 0
    BY <1>2 DEF PredictionInterval, Abs
  <1>5. \A n \in judged : hit[n] \in Int /\ 0 <= hit[n] /\ hit[n] <= 100
    OBVIOUS
  <1> HIDE DEF judged, off, hit
  <1>6. Mean(judged, off) \in Nat
    <2>1. Mean(judged, off) \in Int /\ Mean(judged, off) >= 0
      BY <1>1, <1>4, MeanBetween
    <2> QED  BY <2>1
  <1>7. Mean(judged, hit) \in Percent
    <2>1. Mean(judged, hit) \in Int /\ Mean(judged, hit) >= 0
      BY <1>1, <1>5, MeanBetween
    <2> DEFINE high == 100
    <2>2. high \in Nat /\ \A n \in judged : hit[n] \in Int /\ 0 <= hit[n] /\ hit[n] <= high
      BY <1>5
    <2> HIDE DEF high
    <2>3. Mean(judged, hit) <= high
      BY <1>1, <2>2, MeanBetween
    <2> QED  BY <2>1, <2>3 DEF Percent, high
  <1> QED  BY <1>1, <1>3, <1>6, <1>7 DEF MetricSummary

LEMMA AlignmentTyped ==
  ASSUME NEW all, Evaluated(all)
  PROVE  AlignmentOf(all) \in ConfidenceAlignment
  <1> DEFINE sure == [n \in DOMAIN all |-> all[n].confidence]
             hit == [n \in DOMAIN all |-> IF Hit(all[n]) THEN 100 ELSE 0]
             high == 100
  <1>1. IsFiniteSet(DOMAIN all) /\ Len(all) \in Nat
    BY DEF Evaluated
  <1>2. AlignmentOf(all) = [confidence |-> Mean(DOMAIN all, sure),
                            hit_rate |-> Mean(DOMAIN all, hit), sample_count |-> Len(all)]
    BY DEF AlignmentOf
  <1>3. \A n \in DOMAIN all : sure[n] \in Int /\ 0 <= sure[n] /\ sure[n] <= high
    <2>1. \A n \in DOMAIN all : all[n].confidence \in Percent
      BY DEF Evaluated, EvaluationExample
    <2>2. \A n \in DOMAIN all : sure[n] \in Percent
      BY <2>1
    <2> HIDE DEF sure
    <2> QED  BY <2>2 DEF Percent
  <1>4. \A n \in DOMAIN all : hit[n] \in Int /\ 0 <= hit[n] /\ hit[n] <= high
    <2>1. \A n \in DOMAIN all : hit[n] \in {0, 100}
      OBVIOUS
    <2> HIDE DEF hit
    <2> QED  BY <2>1
  <1>5. high \in Nat /\ Percent = 0 .. high
    BY DEF Percent
  <1> HIDE DEF sure, hit, high
  <1>6. \A f : (\A n \in DOMAIN all : f[n] \in Int /\ 0 <= f[n] /\ f[n] <= high)
                  => Mean(DOMAIN all, f) \in Percent
    <2> SUFFICES ASSUME NEW f,
                        \A n \in DOMAIN all : f[n] \in Int /\ 0 <= f[n] /\ f[n] <= high
                 PROVE  Mean(DOMAIN all, f) \in Percent
      OBVIOUS
    <2>1. Mean(DOMAIN all, f) \in Int /\ Mean(DOMAIN all, f) >= 0 /\ Mean(DOMAIN all, f) <= high
      BY <1>1, <1>5, MeanBetween
    <2> QED  BY <1>5, <2>1
  <1>7. Mean(DOMAIN all, sure) \in Percent /\ Mean(DOMAIN all, hit) \in Percent
    BY <1>3, <1>4, <1>6
  <1> QED  BY <1>1, <1>2, <1>7 DEF ConfidenceAlignment

LEMMA RunTyped ==
  ASSUME NEW split, SoundSplit(split), NEW targets \in SUBSET Metrics
  PROVE  SurrogateTrainingRun(RunOfSplit(split, targets))
  <1> DEFINE all == [n \in DOMAIN split.eval |-> EvaluationOf(split.eval[n], split.train, targets)]
             run == RunOfSplit(split, targets)
  <1>1. SoundRecords(split.train) /\ SoundRecords(split.eval)
    BY DEF SoundSplit
  <1>2. Evaluated(all)
    BY <1>1, EvaluationsHold
  <1>3. run = RunOf(split, targets, all)
    BY DEF RunOfSplit
  <1> HIDE DEF all
  <1>4. /\ run.split = split /\ run.targets = targets
        /\ run.evaluations = FirstOf(5, all)
        /\ run.of = [m \in UNION {DOMAIN all[n].intervals : n \in DOMAIN all} |-> SummaryOf(all, m)]
        /\ run.alignment = AlignmentOf(all)
    BY <1>3 DEF RunOf
  <1> HIDE DEF run
  <1>5. SplitSummary(split)
    BY DEF SoundSplit, SplitSummary, SoundRecords, SoundRecord
  <1>6. \A n \in DOMAIN run.evaluations : EvaluationExample(run.evaluations[n])
    <2>1. PartOf(FirstOf(5, all), all)
      BY <1>2, FirstOfHolds DEF Evaluated
    <2> QED  BY <1>2, <1>4, <2>1 DEF PartOf, Picks, Evaluated
  <1>7. MapOf(run.of, Metrics, MetricSummary)
    <2>1. \A n \in DOMAIN all : DOMAIN all[n].intervals \subseteq Metrics
      BY <1>2 DEF Evaluated, EvaluationExample, MapOf
    <2>2. \A m : SummaryOf(all, m) \in MetricSummary
      BY <1>2, SummaryTyped
    <2> QED  BY <1>4, <2>1, <2>2 DEF MapOf
  <1>8. run.alignment \in ConfidenceAlignment
    BY <1>2, <1>4, AlignmentTyped
  <1>9. SurrogateTrainingRun(run)
    BY <1>4, <1>5, <1>6, <1>7, <1>8 DEF SurrogateTrainingRun
  <1> QED  BY <1>9 DEF run

(***************************************************************************)
(* Predictions                                                             *)
(***************************************************************************)

\* A bundle with a calibration of every metric, and at most one checkpoint, of a run whose
\* examples are sound.
SoundRun(run) == SoundSplit(run.split) /\ SurrogateTrainingRun(run)
SoundBundle(b) ==
    /\ b = [calibration |-> b.calibration, checkpoint |-> b.checkpoint]
    /\ b.calibration \in CalibrationState
    /\ \/ b.checkpoint = <<>>
       \/ /\ b.checkpoint = <<b.checkpoint[1]>>
          /\ b.checkpoint[1].families \subseteq Families \cup {"unknown"}
          /\ SoundRun(b.checkpoint[1].run)

LEMMA InferenceForHolds ==
  ASSUME TablesTotal, NEW b, SoundBundle(b), NEW s, WorldState(s), Serves(b, s)
  PROVE  /\ InferenceTyped(InferenceFor(b, s), b.checkpoint[1].run.targets)
         /\ SoundRun(b.checkpoint[1].run)
  <1>1. SoundRun(b.checkpoint[1].run)
    BY DEF SoundBundle, Serves
  <1>2. SoundRecords(b.checkpoint[1].run.split.train)
    BY <1>1 DEF SoundRun, SoundSplit
  <1>3. Features(s) \in Places
    BY DEF Features, Places, TablesTotal, WorldState, ParameterValues
  <1>4. InferenceFor(b, s) =
          Inference(b.checkpoint[1].run.split.train, ActiveFamily(s.parameters), Features(s),
                    b.checkpoint[1].run.targets)
    BY DEF InferenceFor
  <1>5. InferenceTyped(Inference(b.checkpoint[1].run.split.train, ActiveFamily(s.parameters),
                                 Features(s), b.checkpoint[1].run.targets),
                       b.checkpoint[1].run.targets)
    BY <1>2, <1>3, InferenceHolds
  <1> QED  BY <1>1, <1>4, <1>5

LEMMA RawTyped ==
  ASSUME TablesTotal, NEW b, SoundBundle(b), NEW s, WorldState(s)
  PROVE  MapOf(Raw(b, s), Metrics, Int)
  <1> DEFINE proxy == Projected(s.parameters, s.load)
             inference == InferenceFor(b, s)
             targets == b.checkpoint[1].run.targets
  <1>1. MapOf(proxy, Metrics, Int)
    BY ProjectedTyped DEF WorldState
  <1>2. CASE ~Serves(b, s)
    BY <1>1, <1>2 DEF Raw
  <1>3. CASE Serves(b, s)
    <2>1. InferenceTyped(inference, targets) /\ targets \subseteq Metrics
      BY <1>3, InferenceForHolds DEF SoundRun, SurrogateTrainingRun
    <2>2. Raw(b, s) = Overlaid(proxy, inference.of)
      BY <1>3 DEF Raw
    <2> HIDE DEF proxy, inference, targets
    <2>3. /\ DOMAIN inference.of = targets
          /\ \A m \in targets : inference.of[m].value \in Int
      BY <2>1 DEF InferenceTyped
    <2>4. MapOf(Overlaid(proxy, inference.of), Metrics, Int)
      BY <1>1, <2>1, <2>3 DEF MapOf, Overlaid
    <2> QED  BY <2>2, <2>4
  <1> QED  BY <1>2, <1>3

\* What is taken back of a value lies between 0 and the bias, and is a third of it for
\* each of up to three samples unless the value is small.
Within(c, bias) == (0 <= c /\ c <= bias) \/ (bias <= c /\ c <= 0)
Correction(of, m, v) == v - Corrected(of, m, v)

LEMMA ThirdsWithin ==
  ASSUME NEW bias \in Int, NEW k \in 0 .. 3
  PROVE  Rounded(bias * k, 3) \in Int /\ Within(Rounded(bias * k, 3), bias)
  <1>1. k = 0 \/ k = 1 \/ k = 2 \/ k = 3
    OBVIOUS
  <1>2. CASE k = 0
    BY <1>2 DEF Rounded, Within
  <1>3. CASE k = 1
    BY <1>3 DEF Rounded, Within
  <1>4. CASE k = 2
    BY <1>4 DEF Rounded, Within
  <1>5. CASE k = 3
    BY <1>5 DEF Rounded, Within
  <1> QED  BY <1>1, <1>2, <1>3, <1>4, <1>5

LEMMA CorrectionHolds ==
  ASSUME NEW of \in [Metrics -> MetricErrorSummary], NEW m \in Metrics, NEW v \in Int
  PROVE  LET bias  == of[m].signed_bias
             count == of[m].sample_count
             k     == IF count < 3 THEN count ELSE 3
         IN  /\ Corrected(of, m, v) \in Int
             /\ Correction(of, m, v) \in Int
             /\ Within(Correction(of, m, v), bias)
             /\ Abs(v) >= 2 * Abs(bias) => Correction(of, m, v) = Rounded(bias * k, 3)
  <1> DEFINE bias  == of[m].signed_bias
             count == of[m].sample_count
             k     == IF count < 3 THEN count ELSE 3
             third == Rounded(bias * k, 3)
             a == Abs(v) \div 2
             limit == Max({a, of[m].mae \div 2})
  <1>1. bias \in Int /\ count \in Nat /\ of[m].mae \in Nat
    BY DEF MetricErrorSummary
  <1>2. k \in 0 .. 3 /\ Min({count, 3}) = k
    <2> HIDE DEF count
    <2>1. Min({count, 3}) = IF count <= 3 THEN count ELSE 3
      BY <1>1, OfTwo
    <2> QED  BY <1>1, <2>1
  <1>3. a \in Nat /\ (Abs(v) >= 2 * Abs(bias) => a >= Abs(bias))
    <2> HIDE DEF bias
    <2> QED  BY <1>1 DEF Abs
  <1>4. limit \in Nat /\ limit >= a
    <2> DEFINE e == of[m].mae \div 2
    <2>1. e \in Nat
      BY <1>1
    <2> HIDE DEF a, e
    <2>2. Max({a, e}) = IF a >= e THEN a ELSE e
      BY <1>3, <2>1, OfTwo
    <2> QED  BY <1>3, <2>1, <2>2 DEF e
  <1>5. Corrected(of, m, v) = v - Clip(third, -limit, limit)
    BY <1>2 DEF Corrected
  <1> HIDE DEF k
  <1>6. third \in Int /\ Within(third, bias)
    <2> HIDE DEF bias
    <2> QED  BY <1>1, <1>2, ThirdsWithin
  <1> HIDE DEF a, limit, third, bias, count
  <1>7. /\ Clip(third, -limit, limit) \in Int /\ Within(Clip(third, -limit, limit), bias)
        /\ a >= Abs(bias) => Clip(third, -limit, limit) = third
    BY <1>1, <1>3, <1>4, <1>6 DEF Clip, Within, Abs
  <1>8. Correction(of, m, v) = Clip(third, -limit, limit)
    BY <1>5, <1>7 DEF Correction
  <1> QED  BY <1>3, <1>5, <1>7, <1>8 DEF bias, count, k, third

LEMMA CorrectedAllTyped ==
  ASSUME NEW b, SoundBundle(b), NEW value, MapOf(value, Metrics, Int)
  PROVE  MapOf(CorrectedAll(b, value), Metrics, Int) /\ DOMAIN CorrectedAll(b, value) = DOMAIN value
  <1>1. b.calibration.of \in [Metrics -> MetricErrorSummary]
    BY DEF SoundBundle, CalibrationState
  <1>2. \A m \in DOMAIN value : m \in Metrics /\ value[m] \in Int
    BY DEF MapOf
  <1>3. \A m \in DOMAIN value : Corrected(b.calibration.of, m, value[m]) \in Int
    BY <1>1, <1>2, CorrectionHolds
  <1> QED  BY <1>2, <1>3 DEF MapOf, CorrectedAll

\* A prediction gives the corrected values.
LEMMA PredictionValue ==
  ASSUME NEW b, NEW s
  PROVE  Prediction(b, s).value = CorrectedAll(b, Raw(b, s))
  BY DEF Prediction, PredictionOf, TrainedPrediction, ProxyPrediction

(***************************************************************************)
(* What truths teach                                                       *)
(***************************************************************************)

\* Half of what a residual r asks for, up to the rounding, has the sign of r.
Halved(bias, r) == (r >= 0 => 2 * bias >= r - 1) /\ (r < 0 => 2 * bias <= r + 1)

\* What is known of a metric when the residuals of its truths were "seen": the bias lies
\* between some of them and 0, and is at least half of the residual when they agree.
Learned(e, seen) ==
    /\ seen \in SUBSET Int /\ IsFiniteSet(seen)
    /\ seen = {} <=> e.sample_count = 0
    /\ e.sample_count = 0 => e.signed_bias = 0
    /\ \E low, high \in seen \cup {0} : low <= e.signed_bias /\ e.signed_bias <= high
    /\ \A r : seen = {r} => /\ Halved(e.signed_bias, r)
                            /\ e.sample_count = 1 => e.signed_bias = r

\* The running mean of the errors stays between bounds of the residuals.
LEMMA BiasStays ==
  ASSUME NEW n \in Nat, NEW bias \in Int, NEW c \in Int, NEW r \in Int, Within(c, bias),
         n = 0 => bias = 0, NEW low \in Int, NEW high \in Int, low <= 0, 0 <= high,
         low <= bias, bias <= high, low <= r, r <= high
  PROVE  /\ Rounded(bias * n + r - c, n + 1) \in Int
         /\ low <= Rounded(bias * n + r - c, n + 1)
         /\ Rounded(bias * n + r - c, n + 1) <= high
  <1> DEFINE x == bias * n + r - c
  <1>1. bias * n \in Int /\ low * n \in Int /\ high * n \in Int
    OBVIOUS
  <1>2. n >= 1 => n - 1 \in Nat
    OBVIOUS
  <1>3. ASSUME NEW a \in Int, NEW b \in Int, a <= b, NEW k \in Nat PROVE a * k <= b * k
    <2>1. (b - a) * k >= 0 /\ (b - a) * k = b * k - a * k
      BY <1>3
    <2>2. a * k \in Int /\ b * k \in Int
      OBVIOUS
    <2> QED  BY <2>1, <2>2
  <1>4. bias * n - c <= high * n
    <2>1. CASE n = 0
      BY <2>1 DEF Within
    <2>2. CASE n # 0 /\ c >= 0
      <3>1. bias * n <= high * n
        BY <1>3
      <3> QED  BY <1>1, <2>2, <3>1
    <2>3. CASE n # 0 /\ c < 0
      <3>1. bias <= c /\ bias <= 0 /\ n - 1 \in Nat
        BY <2>3 DEF Within
      <3>2. bias * (n - 1) <= 0
        <4> DEFINE k == n - 1
        <4>1. bias * k <= 0 * k
          BY <1>3, <3>1
        <4> QED  BY <3>1, <4>1
      <3>3. bias * (n - 1) = bias * n - bias
        OBVIOUS
      <3>4. high * n >= 0
        OBVIOUS
      <3> QED  BY <1>1, <3>1, <3>2, <3>3, <3>4
    <2> QED  BY <2>1, <2>2, <2>3
  <1>5. low * n <= bias * n - c
    <2>1. CASE n = 0
      BY <2>1 DEF Within
    <2>2. CASE n # 0 /\ c <= 0
      <3>1. low * n <= bias * n
        BY <1>3
      <3> QED  BY <1>1, <2>2, <3>1
    <2>3. CASE n # 0 /\ c > 0
      <3>1. c <= bias /\ 0 <= bias /\ n - 1 \in Nat
        BY <2>3 DEF Within
      <3>2. bias * (n - 1) >= 0
        BY <3>1
      <3>3. bias * (n - 1) = bias * n - bias
        OBVIOUS
      <3>4. low * n <= 0
        <4>1. low * n <= 0 * n
          BY <1>3
        <4> QED  BY <4>1
      <3> QED  BY <1>1, <3>1, <3>2, <3>3, <3>4
    <2> QED  BY <2>1, <2>2, <2>3
  <1>6. /\ high * (n + 1) = high * n + high /\ low * (n + 1) = low * n + low
        /\ x \in Int /\ n + 1 \in Nat \ {0}
    BY <1>1
  <1>7. low * (n + 1) <= x /\ x <= high * (n + 1)
    BY <1>1, <1>4, <1>5, <1>6
  <1> HIDE DEF x
  <1>8. /\ Rounded(x, n + 1) \in Int /\ low <= Rounded(x, n + 1) /\ Rounded(x, n + 1) <= high
    <2> DEFINE d == n + 1
    <2>1. d \in Nat \ {0} /\ low * d <= x /\ x <= high * d
      BY <1>6, <1>7
    <2> HIDE DEF d
    <2>2. Rounded(x, d) \in Int /\ low <= Rounded(x, d) /\ Rounded(x, d) <= high
      BY <1>6, <2>1, RoundedBetween
    <2> QED  BY <2>2 DEF d
  <1> QED  BY <1>8 DEF x

\* A truth more of the same residual leaves at least half of it learned.
LEMMA HalfStays ==
  ASSUME NEW n \in Nat \ {0}, NEW bias \in Int, NEW c \in Int, NEW r \in Int, Within(c, bias),
         Halved(bias, r), r >= 0 => bias >= 0, r < 0 => bias <= 0
  PROVE  Halved(Rounded(bias * n + r - c, n + 1), r)
  <1> DEFINE d == n + 1
             x == bias * n + r - c
             q == Rounded(x, d)
  <1>1. /\ bias * n \in Int /\ n - 1 \in Nat /\ d \in Nat \ {0} /\ x \in Int
        /\ bias * (n - 1) = bias * n - bias /\ bias * (n - 1) \in Int
        /\ r * n \in Int /\ r * d \in Int /\ r * d = r * n + r
        /\ (r - 1) * (n - 1) = r * n - r - n + 1
        /\ (r + 1) * (n - 1) = r * n - r + n - 1
    OBVIOUS
  <1>2. q \in Int /\ 2 * d * q <= 2 * x + d /\ 2 * x + d < 2 * d * q + 2 * d
    <2> HIDE DEF d, x
    <2> QED  BY <1>1, RoundedBetween
  <1> HIDE DEF q
  <1>3. 2 * d * q = 2 * (d * q) /\ d * q \in Int
    BY <1>1, <1>2
  <1>4. ASSUME r >= 0 PROVE 2 * q >= r - 1
    <2>1. 0 <= c /\ c <= bias /\ 2 * bias >= r - 1
      BY <1>4 DEF Within, Halved
    <2>2. (n - 1) * (2 * bias - (r - 1)) >= 0
      BY <1>1, <2>1
    <2>3. (n - 1) * (2 * bias - (r - 1)) = 2 * (bias * (n - 1)) - (r - 1) * (n - 1)
      OBVIOUS
    <2>4. 2 * (bias * n) - 2 * bias >= r * n - r - n + 1
      BY <1>1, <2>2, <2>3
    <2>5. 2 * x >= r * n + r - n + 1
      BY <1>1, <2>1, <2>4
    <2>6. 2 * (d * q) > r * d - 2 * n
      BY <1>1, <1>2, <1>3, <2>5
    <2>7. d * (2 * q - r + 2) = 2 * (d * q) - r * d + 2 * d
      BY <1>1, <1>2
    <2>8. d * (2 * q - r + 2) > 0
      BY <1>1, <1>3, <2>6, <2>7
    <2> DEFINE y == 2 * q - r + 2
    <2>9. y \in Int /\ d * y > 0
      BY <1>2, <2>8
    <2> HIDE DEF y, d
    <2>10. y > 0
      <3> SUFFICES ASSUME y <= 0 PROVE FALSE
        BY <2>9
      <3>1. d * (-y) >= 0 /\ d * (-y) = -(d * y) /\ d * y \in Int
        BY <1>1, <2>9
      <3> QED  BY <2>9, <3>1
    <2> QED  BY <1>2, <2>10 DEF y
  <1>5. ASSUME r < 0 PROVE 2 * q <= r + 1
    <2>1. bias <= c /\ c <= 0 /\ 2 * bias <= r + 1
      BY <1>5 DEF Within, Halved
    <2>2. (n - 1) * ((r + 1) - 2 * bias) >= 0
      BY <1>1, <2>1
    <2>3. (n - 1) * ((r + 1) - 2 * bias) = (r + 1) * (n - 1) - 2 * (bias * (n - 1))
      OBVIOUS
    <2>4. 2 * (bias * n) - 2 * bias <= r * n - r + n - 1
      BY <1>1, <2>2, <2>3
    <2>5. 2 * x <= r * n + r + n - 1
      BY <1>1, <2>1, <2>4
    <2>6. 2 * (d * q) <= r * d + 2 * n
      BY <1>1, <1>2, <1>3, <2>5
    <2>7. d * (r + 2 - 2 * q) = r * d + 2 * d - 2 * (d * q)
      BY <1>1, <1>2
    <2>8. d * (r + 2 - 2 * q) > 0
      BY <1>1, <1>3, <2>6, <2>7
    <2> DEFINE y == r + 2 - 2 * q
    <2>9. y \in Int /\ d * y > 0
      BY <1>2, <2>8
    <2> HIDE DEF y, d
    <2>10. y > 0
      <3> SUFFICES ASSUME y <= 0 PROVE FALSE
        BY <2>9
      <3>1. d * (-y) >= 0 /\ d * (-y) = -(d * y) /\ d * y \in Int
        BY <1>1, <2>9
      <3> QED  BY <2>9, <3>1
    <2> QED  BY <1>2, <2>10 DEF y
  <1> QED  BY <1>4, <1>5 DEF Halved, q

\* One truth more: its residual is r, and c was taken back of the value it judges.
LEMMA LearnedStep ==
  ASSUME NEW e \in MetricErrorSummary, NEW seen, Learned(e, seen), NEW r \in Int, NEW c \in Int,
         Within(c, e.signed_bias)
  PROVE  /\ Averaged(e, r - c) \in MetricErrorSummary
         /\ Averaged(e, r - c).sample_count = e.sample_count + 1
         /\ Learned(Averaged(e, r - c), seen \cup {r})
  <1> DEFINE n == e.sample_count
             bias == e.signed_bias
             more == Averaged(e, r - c)
             next == Rounded(bias * n + r - c, n + 1)
             all == seen \cup {r}
  <1>1. n \in Nat /\ bias \in Int /\ e.mae \in Nat /\ n + 1 \in Nat \ {0}
    BY DEF MetricErrorSummary
  <1>2. PICK low, high \in seen \cup {0} : low <= bias /\ bias <= high
    BY DEF Learned
  <1> DEFINE l == IF low > 0 THEN 0 ELSE IF r < low THEN r ELSE low
             h == IF high < 0 THEN 0 ELSE IF r > high THEN r ELSE high
  <1>3. low \in Int /\ high \in Int /\ seen \in SUBSET Int /\ IsFiniteSet(seen)
    BY <1>2 DEF Learned
  <1> DEFINE ll == IF r < l THEN r ELSE l
             hh == IF r > h THEN r ELSE h
  <1>4. /\ ll \in all \cup {0} /\ hh \in all \cup {0} /\ ll \in Int /\ hh \in Int
        /\ ll <= 0 /\ 0 <= hh /\ ll <= r /\ r <= hh /\ ll <= bias /\ bias <= hh
    <2> HIDE DEF bias
    <2> QED  BY <1>1, <1>2, <1>3
  <1>5. Within(c, bias) /\ (n = 0 => bias = 0)
    BY DEF Learned
  <1> HIDE DEF ll, hh, l, h, n, bias
  <1>6. next \in Int /\ ll <= next /\ next <= hh
    BY <1>1, <1>4, <1>5, BiasStays
  <1>7. more.sample_count = n + 1 /\ more.signed_bias = next
    <2>1. bias * n + (r - c) = bias * n + r - c
      <3>1. bias * n \in Int
        BY <1>1
      <3> QED  BY <3>1
    <2> QED  BY <2>1 DEF Averaged, n, bias
  <1>8. more \in MetricErrorSummary
    <2> DEFINE x == e.mae * n + Abs(r - c)
    <2>1. x \in Int /\ x >= 0
      <3>1. e.mae * n \in Nat
        BY <1>1
      <3>2. Abs(r - c) \in Nat
        BY DEF Abs
      <3> QED  BY <3>1, <3>2
    <2>2. more.mae = Rounded(x, n + 1)
      BY DEF Averaged, n
    <2> HIDE DEF x
    <2>3. more.mae \in Nat
      BY <1>1, <2>1, <2>2, RoundedNat
    <2>4. more = [sample_count |-> more.sample_count, mae |-> more.mae,
                  signed_bias |-> more.signed_bias]
      BY DEF Averaged
    <2> HIDE DEF more, next
    <2> QED  BY <1>1, <1>6, <1>7, <2>3, <2>4 DEF MetricErrorSummary
  <1> HIDE DEF more, next
  <1>9. all \in SUBSET Int /\ IsFiniteSet(all) /\ all # {}
    BY <1>3, FS_AddElement
  <1>10. ASSUME NEW x, all = {x}
         PROVE  Halved(next, x) /\ (n + 1 = 1 => next = x)
    <2>1. x = r /\ (seen = {} \/ seen = {r})
      BY <1>10
    <2>2. CASE seen = {}
      <3>1. n = 0 /\ bias = 0 /\ c = 0
        BY <1>5, <2>2 DEF Learned, Within, n
      <3>2. next = r
        BY <3>1 DEF next, Rounded
      <3> QED  BY <2>1, <3>2 DEF Halved
    <2>3. CASE seen = {r}
      <3>1. n # 0 /\ Halved(bias, r)
        BY <2>3 DEF Learned, n, bias
      <3>2. (r >= 0 => bias >= 0) /\ (r < 0 => bias <= 0)
        BY <1>1, <1>2, <1>3, <2>3
      <3>3. Halved(next, r)
        BY <1>1, <1>5, <3>1, <3>2, HalfStays DEF next
      <3> QED  BY <1>1, <2>1, <3>1, <3>3
    <2> QED  BY <2>1, <2>2, <2>3
  <1>11. Learned(more, all)
    BY <1>1, <1>4, <1>6, <1>7, <1>9, <1>10 DEF Learned
  <1> QED  BY <1>7, <1>8, <1>11 DEF more, n

\* Everything that was learned: the states are of the schema, the bundle and the training
\* run are sound, every truth is counted, and every metric knows what its residuals say.
Counted ==
    LET c == bundle.calibration
    IN  /\ asked \in Nat /\ c.patches = asked /\ c.ood.query_count = asked
        /\ c.ood.high_risk_count <= asked
        /\ \A m \in Metrics : c.of[m].sample_count <= asked
LearningInvariant ==
    /\ \A s \in states : WorldState(s)
    /\ SoundBundle(bundle)
    /\ training = <<>> \/ (training = <<training[1]>> /\ SoundRun(training[1]))
    /\ Counted
    /\ residuals = [m \in Metrics |-> residuals[m]]
    /\ \A m \in Metrics : Learned(bundle.calibration.of[m], residuals[m])

LEMMA SupportedTyped ==
  /\ SupportedFamilies \in Seq(Families \cup {"unknown"})
  /\ Range(SupportedFamilies) \subseteq Families \cup {"unknown"}
  <1>1. SupportedFamilies \in Seq(Families \cup {"unknown"})
    <2>1. <<CircuitFamily>> \in Seq(Families \cup {"unknown"})
      BY TaskAssumption
    <2>2. TemplateChoices \in Seq(Families \cup {"unknown"})
      BY TaskAssumption
    <2>3. <<"unknown">> \in Seq(Families \cup {"unknown"})
      OBVIOUS
    <2> QED  BY <2>1, <2>2, <2>3 DEF SupportedFamilies
  <1>2. \A n \in DOMAIN SupportedFamilies : SupportedFamilies[n] \in Families \cup {"unknown"}
    BY <1>1
  <1> QED  BY <1>1, <1>2 DEF Range

LEMMA CompiledSound ==
  /\ SoundBundle(CompiledBundle)
  /\ CompiledBundle.calibration.patches = 0
  /\ CompiledBundle.calibration.ood = [query_count |-> 0, high_risk_count |-> 0]
  /\ \A m \in Metrics : CompiledBundle.calibration.of[m]
                           = [sample_count |-> 0, mae |-> 0, signed_bias |-> 0]
  <1> DEFINE X == Families \cup {"unknown"}
             s == SupportedFamilies
             regions == [n \in DOMAIN s |-> [family |-> s[n], readiness |-> "screening"]]
             of == [m \in Metrics |-> [sample_count |-> 0, mae |-> 0, signed_bias |-> 0]]
             ood == [query_count |-> 0, high_risk_count |-> 0]
             b == CompiledBundle
  <1>1. regions \in Seq(UsableRegion)
    <2>1. s \in Seq(X)
      BY SupportedTyped
    <2> HIDE DEF s
    <2>2. DOMAIN s = 1 .. Len(s) /\ Len(s) \in Nat /\ \A n \in DOMAIN s : s[n] \in X
      BY <2>1
    <2>3. regions \in [1 .. Len(s) -> UsableRegion]
      BY <2>2 DEF UsableRegion
    <2> HIDE DEF regions
    <2> QED  BY <2>2, <2>3, SeqDef
  <1>2. of \in [Metrics -> MetricErrorSummary]
    BY DEF MetricErrorSummary
  <1>3. ood \in OODStatistics
    BY DEF OODStatistics
  <1>4. b.calibration = [of |-> of, ood |-> ood, patches |-> 0, regions |-> regions]
    BY DEF CompiledBundle
  <1>5. b = [calibration |-> b.calibration, checkpoint |-> b.checkpoint] /\ b.checkpoint = <<>>
    BY DEF CompiledBundle
  <1> HIDE DEF regions, b
  <1>6. b.calibration \in CalibrationState
    <2> HIDE DEF of, ood
    <2> QED  BY <1>1, <1>2, <1>3, <1>4 DEF CalibrationState
  <1> QED  BY <1>4, <1>5, <1>6 DEF SoundBundle, b

LEMMA LearningInit == Init => LearningInvariant
  <1> SUFFICES ASSUME Init PROVE LearningInvariant
    OBVIOUS
  <1> USE DEF Init
  <1>1. bundle = CompiledBundle /\ asked = 0 /\ training = <<>> /\ states = {}
    OBVIOUS
  <1>2. residuals = [m \in Metrics |-> residuals[m]] /\ \A m \in Metrics : residuals[m] = {}
    OBVIOUS
  <1>3. SoundBundle(bundle)
    BY <1>1, CompiledSound
  <1>4. Counted
    <2>1. \A m \in Metrics : bundle.calibration.of[m].sample_count = 0
      BY <1>1, CompiledSound
    <2>2. bundle.calibration.ood.query_count = 0 /\ bundle.calibration.ood.high_risk_count = 0
      BY <1>1, CompiledSound
    <2> QED  BY <1>1, <2>1, <2>2, CompiledSound DEF Counted
  <1>5. ASSUME NEW m \in Metrics PROVE Learned(bundle.calibration.of[m], residuals[m])
    <2>1. /\ bundle.calibration.of[m].sample_count = 0
          /\ bundle.calibration.of[m].signed_bias = 0
      BY <1>1, CompiledSound
    <2>2. \A r : {} # {r}
      OBVIOUS
    <2> QED  BY <1>2, <2>1, <2>2, FS_EmptySet DEF Learned
  <1> QED  BY <1>1, <1>2, <1>3, <1>4, <1>5 DEF LearningInvariant

\* One more state of the schema.
LEMMA HeldLearning ==
  ASSUME LearningInvariant, NEW s, WorldState(s), Hold(s),
         UNCHANGED <<bundle, training, residuals, asked>>
  PROVE  LearningInvariant'
  <1>1. \A t \in states' : WorldState(t)
    BY DEF Hold, LearningInvariant
  <1>2. \A m \in Metrics : Learned(bundle'.calibration.of[m], residuals'[m])
    BY DEF LearningInvariant
  <1>3. Counted'
    BY DEF LearningInvariant, Counted
  <1> QED  BY <1>1, <1>2, <1>3 DEF LearningInvariant

LEMMA BuildLearning ==
  ASSUME TablesTotal, LearningInvariant, NEW request \in Requests, BuildState(request)
  PROVE  LearningInvariant'
  <1> DEFINE provenance == Provenance("initial", FALSE)
             s == BuildWorldState(request.parameters, request.load, "quick_screening",
                                  NoHistory, provenance)
  <1>1. NoHistory \in HistoryContext
    BY DEF NoHistory, HistoryContext
  <1>2. provenance \in ProvenanceRecord
    BY DEF Provenance, ProvenanceRecord, StateOrigins, SourceStages
  <1>3. Hold(s) /\ UNCHANGED <<bundle, training, residuals, asked>>
    BY DEF BuildState
  <1>4. request.parameters \in ParameterValues /\ request.load \in Loads
    BY CallerAssumption
  <1>5. "quick_screening" \in AnalysisFidelities
    BY DEF AnalysisFidelities
  <1> HIDE DEF provenance
  <1>6. WorldState(s)
    BY <1>1, <1>2, <1>4, <1>5, BuiltTyped
  <1> HIDE DEF s
  <1> QED  BY <1>3, <1>6, HeldLearning

LEMMA PredictLearning ==
  ASSUME TablesTotal, LearningInvariant, NEW s \in states, NEW a \in DesignActions,
         PredictTransition(s, a)
  PROVE  LearningInvariant'
  <1>1. Hold(NextState(s, a)) /\ UNCHANGED <<bundle, training, residuals, asked>>
    BY DEF PredictTransition, Transition, TransitionTo
  <1>2. WorldState(NextState(s, a))
    BY NextTyped DEF LearningInvariant, PredictTransition
  <1> QED  BY <1>1, <1>2, HeldLearning

LEMMA TruthLearning ==
  ASSUME LearningInvariant, NEW s \in states, SoundState(s), NEW truth \in TruthRecords,
         TruthState(s, truth)
  PROVE  LearningInvariant'
  <1> DEFINE strong == truth.level = "configured_truth" /\ truth.status = "strong"
             t == [s EXCEPT
                     !.fidelity = "full_ground_truth",
                     !.observed = truth.measured,
                     !.uncertainty.source = "truth",
                     !.uncertainty.confidence = IF strong THEN 100 ELSE 75,
                     !.uncertainty.epistemic = IF strong THEN 2 ELSE 12,
                     !.uncertainty.aleatoric = IF strong THEN 3 ELSE 8,
                     !.provenance = Provenance("simulated", TRUE)]
             doubt == [s.uncertainty EXCEPT
                         !.source = "truth",
                         !.confidence = IF strong THEN 100 ELSE 75,
                         !.epistemic = IF strong THEN 2 ELSE 12,
                         !.aleatoric = IF strong THEN 3 ELSE 8]
  <1>1. Hold(t) /\ UNCHANGED <<bundle, training, residuals, asked>>
    BY DEF TruthState
  <1>2. WorldState(s)
    BY DEF LearningInvariant
  <1>3. /\ t.parameters = s.parameters /\ t.load = s.load /\ t.history = s.history
        /\ t.fidelity = "full_ground_truth" /\ t.observed = truth.measured
        /\ t.uncertainty = doubt /\ t.provenance = Provenance("simulated", TRUE)
    BY DEF SoundState
  <1> HIDE DEF t
  <1>4. doubt \in UncertaintyContext
    <2>1. s.uncertainty \in UncertaintyContext
      BY <1>2 DEF WorldState
    <2> DEFINE u == s.uncertainty
               f == IF strong THEN 100 ELSE 75
               g == IF strong THEN 2 ELSE 12
               h == IF strong THEN 3 ELSE 8
    <2>2. u \in UncertaintyContext
      BY <2>1
    <2>3. f \in Percent /\ g \in Percent /\ h \in Percent /\ "truth" \in FieldSources
      BY DEF Percent, FieldSources
    <2>4. doubt = [u EXCEPT !.source = "truth", !.confidence = f, !.epistemic = g, !.aleatoric = h]
      OBVIOUS
    <2> HIDE DEF u, f, g, h, doubt
    <2> QED  BY <2>2, <2>3, <2>4 DEF UncertaintyContext
  <1> HIDE DEF doubt
  <1>5. Provenance("simulated", TRUE) \in ProvenanceRecord
    BY DEF Provenance, ProvenanceRecord, StateOrigins, SourceStages
  <1>6. MapOf(truth.measured, Metrics, Int)
    BY TruthAssumption
  <1>7. WorldState(t)
    <2>1. s.parameters \in ParameterValues /\ s.load \in Loads /\ s.history \in HistoryContext
      BY <1>2 DEF WorldState
    <2>2. "full_ground_truth" \in AnalysisFidelities
      BY DEF AnalysisFidelities
    <2> QED  BY <1>3, <1>4, <1>5, <1>6, <2>1, <2>2 DEF WorldState
  <1> QED  BY <1>1, <1>7, HeldLearning

\* What calibrate_with_truth makes of a bundle, part by part.
TaughtBy(of, value, truth) ==
    [m \in Metrics |-> IF m \in DOMAIN truth.measured THEN Averaged(of[m], ErrorOf(value, truth, m))
                       ELSE of[m]]
RiskBy(ood, s) ==
    [query_count |-> ood.query_count + 1,
     high_risk_count |-> ood.high_risk_count + (IF s.uncertainty.ood > 60 THEN 1 ELSE 0)]

LEMMA CalibratedParts ==
  ASSUME NEW b, SoundBundle(b), NEW s, NEW truth
  PROVE  LET after == Calibrated(b, s, truth)
             of == TaughtBy(b.calibration.of, Prediction(b, s).value, truth)
             ood == RiskBy(b.calibration.ood, s)
         IN  /\ after = [calibration |-> after.calibration, checkpoint |-> b.checkpoint]
             /\ after.calibration =
                  [of |-> of, ood |-> ood, patches |-> b.calibration.patches + 1,
                   regions |-> [b.calibration.regions EXCEPT ![1].readiness = Readiness(truth, ood)]]
  <1> DEFINE cal == b.calibration
             value == Prediction(b, s).value
             of == TaughtBy(cal.of, value, truth)
             ood == RiskBy(cal.ood, s)
             ready == Readiness(truth, ood)
             after == Calibrated(b, s, truth)
  <1>1. after = [b EXCEPT !.calibration.of = of, !.calibration.ood = ood,
                          !.calibration.patches = @ + 1,
                          !.calibration.regions[1].readiness = ready]
    BY DEF Calibrated, TaughtBy, RiskBy
  <1>2. b = [calibration |-> cal, checkpoint |-> b.checkpoint] /\ cal \in CalibrationState
    BY DEF SoundBundle
  <1> HIDE DEF cal, value, of, ood, ready, after
  <1>3. cal = [of |-> cal.of, ood |-> cal.ood, patches |-> cal.patches, regions |-> cal.regions]
    BY <1>2 DEF CalibrationState
  <1>4. b.calibration = cal
    BY DEF cal
  <1>5. after = [calibration |-> after.calibration, checkpoint |-> b.checkpoint]
    BY <1>1, <1>2
  <1>6. after.calibration = [cal EXCEPT !.of = of, !.ood = ood, !.patches = @ + 1,
                                        !.regions[1].readiness = ready]
    BY <1>1, <1>2, <1>4
  <1>7. after.calibration = [of |-> of, ood |-> ood, patches |-> cal.patches + 1,
                             regions |-> [cal.regions EXCEPT ![1].readiness = ready]]
    BY <1>3, <1>6
  <1> QED  BY <1>5, <1>7 DEF after, cal, value, of, ood, ready

\* The error of a corrected value is the residual without what the correction took back.
LEMMA ErrorHolds ==
  ASSUME TablesTotal, NEW b, SoundBundle(b), NEW s, WorldState(s), NEW truth \in TruthRecords,
         NEW m \in Metrics, m \in DOMAIN truth.measured
  PROVE  \E c \in Int : /\ Within(c, b.calibration.of[m].signed_bias)
                        /\ ErrorOf(Raw(b, s), truth, m) \in Int
                        /\ ErrorOf(Prediction(b, s).value, truth, m)
                              = ErrorOf(Raw(b, s), truth, m) - c
  <1> DEFINE raw == Raw(b, s)
             value == Prediction(b, s).value
             of == b.calibration.of
             bias == of[m].signed_bias
             t == truth.measured[m]
  <1>1. MapOf(raw, Metrics, Int)
    BY RawTyped
  <1>2. value = CorrectedAll(b, raw)
    BY PredictionValue
  <1>3. of \in [Metrics -> MetricErrorSummary]
    BY DEF SoundBundle, CalibrationState
  <1>4. bias \in Int
    BY <1>3 DEF MetricErrorSummary
  <1>5. t \in Int
    BY TruthAssumption DEF MapOf
  <1> HIDE DEF raw, value
  <1>6. DOMAIN value = DOMAIN raw /\ \A x \in DOMAIN raw : value[x] = Corrected(of, x, raw[x])
    BY <1>2 DEF CorrectedAll
  <1>7. CASE m \in DOMAIN raw
    <2>1. raw[m] \in Int
      BY <1>1, <1>7 DEF MapOf
    <2> HIDE DEF of
    <2> DEFINE c == Correction(of, m, raw[m])
    <2>2. c \in Int /\ Within(c, bias) /\ Corrected(of, m, raw[m]) \in Int
      BY <1>3, <2>1, CorrectionHolds
    <2>3. c = raw[m] - value[m] /\ value[m] \in Int
      BY <1>6, <1>7, <2>2 DEF Correction
    <2>4. ErrorOf(raw, truth, m) = raw[m] - t /\ ErrorOf(value, truth, m) = value[m] - t
      BY <1>6, <1>7 DEF ErrorOf
    <2> HIDE DEF c, t, bias
    <2>5. ErrorOf(raw, truth, m) \in Int /\ ErrorOf(value, truth, m) = ErrorOf(raw, truth, m) - c
      BY <1>5, <2>1, <2>2, <2>3, <2>4
    <2> QED  BY <2>2, <2>5 DEF bias, raw, value, of
  <1>8. CASE m \notin DOMAIN raw
    <2>1. ErrorOf(raw, truth, m) = 0 /\ ErrorOf(value, truth, m) = 0
      BY <1>6, <1>8 DEF ErrorOf
    <2>2. Within(0, bias)
      BY <1>4 DEF Within
    <2>3. 0 \in Int /\ 0 = 0 - 0
      OBVIOUS
    <2> HIDE DEF bias, of
    <2>4. \E c \in Int : /\ Within(c, bias) /\ ErrorOf(raw, truth, m) \in Int
                         /\ ErrorOf(value, truth, m) = ErrorOf(raw, truth, m) - c
      BY <2>1, <2>2, <2>3
    <2> QED  BY <2>4 DEF bias, raw, value, of
  <1> QED  BY <1>7, <1>8

LEMMA CalibrateLearning ==
  ASSUME TablesTotal, LearningInvariant, NEW s \in states, NEW truth \in TruthRecords,
         Calibrate(s, truth)
  PROVE  LearningInvariant'
  <1> DEFINE cal == bundle.calibration
             value == Prediction(bundle, s).value
             of == TaughtBy(cal.of, value, truth)
             ood == RiskBy(cal.ood, s)
             after == Calibrated(bundle, s, truth)
  <1>1. /\ bundle' = after /\ asked' = asked + 1
        /\ states' = states /\ training' = training
        /\ residuals' = [m \in Metrics |->
                           IF m \in DOMAIN truth.measured
                           THEN residuals[m] \cup {ErrorOf(Raw(bundle, s), truth, m)}
                           ELSE residuals[m]]
    BY DEF Calibrate
  <1>2. /\ SoundBundle(bundle) /\ WorldState(s) /\ Counted
        /\ \A m \in Metrics : Learned(cal.of[m], residuals[m])
    BY DEF LearningInvariant
  <1>3. /\ after = [calibration |-> after.calibration, checkpoint |-> bundle.checkpoint]
        /\ after.calibration =
             [of |-> of, ood |-> ood, patches |-> cal.patches + 1,
              regions |-> [cal.regions EXCEPT ![1].readiness = Readiness(truth, ood)]]
    BY <1>2, CalibratedParts
  <1> HIDE DEF after, value
  <1>4. ASSUME NEW m \in Metrics
        PROVE  /\ of[m] \in MetricErrorSummary
               /\ of[m].sample_count \in {cal.of[m].sample_count, cal.of[m].sample_count + 1}
               /\ Learned(of[m], residuals'[m])
    <2>1. cal.of[m] \in MetricErrorSummary /\ Learned(cal.of[m], residuals[m])
      BY <1>2 DEF SoundBundle, CalibrationState
    <2>2. CASE m \notin DOMAIN truth.measured
      <3>1. of[m] = cal.of[m] /\ residuals'[m] = residuals[m]
        BY <1>1, <2>2 DEF TaughtBy
      <3> HIDE DEF of, cal
      <3> QED  BY <2>1, <3>1
    <2>3. CASE m \in DOMAIN truth.measured
      <3> DEFINE r == ErrorOf(Raw(bundle, s), truth, m)
      <3>1. PICK c \in Int : /\ Within(c, cal.of[m].signed_bias) /\ r \in Int
                             /\ ErrorOf(value, truth, m) = r - c
        BY <1>2, <2>3, ErrorHolds DEF value
      <3>2. of[m] = Averaged(cal.of[m], r - c) /\ residuals'[m] = residuals[m] \cup {r}
        BY <1>1, <2>3, <3>1 DEF TaughtBy
      <3> HIDE DEF of, cal, r
      <3>3. /\ Averaged(cal.of[m], r - c) \in MetricErrorSummary
            /\ Averaged(cal.of[m], r - c).sample_count = cal.of[m].sample_count + 1
            /\ Learned(Averaged(cal.of[m], r - c), residuals[m] \cup {r})
        BY <2>1, <3>1, LearnedStep
      <3> QED  BY <3>2, <3>3
    <2> QED  BY <2>2, <2>3
  <1>5. of = [m \in Metrics |-> of[m]]
    BY DEF TaughtBy
  <1>6. cal \in CalibrationState
    BY <1>2 DEF SoundBundle
  <1>7. /\ ood \in OODStatistics /\ ood.query_count = asked + 1
        /\ ood.high_risk_count <= asked + 1 /\ cal.patches = asked /\ asked \in Nat
    <2>1. /\ cal.ood \in OODStatistics /\ cal.ood.query_count = asked
          /\ cal.ood.high_risk_count <= asked /\ cal.patches = asked /\ asked \in Nat
      BY <1>2, <1>6 DEF CalibrationState, Counted
    <2> DEFINE old == cal.ood
    <2>2. old \in OODStatistics /\ old.query_count = asked /\ old.high_risk_count <= asked
      BY <2>1
    <2> HIDE DEF cal, old
    <2>3. /\ RiskBy(old, s) \in OODStatistics /\ RiskBy(old, s).query_count = asked + 1
          /\ RiskBy(old, s).high_risk_count <= asked + 1
      BY <2>1, <2>2 DEF RiskBy, OODStatistics
    <2> QED  BY <2>1, <2>3 DEF old
  <1>8. [cal.regions EXCEPT ![1].readiness = Readiness(truth, ood)] \in Seq(UsableRegion)
    <2> DEFINE q == cal.regions
               y == Readiness(truth, ood)
    <2>1. q \in Seq(UsableRegion)
      BY <1>6 DEF CalibrationState
    <2>2. y \in {"screening", "rollout_ready"}
      BY DEF Readiness
    <2> HIDE DEF q, y, cal, ood
    <2>3. q \in [1 .. Len(q) -> UsableRegion] /\ Len(q) \in Nat
      BY <2>1
    <2>4. \A x \in UsableRegion : [x EXCEPT !.readiness = y] \in UsableRegion
      BY <2>2 DEF UsableRegion
    <2>5. [q EXCEPT ![1].readiness = y] \in [1 .. Len(q) -> UsableRegion]
      BY <2>3, <2>4
    <2> QED  BY <2>3, <2>5, SeqDef DEF q, y
  <1> HIDE DEF of, ood
  <1>9. after.calibration \in CalibrationState
    <2>1. of \in [Metrics -> MetricErrorSummary]
      BY <1>4, <1>5
    <2>2. cal.patches + 1 \in Nat
      BY <1>7
    <2> HIDE DEF cal
    <2> QED  BY <1>3, <1>7, <1>8, <2>1, <2>2 DEF CalibrationState
  <1>10. SoundBundle(bundle')
    <2>1. after.checkpoint = bundle.checkpoint
      BY <1>3
    <2>2. after = [calibration |-> after.calibration, checkpoint |-> after.checkpoint]
      BY <1>3
    <2> QED  BY <1>1, <1>2, <1>9, <2>1, <2>2 DEF SoundBundle
  <1>11. /\ after.calibration.of = of /\ after.calibration.ood = ood
         /\ after.calibration.patches = cal.patches + 1
    BY <1>3
  <1>12. Counted'
    <2>1. \A m \in Metrics : of[m].sample_count <= asked + 1
      <3>1. \A m \in Metrics : cal.of[m].sample_count <= asked /\ cal.of[m].sample_count \in Nat
        BY <1>2, <1>6 DEF Counted, CalibrationState, MetricErrorSummary
      <3> HIDE DEF cal
      <3> QED  BY <1>4, <1>7, <3>1
    <2>2. /\ bundle'.calibration.patches = asked' /\ bundle'.calibration.ood.query_count = asked'
          /\ bundle'.calibration.ood.high_risk_count <= asked' /\ asked' \in Nat
      BY <1>1, <1>7, <1>11
    <2>3. \A m \in Metrics : bundle'.calibration.of[m].sample_count <= asked'
      BY <1>1, <1>11, <2>1
    <2> QED  BY <2>2, <2>3 DEF Counted
  <1>13. \A m \in Metrics : Learned(bundle'.calibration.of[m], residuals'[m])
    BY <1>1, <1>4, <1>11
  <1>14. residuals' = [m \in Metrics |-> residuals'[m]]
    BY <1>1
  <1>15. /\ \A t \in states' : WorldState(t)
         /\ training' = <<>> \/ (training' = <<training'[1]>> /\ SoundRun(training'[1]))
    BY <1>1 DEF LearningInvariant
  <1> QED  BY <1>10, <1>12, <1>13, <1>14, <1>15 DEF LearningInvariant

\* A training run of a dataset is trained and judged on sound records.
LEMMA TrainedSound ==
  ASSUME NEW stats \in Experiments, NEW cap \in Caps
  PROVE  SoundRun(TrainedRun(WorldModelDataset(stats, cap)))
  <1> DEFINE dataset == WorldModelDataset(stats, cap)
             split == ResolvedSplit(dataset.records)
             targets == IF ConfigTargets = {} THEN dataset.targets ELSE ConfigTargets
  <1>1. /\ SoundRecords(dataset.records) /\ PartOf(dataset.records, AllRecords(stats))
        /\ dataset.targets \subseteq Metrics
    BY DatasetHolds
  <1> HIDE DEF dataset
  <1>2. SoundSplit(split)
    BY <1>1, SplitHolds
  <1>3. targets \in SUBSET Metrics
    BY <1>1, TrainingAssumption
  <1> HIDE DEF split, targets
  <1>4. TrainedRun(dataset) = RunOfSplit(split, targets)
    BY DEF TrainedRun, split, targets
  <1>5. RunOfSplit(split, targets).split = split
    BY DEF RunOfSplit, RunOf
  <1>6. SurrogateTrainingRun(RunOfSplit(split, targets))
    BY <1>2, <1>3, RunTyped
  <1> QED  BY <1>2, <1>4, <1>5, <1>6 DEF SoundRun, dataset

LEMMA TrainLearning ==
  ASSUME LearningInvariant, NEW stats \in Experiments, NEW cap \in Caps, Train(stats, cap)
  PROVE  LearningInvariant'
  <1> DEFINE run == TrainedRun(WorldModelDataset(stats, cap))
  <1>1. training' = <<run>> /\ UNCHANGED <<bundle, states, rollouts, initials, residuals, asked>>
    BY DEF Train
  <1>2. SoundRun(run)
    BY TrainedSound
  <1> HIDE DEF run
  <1>3. training' = <<training'[1]>> /\ SoundRun(training'[1])
    BY <1>1, <1>2
  <1>4. Counted'
    BY <1>1 DEF LearningInvariant, Counted
  <1> QED  BY <1>1, <1>3, <1>4 DEF LearningInvariant

LEMMA AttachLearning ==
  ASSUME LearningInvariant, Attach
  PROVE  LearningInvariant'
  <1> DEFINE c == [families |-> CheckpointFamilies(training[1]), run |-> training[1]]
  <1>1. /\ bundle' = [bundle EXCEPT !.checkpoint = <<c>>]
        /\ training # <<>> /\ UNCHANGED <<states, rollouts, initials, training, residuals, asked>>
    BY DEF Attach
  <1>2. /\ bundle = [calibration |-> bundle.calibration, checkpoint |-> bundle.checkpoint]
        /\ bundle.calibration \in CalibrationState
        /\ SoundRun(training[1])
    BY <1>1 DEF LearningInvariant, SoundBundle
  <1>3. c.families \subseteq Families \cup {"unknown"} /\ c.run = training[1]
    BY SupportedTyped DEF CheckpointFamilies
  <1> HIDE DEF c
  <1>4. bundle' = [calibration |-> bundle.calibration, checkpoint |-> <<c>>]
    BY <1>1, <1>2
  <1>5. SoundBundle(bundle')
    <2>1. /\ bundle'.calibration = bundle.calibration /\ bundle'.checkpoint = <<c>>
          /\ bundle'.checkpoint[1] = c
      BY <1>4
    <2> QED  BY <1>2, <1>3, <1>4, <2>1 DEF SoundBundle
  <1>6. bundle'.calibration = bundle.calibration
    BY <1>4
  <1>7. Counted'
    BY <1>1, <1>6 DEF LearningInvariant, Counted
  <1>8. \A m \in Metrics : Learned(bundle'.calibration.of[m], residuals'[m])
    BY <1>1, <1>6 DEF LearningInvariant
  <1> QED  BY <1>1, <1>5, <1>7, <1>8 DEF LearningInvariant

LEMMA LearningNext ==
  ASSUME TablesTotal
  PROVE  RolloutInvariant /\ LearningInvariant /\ [Next]_vars => LearningInvariant'
  <1> SUFFICES ASSUME RolloutInvariant, LearningInvariant, [Next]_vars PROVE LearningInvariant'
    OBVIOUS
  <1>1. ASSUME UNCHANGED <<bundle, states, training, residuals, asked>> PROVE LearningInvariant'
    <2>1. Counted'
      BY <1>1 DEF LearningInvariant, Counted
    <2> QED  BY <1>1, <2>1 DEF LearningInvariant
  <1>2. ASSUME NEW request \in Requests, BuildState(request) PROVE LearningInvariant'
    BY <1>2, BuildLearning
  <1>3. ASSUME NEW s \in states, NEW a \in DesignActions, PredictTransition(s, a)
        PROVE  LearningInvariant'
    BY <1>3, PredictLearning
  <1>4. ASSUME NEW s \in states, NEW actions \in Rollouts, NEW horizon \in 0 .. 2,
               Rollout(s, actions, horizon)
        PROVE  LearningInvariant'
    BY <1>1, <1>4 DEF Rollout
  <1>5. ASSUME NEW s \in states, NEW truth \in TruthRecords, TruthState(s, truth)
        PROVE  LearningInvariant'
    BY <1>5, TruthLearning DEF RolloutInvariant
  <1>6. ASSUME NEW s \in states, NEW truth \in TruthRecords, Calibrate(s, truth)
        PROVE  LearningInvariant'
    BY <1>6, CalibrateLearning
  <1>7. ASSUME NEW stats \in Experiments, NEW cap \in Caps, Train(stats, cap)
        PROVE  LearningInvariant'
    BY <1>7, TrainLearning
  <1>8. CASE Attach
    BY <1>8, AttachLearning
  <1>9. CASE UNCHANGED vars
    BY <1>1, <1>9 DEF vars
  <1> QED  BY <1>2, <1>3, <1>4, <1>5, <1>6, <1>7, <1>8, <1>9 DEF Next

\* A third of what agreeing truths ask for is taken back.
LEMMA ThirdHelps ==
  ASSUME NEW n \in Nat \ {0}, NEW bias \in Int, NEW r \in Int, Halved(bias, r),
         n = 1 => bias = r, Within(bias, r), NEW k, k = IF n < 3 THEN n ELSE 3
  PROVE  3 * Abs(r - Rounded(bias * k, 3)) <= 2 * Abs(r) + 3
  <1>1. CASE n = 1
    <2>1. k = 1 /\ bias = r
      BY <1>1
    <2>2. bias * k = r
      BY <2>1
    <2> QED  BY <2>2 DEF Rounded, Abs
  <1>2. CASE n = 2
    <2>1. bias * k = 2 * bias
      BY <1>2
    <2> QED  BY <2>1 DEF Rounded, Abs, Halved, Within
  <1>3. CASE n >= 3
    <2>1. bias * k = 3 * bias
      BY <1>3
    <2> QED  BY <2>1 DEF Rounded, Abs, Halved, Within
  <1> QED  BY <1>1, <1>2, <1>3

\* Whatever is asked, built, trained and attached in between: the correction stays within
\* the errors seen and helps where they agree, no truth is lost or counted twice, and
\* what judges a surrogate was kept from it. For every task whose tables are total.
THEOREM LearningCorrect == ASSUME TablesTotal PROVE Spec => []LearningSound
  <1>1. LearningInvariant => LearningSound
    <2> SUFFICES ASSUME LearningInvariant PROVE LearningSound
      OBVIOUS
    <2> DEFINE of == bundle.calibration.of
    <2>0. of \in [Metrics -> MetricErrorSummary]
      BY DEF LearningInvariant, SoundBundle, CalibrationState
    <2>1. CorrectionWithinResiduals
      <3> SUFFICES ASSUME NEW m \in Metrics
                   PROVE  /\ Min(residuals[m] \cup {0}) <= of[m].signed_bias
                          /\ of[m].signed_bias <= Max(residuals[m] \cup {0})
        BY DEF CorrectionWithinResiduals
      <3> DEFINE seen == residuals[m] \cup {0}
                 bias == of[m].signed_bias
      <3>1. /\ residuals[m] \in SUBSET Int /\ IsFiniteSet(residuals[m])
            /\ \E low, high \in seen : low <= bias /\ bias <= high
        BY DEF LearningInvariant, Learned
      <3>2. seen \in SUBSET Int /\ IsFiniteSet(seen) /\ seen # {}
        BY <3>1, FS_AddElement
      <3>3. bias \in Int
        BY <2>0 DEF MetricErrorSummary
      <3> HIDE DEF seen, bias
      <3>4. /\ Max(seen) \in Int /\ \A y \in seen : y <= Max(seen)
            /\ Min(seen) \in Int /\ \A y \in seen : Min(seen) <= y
        BY <3>2, Extremes
      <3>5. Min(seen) <= bias /\ bias <= Max(seen)
        BY <3>1, <3>2, <3>3, <3>4
      <3> QED  BY <3>5 DEF seen, bias
    <2>2. AgreeingTruthsHelp
      <3> SUFFICES ASSUME NEW m \in Metrics, NEW s \in states,
                          Cardinality(residuals[m]) = 1, m \in DOMAIN Raw(bundle, s),
                          Abs(Raw(bundle, s)[m]) >= 2 * Abs(CHOOSE r \in residuals[m] : TRUE)
                   PROVE  LET raw == Raw(bundle, s)
                              r == CHOOSE r \in residuals[m] : TRUE
                          IN  3 * Abs(Corrected(of, m, raw[m]) - (raw[m] - r)) <= 2 * Abs(r) + 3
        BY DEF AgreeingTruthsHelp
      <3> DEFINE v == Raw(bundle, s)[m]
                 r == CHOOSE r \in residuals[m] : TRUE
                 bias == of[m].signed_bias
                 n == of[m].sample_count
                 k == IF n < 3 THEN n ELSE 3
      <3>1. Learned(of[m], residuals[m])
        BY DEF LearningInvariant
      <3>2. residuals[m] = {r} /\ r \in Int
        <4>1. residuals[m] \in SUBSET Int /\ IsFiniteSet(residuals[m])
          BY <3>1 DEF Learned
        <4>2. \E x : residuals[m] = {x}
          BY <4>1, FS_Singleton
        <4> QED  BY <4>1, <4>2
      <3>3. v \in Int
        BY RawTyped DEF LearningInvariant, MapOf
      <3>4. bias \in Int /\ n \in Nat
        BY <2>0 DEF MetricErrorSummary
      <3>5. /\ Halved(bias, r) /\ (n = 1 => bias = r) /\ n # 0
            /\ \E low, high \in {r} \cup {0} : low <= bias /\ bias <= high
        BY <3>1, <3>2 DEF Learned
      <3>6. Abs(v) >= 2 * Abs(r)
        OBVIOUS
      <3>7. /\ Abs(v) >= 2 * Abs(bias) => Correction(of, m, v) = Rounded(bias * k, 3)
            /\ Corrected(of, m, v) \in Int
        <4> HIDE DEF v, of
        <4> QED  BY <2>0, <3>3, CorrectionHolds
      <3> HIDE DEF v, r, of, n, k, bias
      <3>8. Within(bias, r)
        BY <3>2, <3>4, <3>5 DEF Within
      <3>9. Abs(v) >= 2 * Abs(bias)
        BY <3>2, <3>3, <3>4, <3>6, <3>8 DEF Within, Abs
      <3>10. 3 * Abs(r - Rounded(bias * k, 3)) <= 2 * Abs(r) + 3
        BY <3>2, <3>4, <3>5, <3>8, ThirdHelps DEF k
      <3>11. Corrected(of, m, v) - (v - r) = r - Rounded(bias * k, 3)
        BY <3>2, <3>3, <3>7, <3>9 DEF Correction
      <3> QED  BY <3>10, <3>11 DEF v, r, of
    <2>3. CalibrationKept
      BY DEF CalibrationKept, LearningInvariant, Counted, Learned
    <2>4. EvalHeldOut
      <3> SUFFICES ASSUME NEW n \in DOMAIN training
                   PROVE  LET split == training[n].split
                              both == IdsOf(split.train) \cap IdsOf(split.eval)
                          IN  /\ split.source = "dataset_declared" => both = {}
                              /\ split.source = "fallback_missing_eval" => both \subseteq VerifiedAgain
        BY DEF EvalHeldOut
      <3>1. n = 1 /\ SoundRun(training[1])
        BY DEF LearningInvariant
      <3> QED  BY <3>1 DEF SoundRun, SoundSplit
    <2> QED  BY <2>1, <2>2, <2>3, <2>4 DEF LearningSound
  <1> QED  BY RolloutInit, RolloutNext, LearningInit, LearningNext, <1>1, PTL DEF Spec

(***************************************************************************)
(* What is said with a prediction                                          *)
(***************************************************************************)

\* Every interval holds the value it is given with.
HoldsValues(p) ==
    \A m \in DOMAIN p.value : p.spread[m].low <= p.value[m] /\ p.value[m] <= p.spread[m].high

LEMMA MarginTyped ==
  ASSUME NEW value, MapOf(value, Metrics, Int)
  PROVE  Margin(value) \in Int
  BY TaskAssumption DEF MapOf, Margin

LEMMA TrustTyped ==
  ASSUME NEW s, NEW value, NEW confidence \in Percent, NEW uncertainty \in Percent
  PROVE  /\ Trust(s, value, confidence, uncertainty) \in TrustAssessment
         /\ Trust(s, value, confidence, uncertainty).uncertainty = uncertainty
  <1> DEFINE within(t) == /\ confidence >= t.confidence
                          /\ s.uncertainty.ood <= t.ood
                          /\ uncertainty <= t.uncertainty
             tier == IF within(Policy.rollout) THEN "rollout_ready"
                     ELSE IF within(Policy.ranking) THEN "ranking_ready"
                     ELSE IF confidence >= Policy.screening.confidence THEN "screening_only"
                     ELSE "hard_block"
             level == CASE tier = "rollout_ready" -> "high" [] tier = "ranking_ready" -> "medium"
                        [] tier = "screening_only" -> "low" [] tier = "hard_block" -> "blocked"
             near == Margin(value) < 3
             t == IF near /\ tier # "hard_block" THEN "must_escalate" ELSE tier
             l == IF near /\ level = "medium" THEN "low" ELSE level
  <1>1. Trust(s, value, confidence, uncertainty) =
          [tier |-> t, level |-> l, confidence |-> confidence, uncertainty |-> uncertainty,
           must_escalate |-> near]
    BY DEF Trust
  <1>2. tier \in {"rollout_ready", "ranking_ready", "screening_only", "hard_block"}
    OBVIOUS
  <1> HIDE DEF tier
  <1>3. level \in TrustLevels
    BY <1>2 DEF TrustLevels
  <1> HIDE DEF level
  <1>4. t \in ServiceTiers
    BY <1>2 DEF ServiceTiers
  <1>5. l \in TrustLevels
    BY <1>3 DEF TrustLevels
  <1>6. near \in BOOLEAN
    OBVIOUS
  <1> HIDE DEF t, l, near
  <1> QED  BY <1>1, <1>4, <1>5, <1>6 DEF TrustAssessment

LEMMA HeuristicTrustTyped ==
  ASSUME NEW s, WorldState(s), NEW value
  PROVE  HeuristicTrust(s, value) \in TrustAssessment
  <1> DEFINE e == s.uncertainty.epistemic
             a == s.uncertainty.aleatoric
             o == s.uncertainty.ood
             u == Rounded(60 * e + 40 * a, 100)
             confidence == Clip(100 - Rounded(65 * u + 35 * o, 100), 0, 100)
  <1>1. e \in Percent /\ a \in Percent /\ o \in Percent
    BY DEF WorldState, UncertaintyContext
  <1>2. HeuristicTrust(s, value) = Trust(s, value, confidence, u)
    BY DEF HeuristicTrust
  <1> HIDE DEF e, a, o
  <1>3. u \in Percent
    BY <1>1 DEF Percent, Rounded
  <1> HIDE DEF u
  <1>4. confidence \in Percent
    BY <1>1, <1>3 DEF Percent, Rounded, Clip
  <1> HIDE DEF confidence
  <1> QED  BY <1>2, <1>3, <1>4, TrustTyped

LEMMA HeuristicSpreadHolds ==
  ASSUME NEW value, MapOf(value, Metrics, Int), NEW trust \in TrustAssessment,
         NEW m \in DOMAIN value
  PROVE  LET i == HeuristicSpread(value, trust)[m]
         IN  i \in MetricUncertainty /\ i.low <= value[m] /\ value[m] <= i.high
  <1> DEFINE u == trust.uncertainty
             v == value[m]
             wide == Max({300, 18 * u})
             span == Rounded(Abs(v) * wide, 10000)
  <1>1. v \in Int /\ u \in Percent
    BY DEF MapOf, TrustAssessment
  <1>2. HeuristicSpread(value, trust)[m] = [uncertainty |-> u, low |-> v - span, high |-> v + span]
    BY DEF HeuristicSpread
  <1> HIDE DEF u, v
  <1>3. wide \in Nat
    <2> DEFINE y == 18 * u
    <2>1. y \in Nat
      BY <1>1 DEF Percent
    <2> HIDE DEF y
    <2>2. Max({300, y}) = IF 300 >= y THEN 300 ELSE y
      BY <2>1, OfTwo
    <2> QED  BY <2>1, <2>2 DEF y
  <1> HIDE DEF wide
  <1>4. span \in Nat
    <2>1. Abs(v) \in Nat
      BY <1>1 DEF Abs
    <2> DEFINE x == Abs(v) * wide
    <2>2. x \in Int /\ x >= 0
      <3>1. \A i, j \in Nat : i * j \in Int /\ i * j >= 0
        OBVIOUS
      <3> QED  BY <1>3, <2>1, <3>1
    <2> HIDE DEF x
    <2>3. Rounded(x, 10000) \in Nat
      BY <2>2, RoundedNat
    <2> QED  BY <2>3 DEF x
  <1> HIDE DEF span
  <1>5. u \in Nat
    BY <1>1 DEF Percent
  <1>6. [uncertainty |-> u, low |-> v - span, high |-> v + span] \in MetricUncertainty
    BY <1>1, <1>4, <1>5 DEF MetricUncertainty
  <1>7. v - span <= v /\ v <= v + span
    BY <1>1, <1>4
  <1> QED  BY <1>2, <1>6, <1>7 DEF v

LEMMA ProxyHolds ==
  ASSUME NEW b, NEW s, WorldState(s), NEW value, MapOf(value, Metrics, Int)
  PROVE  LET p == ProxyPrediction(b, value, HeuristicTrust(s, value))
         IN  MetricsPrediction(p) /\ HoldsValues(p)
  <1> DEFINE trust == HeuristicTrust(s, value)
             p == ProxyPrediction(b, value, trust)
             spread == HeuristicSpread(value, trust)
  <1>1. trust \in TrustAssessment
    BY HeuristicTrustTyped
  <1>2. /\ p.value = value /\ p.trust = trust /\ p.spread = spread
        /\ p.backend = [kind |-> "heuristic_proxy", families |-> Range(SupportedFamilies),
                        fallback |-> b.checkpoint # <<>>]
    BY DEF ProxyPrediction
  <1>3. p.backend \in Backend
    BY <1>2, SupportedTyped DEF Backend
  <1>4. DOMAIN spread = DOMAIN value
    BY DEF HeuristicSpread
  <1> HIDE DEF p, trust
  <1>5. ASSUME NEW m \in DOMAIN value
        PROVE  /\ spread[m] \in MetricUncertainty
               /\ spread[m].low <= value[m] /\ value[m] <= spread[m].high
    BY <1>1, HeuristicSpreadHolds
  <1> HIDE DEF spread
  <1>6. MapOf(spread, Metrics, MetricUncertainty)
    BY <1>4, <1>5 DEF MapOf
  <1>7. MetricsPrediction(p) /\ HoldsValues(p)
    BY <1>1, <1>2, <1>3, <1>5, <1>6 DEF MetricsPrediction, HoldsValues
  <1> QED  BY <1>7 DEF p, trust

LEMMA TrainedTrustTyped ==
  ASSUME TablesTotal, NEW b, SoundBundle(b), NEW s, WorldState(s), Serves(b, s), NEW value,
         MapOf(value, Metrics, Int), b.checkpoint[1].run.targets \subseteq DOMAIN value
  PROVE  TrainedTrust(b, s, InferenceFor(b, s), value) \in TrustAssessment
  <1> DEFINE inference == InferenceFor(b, s)
             targets == b.checkpoint[1].run.targets
             relative == [m \in targets |->
                            Min({100, Rounded(100 * inference.of[m].spread,
                                              Max({Abs(value[m]), 1}))})]
             o == s.uncertainty.ood
             spread == Mean(targets, relative)
             doubt == Clip(Rounded(75 * spread + 25 * o, 100), 0, 100)
             confidence == Rounded(inference.confidence * (400 - o), 400)
  <1>1. InferenceTyped(inference, targets) /\ targets \subseteq Metrics
    BY InferenceForHolds DEF SoundRun, SurrogateTrainingRun
  <1>2. TrainedTrust(b, s, inference, value) = Trust(s, value, confidence, doubt)
    BY DEF TrainedTrust
  <1>3. o \in Percent
    BY DEF WorldState, UncertaintyContext
  <1>4. targets \subseteq DOMAIN value
    OBVIOUS
  <1> HIDE DEF inference, targets, o
  <1>5. ASSUME NEW m \in targets PROVE relative[m] \in Percent
    <2> DEFINE x == 100 * inference.of[m].spread
               y == Abs(value[m])
               d == Max({y, 1})
               q == Rounded(x, d)
    <2>1. x \in Int /\ x >= 0
      BY <1>1 DEF InferenceTyped
    <2>2. y \in Nat
      BY <1>4 DEF MapOf, Abs
    <2>3. relative[m] = Min({100, q})
      OBVIOUS
    <2> HIDE DEF x, y, relative
    <2>4. Max({y, 1}) = IF y >= 1 THEN y ELSE 1
      BY <2>2, OfTwo
    <2>5. d \in Nat \ {0}
      BY <2>2, <2>4
    <2> HIDE DEF d
    <2>6. q \in Nat
      BY <2>1, <2>5, RoundedNat
    <2> HIDE DEF q
    <2>7. Min({100, q}) = IF 100 <= q THEN 100 ELSE q
      BY <2>6, OfTwo
    <2> QED  BY <2>3, <2>6, <2>7 DEF Percent
  <1> HIDE DEF relative
  <1>6. spread \in Nat
    <2>1. IsFiniteSet(targets)
      BY <1>1, TrainingAssumption, FS_Subset
    <2>2. \A m \in targets : relative[m] \in Int /\ relative[m] >= 0
      BY <1>5 DEF Percent
    <2>3. spread \in Int /\ spread >= 0
      BY <2>1, <2>2, MeanBetween
    <2> QED  BY <2>3
  <1> HIDE DEF spread
  <1>7. doubt \in Percent
    BY <1>3, <1>6 DEF Percent, Clip, Rounded
  <1> HIDE DEF doubt
  <1>8. confidence \in Percent
    <2> DEFINE c == inference.confidence
               x == c * (400 - o)
    <2>1. c \in 0 .. 100 /\ 400 - o \in 300 .. 400
      BY <1>1, <1>3 DEF InferenceTyped, Percent
    <2>2. \A i \in 0 .. 100, j \in 300 .. 400 : i * j \in Int /\ i * j >= 0 /\ i * j <= 100 * 400
      <3> SUFFICES ASSUME NEW i \in 0 .. 100, NEW j \in 300 .. 400
                   PROVE  i * j \in Int /\ i * j >= 0 /\ i * j <= 100 * 400
        OBVIOUS
      <3>1. i * j \in Int /\ i * j >= 0
        OBVIOUS
      <3>2. (100 - i) * j >= 0 /\ (100 - i) * j = 100 * j - i * j
        OBVIOUS
      <3> QED  BY <3>1, <3>2
    <2>3. x \in Int /\ x >= 0 /\ x <= 100 * 400
      <3> HIDE DEF c
      <3> QED  BY <2>1, <2>2
    <2> HIDE DEF x
    <2>4. Rounded(x, 400) \in Nat
      BY <2>3, RoundedNat
    <2>5. Rounded(x, 400) <= 100
      BY <2>3, RoundedBetween
    <2> QED  BY <2>4, <2>5 DEF Percent, x
  <1> HIDE DEF confidence
  <1> QED  BY <1>2, <1>7, <1>8, TrustTyped DEF inference

\* The values of a bundle that serves a state cover the targets of its surrogate.
LEMMA TargetsCovered ==
  ASSUME TablesTotal, NEW b, SoundBundle(b), NEW s, WorldState(s), Serves(b, s)
  PROVE  b.checkpoint[1].run.targets \subseteq DOMAIN CorrectedAll(b, Raw(b, s))
  <1>1. InferenceTyped(InferenceFor(b, s), b.checkpoint[1].run.targets)
    BY InferenceForHolds
  <1>2. DOMAIN InferenceFor(b, s).of = b.checkpoint[1].run.targets
    BY <1>1 DEF InferenceTyped
  <1>3. DOMAIN InferenceFor(b, s).of \subseteq DOMAIN Raw(b, s)
    BY DEF Raw, Overlaid
  <1> QED  BY <1>2, <1>3 DEF CorrectedAll

LEMMA TrainedHolds ==
  ASSUME TablesTotal, NEW b, SoundBundle(b), NEW s, WorldState(s), Serves(b, s), NEW value,
         MapOf(value, Metrics, Int), b.checkpoint[1].run.targets \subseteq DOMAIN value
  PROVE  LET i == InferenceFor(b, s)
             p == TrainedPrediction(b, i, value, TrainedTrust(b, s, i, value))
         IN  MetricsPrediction(p) /\ HoldsValues(p)
  <1> DEFINE i == InferenceFor(b, s)
             trust == TrainedTrust(b, s, i, value)
             p == TrainedPrediction(b, i, value, trust)
             targets == b.checkpoint[1].run.targets
             proxy == HeuristicSpread(value, trust)
             spread == [m \in DOMAIN value |-> IF m \in targets
                                               THEN TrainedInterval(value[m], i.of[m])
                                               ELSE proxy[m]]
  <1>1. trust \in TrustAssessment
    BY TrainedTrustTyped
  <1>2. InferenceTyped(i, targets)
    BY InferenceForHolds
  <1>3. /\ p.value = value /\ p.trust = trust /\ p.spread = spread
        /\ p.backend = [kind |-> "trainable_tabular_surrogate",
                        families |-> b.checkpoint[1].families, fallback |-> FALSE]
    BY DEF TrainedPrediction
  <1>4. p.backend \in Backend
    <2>1. b.checkpoint[1].families \subseteq Families \cup {"unknown"}
      BY DEF Serves, SoundBundle
    <2> HIDE DEF p
    <2> QED  BY <1>3, <2>1 DEF Backend
  <1> HIDE DEF p, trust, i, targets
  <1>5. ASSUME NEW m \in DOMAIN value
        PROVE  /\ spread[m] \in MetricUncertainty
               /\ spread[m].low <= value[m] /\ value[m] <= spread[m].high
    <2>1. CASE m \notin targets
      <3>1. spread[m] = proxy[m]
        BY <2>1
      <3>2. proxy[m] \in MetricUncertainty /\ proxy[m].low <= value[m] /\ value[m] <= proxy[m].high
        BY <1>1, HeuristicSpreadHolds
      <3> HIDE DEF spread, proxy
      <3> QED  BY <3>1, <3>2
    <2>2. CASE m \in targets
      <3> DEFINE v == value[m]
                 u == i.of[m].spread
                 w == HalfWidth(v, u)
      <3>1. v \in Int /\ u \in Nat
        BY <1>2, <2>2 DEF InferenceTyped, MapOf
      <3>2. spread[m] = [uncertainty |-> u, low |-> v - w, high |-> v + w]
        BY <2>2 DEF TrainedInterval
      <3> HIDE DEF v, u, spread
      <3>3. w \in Nat
        BY <3>1, HalfWidthHolds
      <3> HIDE DEF w
      <3>4. spread[m] \in MetricUncertainty /\ spread[m].low <= v /\ v <= spread[m].high
        BY <3>1, <3>2, <3>3 DEF MetricUncertainty
      <3> QED  BY <3>4 DEF v
    <2> QED  BY <2>1, <2>2
  <1>6. DOMAIN spread = DOMAIN value
    OBVIOUS
  <1> HIDE DEF spread
  <1>7. MapOf(spread, Metrics, MetricUncertainty)
    BY <1>5, <1>6 DEF MapOf
  <1>8. MetricsPrediction(p) /\ HoldsValues(p)
    BY <1>1, <1>3, <1>4, <1>5, <1>7 DEF MetricsPrediction, HoldsValues
  <1> QED  BY <1>8 DEF p, trust, i

\* Every prediction has its shape, and intervals that hold its values.
LEMMA PredictionHolds ==
  ASSUME TablesTotal, NEW b, SoundBundle(b), NEW s, WorldState(s)
  PROVE  MetricsPrediction(Prediction(b, s)) /\ HoldsValues(Prediction(b, s))
  <1> DEFINE value == CorrectedAll(b, Raw(b, s))
  <1>1. MapOf(value, Metrics, Int)
    BY RawTyped, CorrectedAllTyped
  <1>2. CASE Serves(b, s)
    <2>1. b.checkpoint[1].run.targets \subseteq DOMAIN value
      BY <1>2, TargetsCovered
    <2>2. Prediction(b, s) = TrainedPrediction(b, InferenceFor(b, s), value,
                                               TrainedTrust(b, s, InferenceFor(b, s), value))
      BY <1>2 DEF Prediction, PredictionOf
    <2> HIDE DEF value
    <2> QED  BY <1>1, <1>2, <2>1, <2>2, TrainedHolds
  <1>3. CASE ~Serves(b, s)
    <2>1. Prediction(b, s) = ProxyPrediction(b, value, HeuristicTrust(s, value))
      BY <1>3 DEF Prediction, PredictionOf
    <2> HIDE DEF value
    <2> QED  BY <1>1, <2>1, ProxyHolds
  <1> QED  BY <1>2, <1>3

LEMMA FeasibilityTyped ==
  ASSUME NEW value, MapOf(value, Metrics, Int)
  PROVE  Feasibility(value) \in 5 .. 100
  <1> DEFINE x == Margin(value)
             d == Abs(Threshold) + 1
             y == 100 * x
             c == Clip(50 + Rounded(y, d), 0, 100)
  <1>1. x \in Int /\ d \in Nat \ {0}
    BY MarginTyped, TaskAssumption DEF Abs
  <1>2. Feasibility(value) = Max({5, c})
    BY DEF Feasibility
  <1> HIDE DEF x, d
  <1>3. y \in Int
    BY <1>1
  <1> HIDE DEF y
  <1>4. Rounded(y, d) \in Int
    BY <1>1, <1>3, RoundedBetween
  <1>5. c \in 0 .. 100
    BY <1>4 DEF Clip
  <1> HIDE DEF c
  <1>6. Max({5, c}) = IF 5 >= c THEN 5 ELSE c
    BY <1>5, OfTwo
  <1> QED  BY <1>2, <1>5, <1>6

LEMMA SimulationTyped ==
  ASSUME NEW p, MetricsPrediction(p)
  PROVE  SimulationValue(p) \in SimulationValueEstimate
  <1> DEFINE f == Feasibility(p.value)
             u == p.trust.uncertainty
             boundary == Rounded(100, 1 + Abs(Margin(p.value)))
             value == Clip(Rounded(40 * f + 35 * u + 25 * boundary, 100), 0, 100)
             decision == IF p.trust.must_escalate \/ value >= 75 THEN "prioritize"
                         ELSE IF value >= 45 THEN "simulate" ELSE "defer"
  <1>1. MapOf(p.value, Metrics, Int) /\ p.trust \in TrustAssessment
    BY DEF MetricsPrediction
  <1>2. f \in 5 .. 100 /\ u \in Percent
    BY <1>1, FeasibilityTyped DEF TrustAssessment
  <1>3. boundary \in Int
    <2> DEFINE d == 1 + Abs(Margin(p.value))
    <2>1. d \in Nat \ {0}
      BY <1>1, MarginTyped DEF Abs
    <2> HIDE DEF d
    <2>2. Rounded(100, d) \in Int
      BY <2>1, RoundedBetween
    <2> QED  BY <2>2 DEF d
  <1>4. SimulationValue(p) = [value |-> value, decision |-> decision]
    BY DEF SimulationValue
  <1> HIDE DEF f, u, boundary
  <1>5. value \in Percent
    BY <1>2, <1>3 DEF Percent, Clip, Rounded
  <1> HIDE DEF value
  <1>6. decision \in {"defer", "simulate", "prioritize"}
    OBVIOUS
  <1> HIDE DEF decision
  <1> QED  BY <1>4, <1>5, <1>6 DEF SimulationValueEstimate

LEMMA TransitionTyped ==
  ASSUME TablesTotal, NEW b, SoundBundle(b), NEW s, WorldState(s), NEW a \in DesignActions,
         Admissible(a)
  PROVE  TransitionPrediction(Transition(b, s, a)) /\ Transition(b, s, a).next = NextState(s, a)
  <1> DEFINE next == NextState(s, a)
             p == Prediction(b, next)
             old(m) == IF m \in DOMAIN s.observed THEN s.observed[m] ELSE 0
             deltas == [m \in DOMAIN p.value |-> p.value[m] - old(m)]
             t == Transition(b, s, a)
  <1>1. WorldState(next)
    BY NextTyped
  <1>2. t.next = next /\ t.metrics = p /\ t.deltas = deltas
    BY DEF Transition, TransitionTo
  <1> HIDE DEF next, t
  <1>3. MetricsPrediction(p)
    BY <1>1, PredictionHolds
  <1> HIDE DEF p
  <1>4. \A m \in DOMAIN p.value : m \in Metrics /\ p.value[m] \in Int
    BY <1>3 DEF MetricsPrediction, MapOf
  <1>5. \A m : old(m) \in Int
    BY DEF WorldState, MapOf
  <1>6. MapOf(deltas, Metrics, Int)
    <2> HIDE DEF old
    <2> QED  BY <1>4, <1>5 DEF MapOf
  <1> HIDE DEF deltas
  <1>7. TransitionPrediction(t)
    BY <1>1, <1>2, <1>3, <1>6 DEF TransitionPrediction
  <1> QED  BY <1>2, <1>7 DEF t, next

\* The first of two ranked states is one of them.
LEMMA RankedFirst ==
  ASSUME NEW score, DOMAIN score = 1 .. 2, \A n \in 1 .. 2 : score[n] \in Int
  PROVE  RankedBy(score)[1] \in 1 .. 2
  <1> DEFINE S == 1 .. 2
             key == [n \in S |-> -score[n]]
             before(i) == {j \in S : key[j] < key[i] \/ (key[j] = key[i] /\ j < i)}
             below == [i \in S |-> before(i)]
             place == [i \in S |-> 1 + Cardinality(before(i))]
             i == CHOOSE i \in S : place[i] = 1
  <1>1. IsFiniteSet(S) /\ Cardinality(S) = 2
    <2>1. \A n \in Nat : IsFiniteSet(1 .. n) /\ Cardinality(1 .. n) = n
      BY FS_Interval
    <2> QED  BY <2>1
  <1>2. \A n \in S : key[n] \in Int
    OBVIOUS
  <1>3. PlacedBy(S, below, place)
    <2> HIDE DEF key
    <2>1. below \in [S -> SUBSET S] /\ \A x \in S : x \notin below[x]
      BY <1>2
    <2>2. ASSUME NEW x \in S, NEW y \in S, x # y
          PROVE  \/ x \in below[y] /\ below[x] \subseteq below[y]
                 \/ y \in below[x] /\ below[y] \subseteq below[x]
      <3>1. key[x] \in Int /\ key[y] \in Int
        BY <1>2
      <3>2. CASE key[x] < key[y] \/ (key[x] = key[y] /\ x < y)
        BY <1>2, <3>1, <3>2
      <3>3. CASE key[y] < key[x] \/ (key[x] = key[y] /\ y < x)
        BY <1>2, <3>1, <3>3
      <3> QED  BY <2>2, <3>1, <3>2, <3>3
    <2> QED  BY <2>1, <2>2 DEF PlacedBy
  <1>4. i \in S
    <2> HIDE DEF below, place
    <2>1. \A n \in 1 .. Cardinality(S) : \E x \in S : place[x] = n
      BY <1>1, <1>3, PlacesAreTaken
    <2> QED  BY <1>1, <2>1
  <1>5. RankedBy(score) = SortedBy([n \in S |-> n], key)
    BY DEF RankedBy
  <1>6. SortedBy([n \in S |-> n], key) =
          [n \in S |-> [k \in S |-> k][CHOOSE x \in S : place[x] = n]]
    BY DEF SortedBy
  <1>7. 1 \in S
    OBVIOUS
  <1>8. RankedBy(score)[1] = [k \in S |-> k][i]
    <2> HIDE DEF S, place
    <2> QED  BY <1>5, <1>6, <1>7
  <1> HIDE DEF i
  <1> QED  BY <1>4, <1>8

\* The trust of a ranking of two states with different ids is that of the first.
LEMMA RankingHolds ==
  ASSUME TablesTotal, NEW b, SoundBundle(b), NEW s, WorldState(s), NEW t, WorldState(t), s.id # t.id
  PROVE  LET ranked == Ranked(b, <<s, t>>)
         IN  TrustOfRanking(b, <<s, t>>, ranked) = Prediction(b, <<s, t>>[ranked[1]]).trust
  <1> DEFINE asking == <<s, t>>
             score == [n \in DOMAIN asking |-> RankingScore(Prediction(b, asking[n]))]
             ranked == Ranked(b, asking)
  <1>1. ASSUME NEW x, WorldState(x) PROVE RankingScore(Prediction(b, x)) \in Int
    <2> DEFINE p == Prediction(b, x)
    <2>1. MetricsPrediction(p)
      BY <1>1, PredictionHolds
    <2> HIDE DEF p
    <2> DEFINE f == Feasibility(p.value)
               u == p.trust.uncertainty
    <2>2. f \in 5 .. 100 /\ u \in Percent
      BY <2>1, FeasibilityTyped DEF MetricsPrediction, TrustAssessment
    <2>3. RankingScore(p) = 2 * f - u
      BY DEF RankingScore
    <2> HIDE DEF f, u
    <2>4. RankingScore(p) \in Int
      BY <2>2, <2>3 DEF Percent
    <2> QED  BY <2>4 DEF p
  <1>2. DOMAIN asking = 1 .. 2 /\ asking[1] = s /\ asking[2] = t
    OBVIOUS
  <1>3. \A n \in 1 .. 2 : asking[n] = s \/ asking[n] = t
    OBVIOUS
  <1> HIDE DEF asking
  <1>4. \A n \in 1 .. 2 : score[n] \in Int
    BY <1>1, <1>2, <1>3
  <1>5. ranked = RankedBy(score) /\ DOMAIN score = 1 .. 2
    BY <1>2 DEF Ranked
  <1> HIDE DEF score, ranked
  <1>6. ranked[1] \in 1 .. 2
    BY <1>4, <1>5, RankedFirst
  <1> DEFINE k == ranked[1]
             same == {n \in DOMAIN asking : asking[n].id = asking[k].id}
  <1>7. same = {k}
    BY <1>2, <1>6
  <1>8. Min({k}) = k
    <2>1. k \in Int
      BY <1>6
    <2>2. {k} = {k, k}
      OBVIOUS
    <2> HIDE DEF k
    <2>3. Min({k, k}) = k
      BY <2>1, OfTwo
    <2> QED  BY <2>2, <2>3
  <1>9. TrustedState(asking, asking[k]) = asking[k]
    BY <1>7, <1>8 DEF TrustedState
  <1>10. TrustOfRanking(b, asking, ranked) = Prediction(b, asking[ranked[1]]).trust
    BY <1>9 DEF TrustOfRanking
  <1> QED  BY <1>10 DEF asking, ranked

\* Whatever is asked in between: the interval of a prediction holds its value, what was
\* only predicted is not taken for measured, and the trust given with a ranking is that
\* of the state ranked first. For every task whose tables are total.
THEOREM PredictionsCorrect == ASSUME TablesTotal PROVE Spec => []PredictionsHonest
  <1>1. RolloutInvariant /\ LearningInvariant => PredictionsHonest
    <2> SUFFICES ASSUME RolloutInvariant, LearningInvariant PROVE PredictionsHonest
      OBVIOUS
    <2>0. SoundBundle(bundle) /\ \A s \in states : WorldState(s)
      BY DEF LearningInvariant
    <2>1. IntervalsHoldValues
      BY <2>0, PredictionHolds DEF IntervalsHoldValues, HoldsValues
    <2>2. PredictedIsNotMeasured
      <3>1. ASSUME NEW r \in rollouts, NEW n \in DOMAIN r.steps
            PROVE  SoundState(r.steps[n].transition.next)
        <4>1. PICK m \in Nat : \E c : SoundState(r.start) /\ Passes(r, c, m)
          BY DEF RolloutInvariant, SoundRollout
        <4>2. PICK c : SoundState(r.start) /\ Passes(r, c, m)
          BY <4>1
        <4>3. n \in 0 .. m /\ r.steps[n].transition.next = c[n]
          BY <4>2 DEF Passes
        <4> QED  BY <4>2, <4>3, PassedHolds
      <3>2. \A s \in states : SoundState(s)
        BY DEF RolloutInvariant
      <3> QED  BY <3>1, <3>2 DEF PredictedIsNotMeasured, SoundState
    <2>3. RankingTrustIsTheBest
      <3> SUFFICES ASSUME NEW s \in states, NEW t \in states, s.id # t.id
                   PROVE  LET ranked == Ranked(bundle, <<s, t>>)
                          IN  TrustOfRanking(bundle, <<s, t>>, ranked)
                                = Prediction(bundle, <<s, t>>[ranked[1]]).trust
        BY DEF RankingTrustIsTheBest
      <3> QED  BY <2>0, RankingHolds
    <2> QED  BY <2>1, <2>2, <2>3 DEF PredictionsHonest
  <1> QED  BY RolloutInit, RolloutNext, LearningInit, LearningNext, <1>1, PTL DEF Spec

(***************************************************************************)
(* The shapes of answers and records                                       *)
(***************************************************************************)

\* A rollout is answered in the shape of the schema.
LEMMA RolledOutTyped ==
  ASSUME TablesTotal, NEW b, SoundBundle(b), NEW start, WorldState(start),
         NEW actions \in Rollouts, NEW horizon \in Nat,
         \A n \in 1 .. Taken(actions, horizon) : Admissible(actions[n])
  PROVE  RolloutResponse(RolledOut(b, start, actions, horizon))
  <1> DEFINE length == LengthOf(actions, horizon)
             m == Taken(actions, horizon)
             r == RolledOut(b, start, actions, horizon)
  <1>1. actions \in Seq(DesignActions)
    BY RolloutAssumption
  <1>2. /\ m \in Nat /\ length \in Nat
        /\ \A k \in 1 .. m : actions[k] \in DesignActions /\ Admissible(actions[k])
    <2>1. m \in Nat /\ m <= Len(actions) /\ Len(actions) \in Nat /\ length \in Nat
      BY <1>1 DEF Taken, LengthOf
    <2>2. \A k \in 1 .. m : Admissible(actions[k])
      OBVIOUS
    <2>3. \A k \in 1 .. m : k \in DOMAIN actions
      BY <1>1, <2>1
    <2> HIDE DEF m, length
    <2> QED  BY <1>1, <2>1, <2>2, <2>3
  <1>3. r = RolloutAfter(b, start, length, Walk(b, start, actions, m))
    BY DEF RolledOut
  <1> HIDE DEF m, length
  <1>4. PICK w : WalkFrom(w, b, start, actions, m) /\ Walk(b, start, actions, m) = w[m]
    BY <1>2, WalkHolds
  <1>5. /\ r.start = start /\ r.terminal = w[m].current /\ r.steps = w[m].steps
        /\ r.horizon = length /\ r.trust = Prediction(b, r.terminal).trust
    BY <1>3, <1>4 DEF RolloutAfter
  <1> HIDE DEF r
  <1>6. w[0] = [current |-> start, steps |-> <<>>]
    BY <1>2, <1>4 DEF WalkFrom
  <1>7. ASSUME NEW k \in 1 .. m PROVE w[k] = StepOn(b, start, w[k - 1], actions[k])
    BY <1>2, <1>4 DEF WalkFrom
  <1> DEFINE tr(k) == Transition(b, w[k - 1].current, actions[k])
             step == [k \in 1 .. m |-> [action |-> actions[k], transition |-> tr(k),
                                        simulation |-> SimulationValue(tr(k).metrics)]]
             Steps == {step[k] : k \in 1 .. m}
             Good(k) == WorldState(w[k].current) /\ w[k].steps \in Seq(Steps)
             S == {k \in Nat : k <= m => Good(k)}
  <1>8. ASSUME NEW k \in 1 .. m
        PROVE  w[k].steps = Append(w[k - 1].steps, step[k]) /\ w[k].current = tr(k).next
    <2>1. w[k] = WithStep(b, w[k - 1], actions[k], tr(k))
      BY <1>7 DEF StepOn
    <2> HIDE DEF tr
    <2> QED  BY <2>1 DEF WithStep
  <1>9. ASSUME NEW k \in 1 .. m, WorldState(w[k - 1].current)
        PROVE  RolloutStep(step[k]) /\ WorldState(tr(k).next)
    <2>1. TransitionPrediction(tr(k))
      BY <1>2, <1>9, TransitionTyped
    <2>2. /\ step[k].action = actions[k] /\ step[k].transition = tr(k)
          /\ step[k].simulation = SimulationValue(tr(k).metrics)
      OBVIOUS
    <2> HIDE DEF step, tr
    <2>3. SimulationValue(tr(k).metrics) \in SimulationValueEstimate
      BY <2>1, SimulationTyped DEF TransitionPrediction
    <2> QED  BY <1>2, <2>1, <2>2, <2>3 DEF RolloutStep, TransitionPrediction
  <1> HIDE DEF step, tr
  <1>10. \A k \in Nat : k \in S
    <2>1. 0 \in S
      <3>1. w[0].current = start /\ w[0].steps = <<>>
        BY <1>6
      <3> HIDE DEF Steps
      <3>2. <<>> \in Seq(Steps)
        OBVIOUS
      <3>3. Good(0)
        BY <3>1, <3>2
      <3> HIDE DEF Good
      <3> QED  BY <3>3
    <2>2. ASSUME NEW k \in Nat, k \in S PROVE k + 1 \in S
      <3> SUFFICES ASSUME k + 1 <= m PROVE Good(k + 1)
        OBVIOUS
      <3>1. WorldState(w[k].current) /\ w[k].steps \in Seq(Steps)
        BY <1>2, <2>2
      <3>2. k + 1 \in 1 .. m /\ (k + 1) - 1 = k
        BY <1>2
      <3>3. w[k + 1].steps = Append(w[k].steps, step[k + 1]) /\ w[k + 1].current = tr(k + 1).next
        BY <1>8, <3>2
      <3>4. WorldState(tr(k + 1).next)
        BY <1>9, <3>1, <3>2
      <3>5. step[k + 1] \in Steps
        BY <3>2
      <3> HIDE DEF Steps
      <3>6. Append(w[k].steps, step[k + 1]) \in Seq(Steps)
        BY <3>1, <3>5
      <3> QED  BY <3>3, <3>4, <3>6
    <2> HIDE DEF S
    <2> QED  BY <2>1, <2>2, Induct
  <1>11. \A k \in 0 .. m : Good(k)
    <2> HIDE DEF Good
    <2> QED  BY <1>2, <1>10
  <1>12. \A k \in 1 .. m : RolloutStep(step[k])
    <2> SUFFICES ASSUME NEW k \in 1 .. m PROVE RolloutStep(step[k])
      OBVIOUS
    <2>1. k - 1 \in 0 .. m
      BY <1>2
    <2> QED  BY <1>9, <1>11, <2>1
  <1>13. WorldState(r.terminal) /\ r.steps \in Seq(Steps)
    <2>1. m \in 0 .. m
      BY <1>2
    <2>2. Good(m)
      <3> HIDE DEF Good
      <3> QED  BY <1>11, <2>1
    <2> HIDE DEF Steps
    <2> QED  BY <1>5, <2>2
  <1>14. ASSUME NEW n \in DOMAIN r.steps PROVE RolloutStep(r.steps[n])
    <2> HIDE DEF Steps
    <2>1. r.steps[n] \in Steps
      BY <1>13
    <2> QED  BY <1>12, <2>1 DEF Steps
  <1>15. r.trust \in TrustAssessment
    BY <1>5, <1>13, PredictionHolds DEF MetricsPrediction
  <1>16. RolloutResponse(r)
    BY <1>2, <1>5, <1>13, <1>14, <1>15 DEF RolloutResponse
  <1> QED  BY <1>16 DEF r

\* A dataset is in the shape of the schema.
LEMMA DatasetTyped ==
  ASSUME NEW stats \in Experiments, NEW cap \in Caps
  PROVE  WorldModelDatasetBundle(WorldModelDataset(stats, cap))
  <1> DEFINE kept == Capped(Records(stats), cap)
             d == WorldModelDataset(stats, cap)
             covered == {kept[n].family : n \in DOMAIN kept}
  <1>1. d = DatasetOf(kept, cap)
    BY DEF WorldModelDataset
  <1>2. SoundRecords(d.records) /\ d.targets \subseteq Metrics
    BY DatasetHolds
  <1> HIDE DEF d, kept
  <1>3. /\ d.records = kept
        /\ d.sampling = (IF cap = 0 THEN "family_as_observed" ELSE "family_balanced_cap")
        /\ d.scope = (IF Cardinality(covered) > 1 THEN "benchmark_multitask"
                      ELSE "experiment_suite")
        /\ d.summaries = [f \in covered |-> FamilySummary(OfFamily(kept, f))]
    BY <1>1 DEF DatasetOf
  <1>4. SoundRecords(kept)
    BY <1>2, <1>3
  <1>5. covered \subseteq Families
    BY <1>4, RecordTyped
  <1>6. ASSUME NEW f PROVE FamilySummary(OfFamily(kept, f)) \in FamilyDatasetSummary
    <2> DEFINE own == OfFamily(kept, f)
    <2>1. own \in Seq(Range(kept)) /\ PartOf(own, kept)
      BY <1>4, OfFamilyHolds DEF SoundRecords
    <2>2. SoundRecords(own)
      BY <1>4, <2>1, PartSound
    <2> HIDE DEF own
    <2>3. Len(own) \in Nat
      BY <2>1
    <2>4. \A split : CountOf(own, split) \in Nat
      <3> SUFFICES ASSUME NEW split PROVE CountOf(own, split) \in Nat
        OBVIOUS
      <3>1. IsFiniteSet(DOMAIN own)
        BY <2>2, RecordsFinite
      <3>2. {n \in DOMAIN own : own[n].split = split} \subseteq DOMAIN own
        OBVIOUS
      <3>3. IsFiniteSet({n \in DOMAIN own : own[n].split = split})
        BY <3>1, <3>2, FS_Subset
      <3> QED  BY <3>3, FS_CardinalityType DEF CountOf
    <2>5. TargetsOf(own) \subseteq Metrics
      BY <2>2, RecordTyped DEF TargetsOf
    <2>6. FamilySummary(own) \in FamilyDatasetSummary
      BY <2>3, <2>4, <2>5 DEF FamilySummary, FamilyDatasetSummary
    <2> QED  BY <2>6 DEF own
  <1>7. MapOf(d.summaries, Families, FamilyDatasetSummary)
    BY <1>3, <1>5, <1>6 DEF MapOf
  <1>8. \A n \in DOMAIN d.records : DatasetRecord(d.records[n])
    BY <1>2 DEF SoundRecords, SoundRecord
  <1>9. /\ d.sampling \in {"family_as_observed", "family_balanced_cap"}
        /\ d.scope \in {"experiment_suite", "benchmark_multitask"}
    BY <1>3
  <1>10. WorldModelDatasetBundle(d)
    BY <1>2, <1>7, <1>8, <1>9 DEF WorldModelDatasetBundle
  <1> QED  BY <1>10 DEF d

LEMMA PolicyTyped == Policy \in TrustPolicy
  BY DEF Policy, TrustPolicy, ThresholdSpec, Percent

\* The rollouts callers hold were answered in the shape of the schema.
RolloutsTyped == \A r \in rollouts : RolloutResponse(r)

LEMMA RolloutsTypedNext ==
  ASSUME TablesTotal
  PROVE  RolloutsTyped /\ LearningInvariant /\ [Next]_vars => RolloutsTyped'
  <1> SUFFICES ASSUME RolloutsTyped, LearningInvariant, [Next]_vars PROVE RolloutsTyped'
    OBVIOUS
  <1>1. ASSUME UNCHANGED rollouts PROVE RolloutsTyped'
    BY <1>1 DEF RolloutsTyped
  <1>2. ASSUME NEW s \in states, NEW actions \in Rollouts, NEW horizon \in 0 .. 2,
               Rollout(s, actions, horizon)
        PROVE  RolloutsTyped'
    <2> DEFINE r == RolledOut(bundle, s, actions, horizon)
    <2>1. /\ rollouts' = rollouts \cup {r}
          /\ \A n \in 1 .. Taken(actions, horizon) : Admissible(actions[n])
      BY <1>2 DEF Rollout
    <2>2. SoundBundle(bundle) /\ WorldState(s)
      BY DEF LearningInvariant
    <2>3. RolloutResponse(r)
      BY <2>1, <2>2, RolledOutTyped
    <2> HIDE DEF r
    <2> QED  BY <2>1, <2>3 DEF RolloutsTyped
  <1>3. ASSUME NEW request \in Requests, BuildState(request) PROVE UNCHANGED rollouts
    BY <1>3 DEF BuildState
  <1>4. ASSUME NEW s \in states, NEW a \in DesignActions, PredictTransition(s, a)
        PROVE  UNCHANGED rollouts
    BY <1>4 DEF PredictTransition
  <1>5. ASSUME NEW s \in states, NEW truth \in TruthRecords,
               TruthState(s, truth) \/ Calibrate(s, truth)
        PROVE  UNCHANGED rollouts
    BY <1>5 DEF TruthState, Calibrate
  <1>6. ASSUME NEW stats \in Experiments, NEW cap \in Caps, Train(stats, cap)
        PROVE  UNCHANGED rollouts
    BY <1>6 DEF Train
  <1>7. CASE Attach
    BY <1>1, <1>7 DEF Attach
  <1>8. CASE UNCHANGED vars
    BY <1>1, <1>8 DEF vars
  <1> QED  BY <1>1, <1>2, <1>3, <1>4, <1>5, <1>6, <1>7, <1>8 DEF Next

\* Every answer and every record has the shape its schema demands: no error, sum, mean or
\* rounding leaves the numbers it is declared for. For every task whose tables are total.
THEOREM WorldTypeCorrect == ASSUME TablesTotal PROVE Spec => []WorldTypeOK
  <1>1. Init => RolloutsTyped
    BY DEF Init, RolloutsTyped
  <1>2. RolloutInvariant /\ LearningInvariant /\ RolloutsTyped => WorldTypeOK
    <2> SUFFICES ASSUME RolloutInvariant, LearningInvariant, RolloutsTyped PROVE WorldTypeOK
      OBVIOUS
    <2>1. SoundBundle(bundle) /\ \A s \in states : WorldState(s)
      BY DEF LearningInvariant
    <2>2. ASSUME NEW n \in DOMAIN bundle.checkpoint PROVE Checkpoint(bundle.checkpoint[n])
      <3>1. bundle.checkpoint = <<bundle.checkpoint[1]>> /\ n = 1
        BY <2>1 DEF SoundBundle
      <3> QED  BY <2>1, <3>1 DEF SoundBundle, Checkpoint, SoundRun
    <2>3. ASSUME NEW n \in DOMAIN training PROVE SurrogateTrainingRun(training[n])
      <3>1. training = <<training[1]>> /\ n = 1 /\ SoundRun(training[1])
        BY DEF LearningInvariant
      <3> QED  BY <3>1 DEF SoundRun
    <2>4. \A s \in states : MetricsPrediction(Prediction(bundle, s))
      BY <2>1, PredictionHolds
    <2>5. ASSUME NEW r \in rollouts, NEW n \in DOMAIN r.steps
          PROVE  r.steps[n].action \in DesignAction
      <3>1. PICK m \in Nat : \E c : Passes(r, c, m)
        BY DEF RolloutInvariant, SoundRollout
      <3>2. r.steps[n].action \in DesignActions
        BY <3>1 DEF Passes
      <3> QED  BY <3>2, CallerAssumption
    <2>6. bundle.calibration \in CalibrationState
      BY <2>1 DEF SoundBundle
    <2> QED  BY <2>1, <2>2, <2>3, <2>4, <2>5, <2>6, DatasetTyped, PolicyTyped
             DEF WorldTypeOK, RolloutsTyped
  <1> QED  BY RolloutInit, RolloutNext, LearningInit, LearningNext, RolloutsTypedNext, <1>1, <1>2,
              PTL DEF Spec
=============================================================================
