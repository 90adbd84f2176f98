--------------------------- MODULE ProbeRunProofs ----------------------------
(***************************************************************************)
(* What a target's run publishes is exact, its phases agree with the       *)
(* counts the TestRun records, and its stop reason is honest: for every    *)
(* invocation, any number of modes, sizes, samples, retries and stacks, and *)
(* whatever the probes answer.                                             *)
(*                                                                         *)
(* The argument is a count.  While an iteration runs, what it has          *)
(* published and what its tasks still owe is one attempt per task and      *)
(* sample (Owed); the iterations of the phases then say how long the       *)
(* stream of attempts is and where each phase begins.                      *)
(***************************************************************************)
EXTENDS ProbeRun, FiniteSetTheorems, SequenceTheorems, TLAPS

-----------------------------------------------------------------------------
(***************************************************************************)
(* The invariant.                                                          *)
(***************************************************************************)
Phases == {"overhead", "pilot", "measured", "cooldown"}
Early == {"launch", "rejected", "failed"}
Late == {"stacks", "finished"}
Places == Early \cup {"warm2", "warm3", "plan"} \cup Phases \cup Late

Tasks == mode_tasks(cfg.modes, cfg.sizes)
Pages == stack_modes(cfg.modes)
Width == Len(Tasks)
Breadth == cfg.runs * Len(Pages)

ConfigOK ==
  /\ cfg \in ResolvedConfig /\ IsFiniteSet(cfg.stacks)
  /\ Tasks \in Seq([mode : Range(cfg.modes), size : Nat])
  /\ Pages \in Seq(Range(cfg.modes))

Stacks == {"none"} \cup cfg.stacks
Tags == {"none", "warmup", "overhead", "pilot", "cooldown", cfg.phase}
Published == [seq : Nat, mode : Range(cfg.modes), bytes : Nat, ok : BOOLEAN, retry : Nat,
              sample : Nat, stack : Stacks, phase : Tags]
Job == [mode : Range(cfg.modes), size : Nat, base : Nat, stack : Stacks,
        sample : 0..(cfg.samples - 1), retry : 0..cfg.retries, tries : Seq(Published),
        st : {"ready", "asking", "allowed"}]
Plan == [source : {"none", "fixed-count", "explicit", "pilot-derived", "pilot-assisted"},
         min : Nat, max : Nat, dur : BOOLEAN, target : BOOLEAN,
         stop : {"none", "max_samples_reached", "accuracy_target_reached", "sample_budget_exhausted"}]

TypeInv ==
  /\ pc \in Places /\ seq \in Nat /\ progress \in Nat
  /\ queue \in Seq(Job) /\ active \in SUBSET Job /\ IsFiniteSet(active)
  /\ batch \in Seq(Published) /\ attempts \in Seq(Published)
  /\ iters \in [Phases -> Nat] /\ counts \in [SpecialPhases -> Nat]
  /\ plan \in Plan /\ warm \subseteq {"pageload2", "pageload3"}
  /\ todo \subseteq cfg.stacks /\ up \subseteq cfg.stacks /\ todo \cap up = {}

\* The attempts an iteration has published or still owes.
Owed == Len(batch) + cfg.samples * (Len(queue) + Cardinality(active))

\* The warm-ups so far, and the attempts of k iterations of a phase.
Warmed ==
  (IF pc \notin Early \cup {"warm2"} /\ cfg.reuse /\ "pageload2" \in Range(cfg.modes) THEN 1 ELSE 0)
  + (IF pc \notin Early \cup {"warm2", "warm3"} /\ cfg.reuse /\ "pageload3" \in Range(cfg.modes)
     THEN 1 ELSE 0)
Of(k) == (cfg.samples * Width) * k
OverheadEnd == Warmed + Of(iters.overhead)
PilotEnd == OverheadEnd + Of(iters.pilot)
MeasuredEnd == PilotEnd + Of(iters.measured)
CooldownEnd == MeasuredEnd + Of(iters.cooldown)

CountInv ==
  /\ pc \in Phases => Owed \in {0, cfg.samples * Width}
  /\ pc \notin Phases \cup {"stacks"} => Owed = 0
  /\ pc \notin Late => Len(attempts) = CooldownEnd /\ up = {}
  /\ pc \in Late => /\ Len(attempts) + Owed = CooldownEnd + (cfg.samples * Breadth) * Cardinality(up)
                    /\ CooldownEnd <= Len(attempts)
  /\ pc \notin Phases \cup {"plan"} \cup Late => iters.overhead = 0
  /\ pc \notin (Phases \ {"overhead"}) \cup {"plan"} \cup Late => iters.pilot = 0
  /\ pc \notin {"measured", "cooldown"} \cup Late => iters.measured = 0
  /\ pc \notin {"cooldown"} \cup Late => iters.cooldown = 0
  /\ cfg.bench => /\ counts.warmup = Warmed /\ counts.overhead = Of(iters.overhead)
                  /\ counts.pilot = Of(iters.pilot) /\ counts.cooldown = Of(iters.cooldown)
  /\ Of(iters.measured) <= progress

\* A try that settles its sample, and the last one of sample s.
Settled(a) == a.ok \/ a.retry = cfg.retries
LastTry(tries, s, i) ==
  i \in DOMAIN tries /\ tries[i].sample = s /\ \A j \in DOMAIN tries : tries[j].sample = s => j <= i

Tried(t) ==
  /\ t.stack = "none" <=> pc # "stacks"
  /\ \A i \in DOMAIN t.tries : t.tries[i].sample \in 0..t.sample
  /\ \A s \in 0..(t.sample - 1) : \E i \in DOMAIN t.tries : LastTry(t.tries, s, i) /\ Settled(t.tries[i])

Untried(t) ==
  (t.stack = "none" <=> pc # "stacks") /\ t.sample = 0 /\ t.retry = 0 /\ t.tries = <<>> /\ t.st = "ready"

TaskInv ==
  /\ \A t \in active : Tried(t)
  /\ \A j \in DOMAIN queue : Untried(queue[j])
  /\ \A i \in DOMAIN batch : Settled(batch[i])
  /\ \A i \in DOMAIN attempts : Warmed < i => Settled(attempts[i])

\* The numbers of a task's tries.
Numbered(t) ==
  IF t.stack = "none" THEN \A i \in DOMAIN t.tries : t.tries[i].seq = t.base + t.tries[i].sample
  ELSE /\ \A i \in DOMAIN t.tries : t.tries[i].seq < seq
       /\ \A i, j \in DOMAIN t.tries : i < j => t.tries[i].seq < t.tries[j].seq

Apart(b, c) == b + cfg.samples <= c \/ c + cfg.samples <= b
Floor == seq - cfg.samples * Len(queue)

NumberInv ==
  /\ SeqUnique
  /\ \A t \in active : Numbered(t)
  /\ pc # "stacks" =>
       /\ \A j \in DOMAIN queue : queue[j].base = seq - cfg.samples * (Len(queue) - j + 1)
       /\ \A t \in active : t.base + cfg.samples <= Floor
       /\ \A t, u \in active : t # u => Apart(t.base, u.base)
  /\ \A as \in {attempts, batch} : \A i \in DOMAIN as :
       /\ as[i].seq < seq
       /\ pc # "stacks" => /\ as[i].seq < Floor
                           /\ \A t \in active : as[i].seq < t.base \/ t.base + cfg.samples <= as[i].seq
       /\ pc = "stacks" => \A t \in active : \A k \in DOMAIN t.tries : as[i].seq < t.tries[k].seq

\* The phase the loop was in when it published attempt i.
LoopPhase(i) ==
  IF i <= Warmed THEN "warmup" ELSE IF i <= OverheadEnd THEN "overhead"
  ELSE IF i <= PilotEnd THEN "pilot" ELSE IF i <= MeasuredEnd THEN cfg.phase ELSE "cooldown"

PhaseInv ==
  up = {} => \A i \in DOMAIN attempts : attempts[i].phase = benchmark_phase_tag(LoopPhase(i))

StopInv ==
  /\ pc \notin {"measured", "cooldown"} \cup Late => plan = NoPlan
  /\ plan = NoPlan \/ (plan.source # "none" /\ MeasuredBench(cfg))
  /\ pc = "measured" /\ ~Quiet => iters.measured < max_run_count(cfg, plan)
  /\ pc = "measured" => plan.stop # "sample_budget_exhausted"
  /\ (pc = "pilot" /\ ~Quiet) \/ counts.pilot > 0 => MeasuredBench(cfg)
  /\ StopHonest

RunInv ==
  ConfigOK /\ TypeInv /\ CountInv /\ TaskInv /\ NumberInv /\ ModesIsolated /\ PhaseInv /\ StopInv

-----------------------------------------------------------------------------
(***************************************************************************)
(* Arithmetic and the configuration.                                       *)
(***************************************************************************)
LEMMA Product == ASSUME NEW a \in Nat, NEW b \in Nat PROVE a * b \in Nat
OBVIOUS

LEMMA OneMore ==
  ASSUME NEW a \in Nat, NEW k \in Nat PROVE a * (k + 1) = a * k + a /\ a * 0 = 0 /\ a * 1 = a
OBVIOUS

LEMMA Grows ==
  ASSUME NEW a \in Nat, NEW k \in Nat, NEW m \in Nat, k <= m PROVE a * k <= a * m
<1>1. PICK d \in Nat : m = k + d
  <2>1. m - k \in Nat /\ m = k + (m - k)
    OBVIOUS
  <2> QED BY <2>1
<1>2. a * m = a * k + a * d /\ a * d \in Nat /\ a * k \in Nat
  BY <1>1, Product
<1> QED BY <1>2

LEMMA LargerOf ==
  ASSUME NEW a \in Int, NEW b \in Int
  PROVE  Max({a, b}) = (IF a >= b THEN a ELSE b) /\ Min({a, b}) = (IF a <= b THEN a ELSE b)
<1>1. Max({a, b}) = (IF a >= b THEN a ELSE b)
  BY DEF Max
<1>2. Min({a, b}) = (IF a <= b THEN a ELSE b)
  BY DEF Min
<1> QED BY <1>1, <1>2

LEMMA LargerTyped ==
  ASSUME NEW a \in Nat, NEW b \in Nat PROVE Max({a, b}) \in Nat /\ Min({a, b}) \in Nat
<1>1. Max({a, b}) = a \/ Max({a, b}) = b
  BY LargerOf
<1>2. Min({a, b}) = a \/ Min({a, b}) = b
  BY LargerOf
<1> QED BY <1>1, <1>2

\* The configuration's types.
LEMMA Resolved ==
  ASSUME ConfigOK
  PROVE  /\ cfg.runs \in Nat /\ cfg.samples \in Nat /\ cfg.samples >= 1
         /\ cfg.concurrency \in Nat /\ cfg.retries \in Nat
         /\ cfg.reuse \in BOOLEAN /\ cfg.bench \in BOOLEAN /\ cfg.target \in BOOLEAN
         /\ cfg.phase \in STRING
         /\ cfg.min \in Option /\ cfg.max \in Option /\ cfg.dur \in Option
         /\ cfg.pilotMin \in Option /\ cfg.pilotMax \in Option /\ cfg.pilotDur \in Option
         /\ cfg.overhead \in Option /\ cfg.cooldown \in Option
         /\ cfg.stacks \subseteq STRING /\ "none" \notin cfg.stacks /\ IsFiniteSet(cfg.stacks)
         /\ Width \in Nat /\ Len(Pages) \in Nat
         /\ DOMAIN Tasks = 1..Width /\ DOMAIN Pages = 1..Len(Pages)
<1>1. cfg \in ResolvedConfig
  BY DEF ConfigOK
<1>2. /\ cfg.runs \in Nat /\ cfg.concurrency \in Nat /\ cfg.retries \in Nat
      /\ cfg.reuse \in BOOLEAN /\ cfg.bench \in BOOLEAN /\ cfg.target \in BOOLEAN
      /\ cfg.phase \in STRING
  BY <1>1 DEF ResolvedConfig
<1>5. cfg.samples \in 1..50
  BY <1>1 DEF ResolvedConfig, MaxBurst
<1>6. /\ cfg.min \in Option /\ cfg.max \in Option /\ cfg.dur \in Option
      /\ cfg.pilotMin \in Option /\ cfg.pilotMax \in Option /\ cfg.pilotDur \in Option
      /\ cfg.overhead \in Option /\ cfg.cooldown \in Option
  BY <1>1 DEF ResolvedConfig
<1>7. cfg.stacks \in SUBSET (STRING \ {"none", "target"})
  BY <1>1 DEF ResolvedConfig
<1>3. Tasks \in Seq([mode : Range(cfg.modes), size : Nat]) /\ Pages \in Seq(Range(cfg.modes))
  BY DEF ConfigOK
<1>4. Width \in Nat /\ Len(Pages) \in Nat /\ DOMAIN Tasks = 1..Width /\ DOMAIN Pages = 1..Len(Pages)
  BY <1>3, LenProperties DEF Width
<1>8. cfg.samples \in Nat /\ cfg.samples >= 1
  BY <1>5
<1> QED BY <1>2, <1>4, <1>6, <1>7, <1>8 DEF ConfigOK

\* What the count is made of.
LEMMA Sizes ==
  ASSUME ConfigOK, TypeInv
  PROVE  /\ Len(batch) \in Nat /\ Len(queue) \in Nat /\ Len(attempts) \in Nat
         /\ DOMAIN batch = 1..Len(batch) /\ DOMAIN queue = 1..Len(queue)
         /\ DOMAIN attempts = 1..Len(attempts)
         /\ Cardinality(active) \in Nat /\ Owed \in Nat
         /\ cfg.samples * Len(queue) \in Nat
         /\ cfg.samples * Width \in Nat /\ cfg.samples * Breadth \in Nat /\ Breadth \in Nat
         /\ IsFiniteSet(up) /\ Cardinality(up) \in Nat
<1>1. Len(batch) \in Nat /\ Len(queue) \in Nat /\ Len(attempts) \in Nat
      /\ DOMAIN batch = 1..Len(batch) /\ DOMAIN queue = 1..Len(queue)
      /\ DOMAIN attempts = 1..Len(attempts)
  BY LenProperties DEF TypeInv
<1>2. Cardinality(active) \in Nat
  BY FS_CardinalityType DEF TypeInv
<1>3. IsFiniteSet(up) /\ Cardinality(up) \in Nat
  BY Resolved, FS_Subset, FS_CardinalityType DEF TypeInv
<1>4. /\ cfg.samples * Len(queue) \in Nat /\ cfg.samples * Width \in Nat
      /\ Breadth \in Nat
  BY <1>1, Resolved, Product DEF Breadth
<1>5. cfg.samples * Breadth \in Nat
  BY <1>4, Resolved, Product
<1>6. cfg.samples * (Len(queue) + Cardinality(active)) \in Nat
  <2>1. Len(queue) + Cardinality(active) \in Nat
    BY <1>1, <1>2
  <2> QED BY <2>1, Resolved, Product
<1> QED BY <1>1, <1>2, <1>3, <1>4, <1>5, <1>6 DEF Owed

\* Nothing is owed exactly when the iteration is over and taken.
LEMMA QuietOwesNothing ==
  ASSUME ConfigOK, TypeInv
  PROVE  Owed = 0 <=> Quiet
<1> DEFINE n == Len(queue) + Cardinality(active)
<1>1. /\ Len(batch) \in Nat /\ Len(queue) \in Nat /\ Cardinality(active) \in Nat
      /\ cfg.samples \in Nat /\ cfg.samples >= 1
  <2> HIDE DEF n
  <2> QED BY Sizes, Resolved
<1>10. n \in Nat
  BY <1>1
<1>2. Len(batch) = 0 <=> batch = <<>>
  BY EmptySeq DEF TypeInv
<1>3. Len(queue) = 0 <=> queue = <<>>
  BY EmptySeq DEF TypeInv
<1>4. Cardinality(active) = 0 <=> active = {}
  BY FS_EmptySet DEF TypeInv
<1>5. cfg.samples * n = 0 <=> n = 0
  <2>1. n >= 1 => cfg.samples * 1 <= cfg.samples * n
    BY <1>1, <1>10, Grows
  <2>2. cfg.samples * n \in Nat
    BY <1>1, <1>10, Product
  <2>3. n = 0 => cfg.samples * n = 0
    BY <1>1, OneMore
  <2>4. cfg.samples * 1 = cfg.samples
    BY <1>1
  <2> HIDE DEF n
  <2> QED BY <1>1, <1>10, <2>1, <2>2, <2>3, <2>4
<1>6. cfg.samples * n \in Nat
  BY <1>1, <1>10, Product
<1>7. Owed = Len(batch) + cfg.samples * n
  BY DEF Owed
<1>11. cfg.samples * n \in Nat /\ Len(batch) \in Nat
  BY <1>1, <1>6
<1>8. n = 0 <=> Len(queue) = 0 /\ Cardinality(active) = 0
  BY <1>1
<1> HIDE DEF n
<1>9. Owed = 0 <=> Len(batch) = 0 /\ n = 0
  BY <1>11, <1>5, <1>7
<1> QED BY <1>2, <1>3, <1>4, <1>8, <1>9 DEF Quiet

-----------------------------------------------------------------------------
(***************************************************************************)
(* What stays when the variables it is about do.                           *)
(***************************************************************************)
LEMMA ConfigKept == ASSUME ConfigOK, cfg' = cfg PROVE ConfigOK'
BY DEF ConfigOK, Tasks, Pages

LEMMA SameWidth ==
  ASSUME cfg' = cfg
  PROVE  Width' = Width /\ Breadth' = Breadth /\ Tasks' = Tasks /\ Pages' = Pages
BY DEF Width, Breadth, Tasks, Pages

LEMMA SameEnds ==
  ASSUME UNCHANGED <<cfg, pc, iters>>
  PROVE  /\ Warmed' = Warmed /\ OverheadEnd' = OverheadEnd /\ PilotEnd' = PilotEnd
         /\ MeasuredEnd' = MeasuredEnd /\ CooldownEnd' = CooldownEnd
<1>1. Warmed' = Warmed
  BY DEF Warmed
<1>2. Width' = Width
  BY SameWidth
<1> QED BY <1>1, <1>2 DEF OverheadEnd, PilotEnd, MeasuredEnd, CooldownEnd, Of

LEMMA CountKept ==
  ASSUME ConfigOK, TypeInv, CountInv, UNCHANGED <<cfg, pc, attempts, iters, counts, up>>, Owed' = Owed,
         progress' \in Nat, progress <= progress'
  PROVE  CountInv'
<1>1. Width' = Width /\ Breadth' = Breadth
  BY SameWidth
<1>2. Warmed' = Warmed /\ CooldownEnd' = CooldownEnd
  BY SameEnds
<1>3. /\ Of(iters.overhead)' = Of(iters.overhead) /\ Of(iters.pilot)' = Of(iters.pilot)
      /\ Of(iters.measured)' = Of(iters.measured) /\ Of(iters.cooldown)' = Of(iters.cooldown)
  BY <1>1 DEF Of
<1>4. Of(iters.measured) <= progress'
  <2>1. Of(iters.measured) \in Nat /\ progress \in Nat
    BY Sizes, Product DEF Of, TypeInv, Phases
  <2>2. Of(iters.measured) <= progress
    BY DEF CountInv
  <2> QED BY <2>1, <2>2
<1> QED BY <1>1, <1>2, <1>3, <1>4 DEF CountInv

LEMMA PhaseKept ==
  ASSUME PhaseInv, UNCHANGED <<cfg, pc, attempts, iters, up>>
  PROVE  PhaseInv'
<1>1. /\ Warmed' = Warmed /\ OverheadEnd' = OverheadEnd /\ PilotEnd' = PilotEnd
      /\ MeasuredEnd' = MeasuredEnd
  BY SameEnds
<1>2. \A i : LoopPhase(i)' = LoopPhase(i)
  BY <1>1 DEF LoopPhase
<1>3. \A p : benchmark_phase_tag(p)' = benchmark_phase_tag(p)
  BY DEF benchmark_phase_tag
<1> QED BY <1>2, <1>3 DEF PhaseInv, benchmark_phase_tag, LoopPhase

LEMMA StopHonestKept ==
  ASSUME StopHonest, UNCHANGED <<cfg, attempts, iters, plan>>, progress \in Nat, progress' \in Nat,
         progress <= progress', pc' = pc, cfg.samples * Len(mode_tasks(cfg.modes, cfg.sizes)) \in Nat,
         plan.max \in Nat
  PROVE  StopHonest'
<1> DEFINE per == cfg.samples * Len(mode_tasks(cfg.modes, cfg.sizes))
<1>1. per' = per
  OBVIOUS
<1>2. plan.max * per \in Nat
  BY Product
<1>3. progress >= plan.max * per => progress' >= plan.max * per
  BY <1>2
<1>4. plan'.stop = plan.stop /\ plan'.max = plan.max /\ plan'.min = plan.min
      /\ iters'.measured = iters.measured /\ max_run_count(cfg', plan') = max_run_count(cfg, plan)
  OBVIOUS
<1> HIDE DEF per
<1>5. /\ iters.measured <= max_run_count(cfg, plan)
      /\ pc = "measured" /\ plan.stop = "accuracy_target_reached" =>
           completed_samples(SubSeq(attempts, Len(attempts) - per * iters.measured + 1, Len(attempts)))
             >= plan.min
      /\ plan.stop = "sample_budget_exhausted" =>
           iters.measured = plan.max /\ progress >= plan.max * per
  BY DEF StopHonest, per
<1>6. /\ iters'.measured <= max_run_count(cfg', plan')
      /\ pc' = "measured" /\ plan'.stop = "accuracy_target_reached" =>
           completed_samples(SubSeq(attempts', Len(attempts') - per' * iters'.measured + 1, Len(attempts')))
             >= plan'.min
      /\ plan'.stop = "sample_budget_exhausted" =>
           iters'.measured = plan'.max /\ progress' >= plan'.max * per'
  BY <1>1, <1>3, <1>4, <1>5
<1> QED BY <1>6 DEF StopHonest, per

LEMMA StopKept ==
  ASSUME ConfigOK, TypeInv, StopInv, UNCHANGED <<cfg, pc, attempts, iters, counts, plan>>,
         progress' \in Nat, progress <= progress', pc \in {"measured", "pilot"} => ~Quiet
  PROVE  StopInv'
<1>1. cfg.samples * Len(mode_tasks(cfg.modes, cfg.sizes)) \in Nat
  BY Sizes DEF Width, Tasks
<1>2. StopHonest'
  BY <1>1, StopHonestKept DEF StopInv, TypeInv, Plan
<1>3. MeasuredBench(cfg)' = MeasuredBench(cfg) /\ max_run_count(cfg, plan)' = max_run_count(cfg, plan)
  BY DEF MeasuredBench, max_run_count
<1> QED BY <1>2, <1>3 DEF StopInv

-----------------------------------------------------------------------------
(***************************************************************************)
(* A burst is published.                                                   *)
(***************************************************************************)
\* The last try of every sample is published, in order.
LEMMA BurstPublished ==
  ASSUME ConfigOK, NEW tries \in Seq(Published),
         \A i \in DOMAIN tries : tries[i].sample \in 0..(cfg.samples - 1),
         \A s \in 0..(cfg.samples - 1) : \E i \in DOMAIN tries : LastTry(tries, s, i) /\ Settled(tries[i])
  PROVE  /\ published_logical_attempts(tries) \in Seq(Published)
         /\ Len(published_logical_attempts(tries)) = cfg.samples
         /\ \A k \in 1..cfg.samples : \E i \in DOMAIN tries :
              /\ published_logical_attempts(tries)[k] = tries[i]
              /\ LastTry(tries, k - 1, i) /\ Settled(tries[i])
<1> DEFINE S == cfg.samples
           of(s) == {i \in DOMAIN tries : tries[i].sample = s}
           n == Cardinality({tries[i].sample : i \in DOMAIN tries})
           pub == published_logical_attempts(tries)
<1>1. S \in Nat /\ S >= 1
  BY Resolved
<1>2. DOMAIN tries = 1..Len(tries) /\ Len(tries) \in Nat /\ \A i \in DOMAIN tries : tries[i] \in Published
  BY LenProperties, ElementOfSeq
<1>3. {tries[i].sample : i \in DOMAIN tries} = 0..(S - 1)
  BY DEF LastTry
<1>4. n = S
  <2> HIDE DEF S
  <2>1. Cardinality(0..(S - 1)) = S
    BY <1>1, FS_Interval
  <2> QED BY <1>3, <2>1
<1>5. pub = [k \in 1..S |-> tries[Max(of(k - 1))]]
  BY <1>4 DEF published_logical_attempts
<1>6. ASSUME NEW k \in 1..S
      PROVE  \E i \in DOMAIN tries : pub[k] = tries[i] /\ LastTry(tries, k - 1, i) /\ Settled(tries[i])
  <2>1. k - 1 \in 0..(S - 1)
    BY <1>1
  <2>2. PICK i \in DOMAIN tries : LastTry(tries, k - 1, i) /\ Settled(tries[i])
    BY <2>1
  <2>3. i \in of(k - 1) /\ \A j \in of(k - 1) : i >= j
    BY <2>2, <1>2 DEF LastTry
  <2>4. \A m \in of(k - 1) : (\A j \in of(k - 1) : m >= j) => m = i
    BY <2>3, <1>2
  <2> HIDE DEF of
  <2>5. Max(of(k - 1)) = i
    BY <2>3, <2>4 DEF Max
  <2>6. pub[k] = tries[i]
    BY <1>5, <2>5
  <2> QED BY <2>2, <2>6
<1> HIDE DEF pub
<1>7. pub \in [1..S -> Published]
  <2>1. \A k \in 1..S : pub[k] \in Published
    BY <1>2, <1>6
  <2>2. DOMAIN pub = 1..S /\ pub = [k \in 1..S |-> pub[k]]
    BY <1>5
  <2> HIDE DEF S
  <2> QED BY <2>1, <2>2
<1>8. pub \in Seq(Published) /\ Len(pub) = S
  BY <1>1, <1>7
<1> QED BY <1>6, <1>8 DEF pub

\* Two tasks under way have numbers of their own; two of a stack never are.
LEMMA OthersApart ==
  ASSUME ConfigOK, TypeInv, NumberInv, ModesIsolated, NEW t \in active, NEW v \in active, v # t
  PROVE  pc # "stacks" /\ Apart(v.base, t.base) /\ v.base # t.base
<1>1. cfg.samples \in Nat /\ cfg.samples >= 1
  BY Resolved
<1>2. pc # "stacks"
  <2>1. SUFFICES ASSUME pc = "stacks" PROVE FALSE
    OBVIOUS
  <2>2. IsFiniteSet(active) /\ Cardinality(active) <= 1
    BY <2>1 DEF ModesIsolated, TypeInv
  <2>3. IsFiniteSet({t}) /\ Cardinality({t}) = 1
    BY FS_Singleton
  <2>4. Cardinality({t} \cup {v}) = 2
    BY <2>3, FS_AddElement
  <2>5. {t} \cup {v} \subseteq active
    OBVIOUS
  <2>6. Cardinality({t} \cup {v}) <= Cardinality(active) /\ Cardinality(active) \in Nat
    BY <2>2, <2>5, FS_Subset, FS_CardinalityType
  <2> QED BY <2>2, <2>4, <2>6
<1>3. Apart(v.base, t.base)
  BY <1>2 DEF NumberInv
<1>4. v.base \in Nat /\ t.base \in Nat
  BY DEF TypeInv, Job
<1> QED BY <1>1, <1>2, <1>3, <1>4 DEF Apart

\* A task that goes on takes its own place.
LEMMA TakesItsPlace ==
  ASSUME ConfigOK, TypeInv, NumberInv, ModesIsolated, NEW t \in active, NEW u, u.base = t.base
  PROVE  /\ IsFiniteSet((active \ {t}) \cup {u})
         /\ Cardinality((active \ {t}) \cup {u}) = Cardinality(active)
         /\ IsFiniteSet(active \ {t}) /\ Cardinality(active \ {t}) = Cardinality(active) - 1
         /\ Cardinality(active) \in Nat
<1>1. IsFiniteSet(active) /\ Cardinality(active) \in Nat
  BY FS_CardinalityType DEF TypeInv
<1>2. IsFiniteSet(active \ {t}) /\ Cardinality(active \ {t}) = Cardinality(active) - 1
  BY <1>1, FS_RemoveElement
<1>3. u \notin active \ {t}
  BY OthersApart
<1>4. IsFiniteSet((active \ {t}) \cup {u})
      /\ Cardinality((active \ {t}) \cup {u}) = Cardinality(active \ {t}) + 1
  BY <1>2, <1>3, FS_AddElement
<1> QED BY <1>1, <1>2, <1>4

-----------------------------------------------------------------------------
(***************************************************************************)
(* A task goes on: it asks, is allowed, or has another try ahead.          *)
(***************************************************************************)
LEMMA GoesOnNumbered ==
  ASSUME ConfigOK, TypeInv, NumberInv, ModesIsolated, NEW t \in active, NEW u \in Job,
         u.base = t.base, active' = (active \ {t}) \cup {u},
         UNCHANGED <<cfg, pc, queue, batch, attempts>>,
         seq' \in Nat, seq <= seq', pc # "stacks" => seq' = seq, Numbered(u)',
         pc = "stacks" => \A k \in DOMAIN u.tries :
           (k \in DOMAIN t.tries /\ u.tries[k] = t.tries[k]) \/ u.tries[k].seq = seq
  PROVE  NumberInv'
<1>1. SeqUnique'
  BY DEF NumberInv, SeqUnique
<1>2. ASSUME NEW v \in active' PROVE Numbered(v)'
  <2>1. CASE v = u
    BY <2>1
  <2>2. CASE v # u
    <3>1. v \in active /\ v # t
      BY <2>2
    <3>2. seq' = seq
      BY <3>1, OthersApart
    <3> QED BY <3>1, <3>2 DEF NumberInv, Numbered
  <2> QED BY <2>1, <2>2
<1>3. ASSUME pc # "stacks" PROVE Floor' = Floor /\ seq' = seq
  BY <1>3 DEF Floor
<1>4. ASSUME NEW v \in active', NEW w \in active', v # w, pc # "stacks" PROVE Apart(v.base, w.base)
  <2>1. CASE v = u
    <3>1. w \in active /\ w # t
      BY <1>4, <2>1
    <3> QED BY <1>4, <2>1, <3>1 DEF NumberInv
  <2>2. CASE w = u
    <3>1. v \in active /\ v # t
      BY <1>4, <2>2
    <3> QED BY <1>4, <2>2, <3>1 DEF NumberInv
  <2>3. CASE v # u /\ w # u
    BY <1>4, <2>3 DEF NumberInv
  <2> QED BY <2>1, <2>2, <2>3
<1>5. ASSUME pc # "stacks", NEW v \in active' PROVE v.base + cfg.samples <= Floor
  BY <1>5 DEF NumberInv
<1>6. ASSUME NEW as \in {attempts, batch}, NEW i \in DOMAIN as
      PROVE  /\ as[i].seq < seq'
             /\ pc # "stacks" => /\ as[i].seq < Floor
                                 /\ \A v \in active' : as[i].seq < v.base \/ v.base + cfg.samples <= as[i].seq
             /\ pc = "stacks" => \A v \in active' : \A k \in DOMAIN v.tries : as[i].seq < v.tries[k].seq
  <2>1. as[i].seq \in Nat /\ seq \in Nat
    <3>1. attempts \in Seq(Published) /\ batch \in Seq(Published) /\ seq \in Nat
      BY DEF TypeInv
    <3>2. as \in Seq(Published)
      BY <3>1
    <3>3. as[i] \in Published
      BY <3>2, ElementOfSeq, LenProperties
    <3> QED BY <3>1, <3>3 DEF Published
  <2>2. as[i].seq < seq
    BY DEF NumberInv
  <2>3. as[i].seq < seq'
    <3> DEFINE x == as[i].seq
    <3>1. x \in Nat /\ seq \in Nat /\ seq' \in Nat /\ x < seq /\ seq <= seq'
      BY <2>1, <2>2
    <3> HIDE DEF x
    <3>2. x < seq'
      BY <3>1
    <3> QED BY <3>2 DEF x
  <2>4. ASSUME pc # "stacks"
        PROVE  /\ as[i].seq < Floor
               /\ \A v \in active' : as[i].seq < v.base \/ v.base + cfg.samples <= as[i].seq
    BY <2>4 DEF NumberInv
  <2>5. ASSUME pc = "stacks", NEW v \in active', NEW k \in DOMAIN v.tries PROVE as[i].seq < v.tries[k].seq
    <3>1. v = u
      BY <2>5, OthersApart
    <3>2. CASE k \in DOMAIN t.tries /\ u.tries[k] = t.tries[k]
      BY <2>5, <3>1, <3>2 DEF NumberInv
    <3>3. CASE u.tries[k].seq = seq
      BY <2>2, <3>1, <3>3
    <3> QED BY <2>5, <3>1, <3>2, <3>3
  <2> QED BY <2>3, <2>4, <2>5
<1>7. pc # "stacks" => \A j \in DOMAIN queue : queue[j].base = seq - cfg.samples * (Len(queue) - j + 1)
  BY DEF NumberInv
<1>8. ASSUME pc # "stacks"
      PROVE  /\ \A j \in DOMAIN queue : queue[j].base = seq' - cfg.samples * (Len(queue) - j + 1)
             /\ \A v \in active' : v.base + cfg.samples <= Floor'
             /\ \A v, w \in active' : v # w => Apart(v.base, w.base)
             /\ Floor' = Floor
  BY <1>3, <1>4, <1>5, <1>7, <1>8
<1>9. \A v, w \in active' : Apart(v.base, w.base)' <=> Apart(v.base, w.base)
  BY DEF Apart
<1> QED BY <1>1, <1>2, <1>6, <1>8, <1>9 DEF NumberInv

LEMMA GoesOn ==
  ASSUME RunInv, NEW t \in active, NEW u \in Job,
         u.base = t.base, u.mode = t.mode, Tried(u), active' = (active \ {t}) \cup {u},
         UNCHANGED <<cfg, pc, queue, batch, attempts, iters, counts, plan, warm, todo, up, progress>>,
         seq' \in Nat, seq <= seq', pc # "stacks" => seq' = seq, Numbered(u)',
         pc = "stacks" => \A k \in DOMAIN u.tries :
           (k \in DOMAIN t.tries /\ u.tries[k] = t.tries[k]) \/ u.tries[k].seq = seq
  PROVE  RunInv'
<1> USE DEF RunInv
<1>1. ConfigOK'
  BY ConfigKept
<1>2. TypeInv'
  <2>1. Job' = Job /\ Published' = Published
    BY DEF Job, Published, Stacks, Tags
  <2>2. active' \in SUBSET Job /\ IsFiniteSet(active')
    BY TakesItsPlace DEF TypeInv
  <2> QED BY <2>1, <2>2 DEF TypeInv, Plan
<1>3. Cardinality(active') = Cardinality(active)
  BY TakesItsPlace
<1>4. CountInv'
  <2>1. Owed' = Owed
    BY <1>3 DEF Owed
  <2>2. progress' \in Nat /\ progress <= progress'
    BY DEF TypeInv
  <2> QED BY <2>1, <2>2, CountKept
<1>5. TaskInv'
  <2>1. Warmed' = Warmed
    BY SameEnds
  <2>2. \A v \in active' : Tried(v)
    BY DEF TaskInv
  <2>3. \A v \in active' : Tried(v)'
    BY <2>2 DEF Tried, LastTry, Settled
  <2>4. \A j \in DOMAIN queue' : Untried(queue[j])'
    BY DEF TaskInv, Untried
  <2>5. (\A i \in DOMAIN batch' : Settled(batch[i])') /\ \A i \in DOMAIN attempts' : Warmed < i => Settled(attempts[i])'
    BY DEF TaskInv, Settled
  <2> QED BY <2>1, <2>3, <2>4, <2>5 DEF TaskInv
<1>6. NumberInv'
  BY GoesOnNumbered
<1>7. ModesIsolated'
  <2>1. \A v, w \in active' : v.mode = w.mode
    BY DEF ModesIsolated
  <2> QED BY <1>3, <2>1 DEF ModesIsolated
<1>8. PhaseInv'
  BY PhaseKept
<1>9. StopInv'
  <2>1. ~Quiet
    BY DEF Quiet
  <2>2. progress \in Nat /\ progress <= progress'
    BY DEF TypeInv
  <2> QED BY <2>1, <2>2, StopKept
<1> QED BY <1>1, <1>2, <1>4, <1>5, <1>6, <1>7, <1>8, <1>9

-----------------------------------------------------------------------------
(***************************************************************************)
(* A burst is over: its attempts are published.                            *)
(***************************************************************************)
Addressable(s) == \A i, j \in DOMAIN s : s[i].seq = s[j].seq => i = j
Distinct(a, b) == \A i \in DOMAIN a, j \in DOMAIN b : a[i].seq # b[j].seq

LEMMA Concat ==
  ASSUME NEW S, NEW a \in Seq(S), NEW b \in Seq(S)
  PROVE  /\ a \o b \in Seq(S) /\ Len(a) \in Nat /\ Len(b) \in Nat
         /\ Len(a \o b) = Len(a) + Len(b)
         /\ DOMAIN a = 1..Len(a) /\ DOMAIN b = 1..Len(b) /\ DOMAIN (a \o b) = 1..(Len(a) + Len(b))
         /\ \A i \in DOMAIN a : (a \o b)[i] = a[i] /\ a[i] \in S
         /\ \A i \in DOMAIN b : (a \o b)[Len(a) + i] = b[i] /\ b[i] \in S
         /\ \A i \in DOMAIN (a \o b) :
              (i \in DOMAIN a) \/ (\E j \in DOMAIN b : i = Len(a) + j)
<1>1. a \o b \in Seq(S) /\ Len(a) \in Nat /\ Len(b) \in Nat /\ Len(a \o b) = Len(a) + Len(b)
  BY ConcatProperties, LenProperties
<1>2. DOMAIN a = 1..Len(a) /\ DOMAIN b = 1..Len(b) /\ DOMAIN (a \o b) = 1..(Len(a) + Len(b))
  BY <1>1, LenProperties
<1>3. (\A i \in DOMAIN a : a[i] \in S) /\ \A i \in DOMAIN b : b[i] \in S
  BY <1>2, ElementOfSeq
<1>4. \A i \in 1..(Len(a) + Len(b)) : (a \o b)[i] = IF i <= Len(a) THEN a[i] ELSE b[i - Len(a)]
  BY ConcatProperties
<1>5. \A i \in DOMAIN a : (a \o b)[i] = a[i]
  BY <1>1, <1>2, <1>4
<1>6. ASSUME NEW i \in DOMAIN b PROVE (a \o b)[Len(a) + i] = b[i]
  <2>1. Len(a) + i \in 1..(Len(a) + Len(b)) /\ ~(Len(a) + i <= Len(a)) /\ Len(a) + i - Len(a) = i
    BY <1>1, <1>2
  <2> QED BY <1>4, <2>1
<1>7. ASSUME NEW i \in DOMAIN (a \o b), i \notin DOMAIN a PROVE \E j \in DOMAIN b : i = Len(a) + j
  <2>1. i - Len(a) \in DOMAIN b /\ i = Len(a) + (i - Len(a))
    BY <1>1, <1>2, <1>7
  <2> QED BY <2>1
<1> QED BY <1>1, <1>2, <1>3, <1>5, <1>6, <1>7

\* The same of a sequence c known to be the two put together.
TwoParts(c, a, b) ==
  /\ Len(c) = Len(a) + Len(b) /\ DOMAIN c = 1..(Len(a) + Len(b))
  /\ \A i \in DOMAIN a : c[i] = a[i]
  /\ \A i \in DOMAIN b : c[Len(a) + i] = b[i]
  /\ \A i \in DOMAIN c : (i \in DOMAIN a) \/ (\E j \in DOMAIN b : i = Len(a) + j)

LEMMA Together ==
  ASSUME NEW S, NEW a \in Seq(S), NEW b \in Seq(S), NEW c, c = a \o b
  PROVE  c \in Seq(S) /\ TwoParts(c, a, b)
BY Concat DEF TwoParts

LEMMA Joined ==
  ASSUME NEW S, NEW a \in Seq(S), NEW b \in Seq(S)
  PROVE  Addressable(a \o b) <=> Addressable(a) /\ Addressable(b) /\ Distinct(a, b)
<1> DEFINE c == a \o b
<1>1. /\ Len(a) \in Nat /\ DOMAIN a = 1..Len(a) /\ DOMAIN b = 1..Len(b) /\ Len(b) \in Nat
      /\ DOMAIN c = 1..(Len(a) + Len(b))
      /\ \A i \in DOMAIN a : c[i] = a[i]
      /\ \A i \in DOMAIN b : c[Len(a) + i] = b[i]
      /\ \A i \in DOMAIN c : (i \in DOMAIN a) \/ (\E j \in DOMAIN b : i = Len(a) + j)
  BY Concat
<1> HIDE DEF c
<1>2. /\ \A i \in DOMAIN a : i \in DOMAIN c
      /\ \A i \in DOMAIN b : Len(a) + i \in DOMAIN c /\ i \in Nat /\ Len(a) + i \notin DOMAIN a
  BY <1>1
<1>3. ASSUME Addressable(c) PROVE Addressable(a) /\ Addressable(b) /\ Distinct(a, b)
  <2>1. Addressable(a)
    BY <1>1, <1>2, <1>3 DEF Addressable
  <2>2. Addressable(b)
    <3>1. SUFFICES ASSUME NEW i \in DOMAIN b, NEW j \in DOMAIN b, b[i].seq = b[j].seq PROVE i = j
      BY DEF Addressable
    <3>2. c[Len(a) + i].seq = c[Len(a) + j].seq
      BY <1>1, <3>1
    <3>3. Len(a) + i = Len(a) + j
      BY <1>2, <1>3, <3>2 DEF Addressable
    <3>4. i \in Nat /\ j \in Nat
      BY <1>2
    <3> QED BY <1>1, <3>3, <3>4
  <2>3. Distinct(a, b)
    <3>1. SUFFICES ASSUME NEW i \in DOMAIN a, NEW j \in DOMAIN b, a[i].seq = b[j].seq PROVE FALSE
      BY DEF Distinct
    <3>2. c[i].seq = c[Len(a) + j].seq
      BY <1>1, <3>1
    <3>3. i = Len(a) + j
      BY <1>2, <1>3, <3>2 DEF Addressable
    <3> QED BY <1>2, <3>3
  <2> QED BY <2>1, <2>2, <2>3
<1>4. ASSUME Addressable(a), Addressable(b), Distinct(a, b) PROVE Addressable(c)
  <2>1. SUFFICES ASSUME NEW i \in DOMAIN c, NEW j \in DOMAIN c, c[i].seq = c[j].seq PROVE i = j
    BY DEF Addressable
  <2>2. CASE i \in DOMAIN a /\ j \in DOMAIN a
    BY <1>1, <1>4, <2>1, <2>2 DEF Addressable
  <2>3. CASE i \in DOMAIN a /\ j \notin DOMAIN a
    BY <1>1, <1>4, <2>1, <2>3 DEF Distinct
  <2>4. CASE i \notin DOMAIN a /\ j \in DOMAIN a
    BY <1>1, <1>4, <2>1, <2>4 DEF Distinct
  <2>5. CASE i \notin DOMAIN a /\ j \notin DOMAIN a
    BY <1>1, <1>4, <2>1, <2>5 DEF Addressable
  <2> QED BY <2>2, <2>3, <2>4, <2>5
<1> QED BY <1>3, <1>4 DEF c

LEMMA Unique ==
  ASSUME TypeInv
  PROVE  SeqUnique <=> Addressable(attempts) /\ Addressable(batch) /\ Distinct(attempts, batch)
<1>1. SeqUnique <=> Addressable(attempts \o batch)
  BY DEF SeqUnique, Addressable
<1> QED BY <1>1, Joined DEF TypeInv

\* What a burst publishes has numbers of its own.
LEMMA BurstApart ==
  ASSUME ConfigOK, TypeInv, NumberInv, NEW t \in active, NEW u \in Job, Tried(t),
         u.base = t.base, u.stack = t.stack,
         \A i \in DOMAIN u.tries : u.tries[i].sample \in 0..(cfg.samples - 1),
         \A s \in 0..(cfg.samples - 1) : \E i \in DOMAIN u.tries :
            LastTry(u.tries, s, i) /\ Settled(u.tries[i]),
         cfg' = cfg, pc' = pc, seq' \in Nat, seq <= seq', pc # "stacks" => seq' = seq, Numbered(u)',
         pc = "stacks" => \A k \in DOMAIN u.tries :
           (k \in DOMAIN t.tries /\ u.tries[k] = t.tries[k]) \/ u.tries[k].seq = seq,
         NEW pub, pub = published_logical_attempts(u.tries)
  PROVE  /\ Addressable(pub) /\ Distinct(attempts, pub) /\ Distinct(batch, pub)
         /\ \A k \in DOMAIN pub :
              /\ pub[k].seq < seq'
              /\ pc # "stacks" => t.base <= pub[k].seq /\ pub[k].seq < t.base + cfg.samples
<1> DEFINE S == cfg.samples
<1>1. S \in Nat /\ S >= 1
  BY Resolved
<1>2. u.tries \in Seq(Published) /\ u.base \in Nat /\ u.stack = t.stack /\ t.base \in Nat
  BY DEF Job, TypeInv
<1>3. /\ pub \in Seq(Published) /\ Len(pub) = S
      /\ \A k \in 1..S : \E i \in DOMAIN u.tries :
           pub[k] = u.tries[i] /\ LastTry(u.tries, k - 1, i) /\ Settled(u.tries[i])
  BY <1>2, BurstPublished
<1>4. DOMAIN pub = 1..S
  BY <1>3, LenProperties
<1>5. t.stack = "none" <=> pc # "stacks"
  BY DEF Tried
<1>6. /\ attempts \in Seq(Published) /\ batch \in Seq(Published) /\ seq \in Nat
  BY DEF TypeInv
<1>7. \A as \in {attempts, batch} : \A i \in DOMAIN as : as[i].seq \in Nat
  <2>1. SUFFICES ASSUME NEW as \in Seq(Published), NEW i \in DOMAIN as PROVE as[i].seq \in Nat
    BY <1>6
  <2>2. as[i] \in Published
    BY ElementOfSeq, LenProperties
  <2> QED BY <2>2 DEF Published
<1>8. CASE pc # "stacks"
  <2>1. \A i \in DOMAIN u.tries : u.tries[i].seq = t.base + u.tries[i].sample
    BY <1>5, <1>8 DEF Numbered
  <2>2. ASSUME NEW k \in 1..S PROVE pub[k].seq = t.base + (k - 1)
    BY <1>3, <2>1 DEF LastTry
  <2>3. Addressable(pub)
    <3>1. SUFFICES ASSUME NEW k \in 1..S, NEW l \in 1..S, pub[k].seq = pub[l].seq PROVE k = l
      BY <1>4 DEF Addressable
    <3>2. t.base + (k - 1) = t.base + (l - 1) /\ k \in Int /\ l \in Int
      BY <2>2, <3>1
    <3> QED BY <1>2, <3>2
  <2>4. t.base + S <= Floor /\ seq >= Floor /\ Floor \in Int
    <3>1. t.base + S <= Floor
      BY <1>8 DEF NumberInv
    <3>2. S * Len(queue) \in Nat
      BY Sizes
    <3>3. seq >= seq - S * Len(queue) /\ seq - S * Len(queue) \in Int
      BY <1>6, <3>2
    <3> QED BY <3>1, <3>3 DEF Floor
  <2>5. ASSUME NEW as \in {attempts, batch} PROVE Distinct(as, pub)
    <3>1. SUFFICES ASSUME NEW i \in DOMAIN as, NEW k \in 1..S, as[i].seq = pub[k].seq PROVE FALSE
      BY <1>4 DEF Distinct
    <3>2. as[i].seq < t.base \/ t.base + S <= as[i].seq
      BY <1>8 DEF NumberInv
    <3>3. as[i].seq = t.base + (k - 1)
      BY <2>2, <3>1
    <3>4. k - 1 >= 0 /\ k - 1 < S /\ k - 1 \in Int
      BY <1>1
    <3> HIDE DEF S
    <3> QED BY <1>1, <1>2, <3>2, <3>3, <3>4
  <2>6. ASSUME NEW k \in 1..S PROVE t.base <= pub[k].seq /\ pub[k].seq < t.base + S /\ pub[k].seq < seq'
    <3>1. pub[k].seq = t.base + (k - 1) /\ k - 1 >= 0 /\ k - 1 < S /\ k - 1 \in Int
      BY <1>1, <2>2
    <3>2. seq' = seq
      BY <1>8
    <3> HIDE DEF S
    <3> QED BY <1>1, <1>2, <1>6, <2>4, <3>1, <3>2
  <2> QED BY <1>4, <2>3, <2>5, <2>6
<1>9. CASE pc = "stacks"
  <2>1. /\ \A i \in DOMAIN u.tries : u.tries[i].seq < seq'
        /\ \A i, j \in DOMAIN u.tries : i < j => u.tries[i].seq < u.tries[j].seq
    BY <1>2, <1>5, <1>9 DEF Numbered
  <2>2. DOMAIN u.tries = 1..Len(u.tries) /\ Len(u.tries) \in Nat
        /\ \A i \in DOMAIN u.tries : u.tries[i].seq \in Nat
    <3>1. DOMAIN u.tries = 1..Len(u.tries) /\ Len(u.tries) \in Nat
      BY <1>2, LenProperties
    <3>2. \A i \in DOMAIN u.tries : u.tries[i] \in Published
      BY <1>2, <3>1, ElementOfSeq
    <3> QED BY <3>1, <3>2 DEF Published
  <2>3. ASSUME NEW i \in DOMAIN u.tries, NEW j \in DOMAIN u.tries, u.tries[i].seq = u.tries[j].seq
        PROVE  i = j
    <3>1. u.tries[i].seq \in Nat /\ i \in Int /\ j \in Int
      BY <2>2
    <3>2. ~(i < j)
      BY <2>1, <2>3, <3>1
    <3>3. ~(j < i)
      BY <2>1, <2>3, <3>1
    <3> QED BY <3>1, <3>2, <3>3
  <2>4. Addressable(pub)
    <3>1. SUFFICES ASSUME NEW k \in 1..S, NEW l \in 1..S, pub[k].seq = pub[l].seq PROVE k = l
      BY <1>4 DEF Addressable
    <3>2. PICK i \in DOMAIN u.tries : pub[k] = u.tries[i] /\ u.tries[i].sample = k - 1
      BY <1>3 DEF LastTry
    <3>3. PICK j \in DOMAIN u.tries : pub[l] = u.tries[j] /\ u.tries[j].sample = l - 1
      BY <1>3 DEF LastTry
    <3>4. i = j
      BY <2>3, <3>1, <3>2, <3>3
    <3>5. k - 1 = l - 1 /\ k \in Int /\ l \in Int
      BY <1>1, <3>2, <3>3, <3>4
    <3> QED BY <3>5
  <2>5. ASSUME NEW as \in {attempts, batch}, NEW i \in DOMAIN as, NEW k \in DOMAIN u.tries
        PROVE as[i].seq < u.tries[k].seq
    <3>1. as[i].seq < seq
      BY DEF NumberInv
    <3>2. CASE k \in DOMAIN t.tries /\ u.tries[k] = t.tries[k]
      BY <1>9, <3>2 DEF NumberInv
    <3>3. CASE u.tries[k].seq = seq
      BY <3>1, <3>3
    <3> QED BY <1>9, <3>2, <3>3
  <2>6. ASSUME NEW as \in {attempts, batch} PROVE Distinct(as, pub)
    <3>1. SUFFICES ASSUME NEW i \in DOMAIN as, NEW k \in 1..S, as[i].seq = pub[k].seq PROVE FALSE
      BY <1>4 DEF Distinct
    <3>2. PICK j \in DOMAIN u.tries : pub[k] = u.tries[j]
      BY <1>3
    <3>3. as[i].seq < u.tries[j].seq /\ as[i].seq \in Nat
      BY <1>7, <2>5
    <3> QED BY <3>1, <3>2, <3>3
  <2>7. \A k \in 1..S : pub[k].seq < seq'
    BY <1>3, <2>1
  <2> QED BY <1>4, <1>9, <2>4, <2>6, <2>7
<1> QED BY <1>8, <1>9

LEMMA BurstNumbered ==
  ASSUME ConfigOK, TypeInv, NumberInv, ModesIsolated, NEW t \in active, NEW u \in Job, Tried(t),
         u.base = t.base, u.stack = t.stack,
         \A i \in DOMAIN u.tries : u.tries[i].sample \in 0..(cfg.samples - 1),
         \A s \in 0..(cfg.samples - 1) : \E i \in DOMAIN u.tries :
            LastTry(u.tries, s, i) /\ Settled(u.tries[i]),
         seq' \in Nat, seq <= seq', pc # "stacks" => seq' = seq, Numbered(u)',
         pc = "stacks" => \A k \in DOMAIN u.tries :
           (k \in DOMAIN t.tries /\ u.tries[k] = t.tries[k]) \/ u.tries[k].seq = seq,
         active' = active \ {t}, batch' = batch \o published_logical_attempts(u.tries),
         UNCHANGED <<cfg, pc, queue, attempts>>, TypeInv'
  PROVE  NumberInv'
<1> DEFINE S == cfg.samples
<1>1. PICK pub : pub = published_logical_attempts(u.tries)
  OBVIOUS
<1>2. S \in Nat /\ S >= 1
  BY Resolved
<1>3. pub \in Seq(Published)
  BY <1>1, BurstPublished DEF Job
<1>4. /\ Addressable(pub) /\ Distinct(attempts, pub) /\ Distinct(batch, pub)
      /\ \A k \in DOMAIN pub :
           /\ pub[k].seq < seq'
           /\ pc # "stacks" => t.base <= pub[k].seq /\ pub[k].seq < t.base + S
  BY <1>1, BurstApart
<1>5. /\ attempts \in Seq(Published) /\ batch \in Seq(Published) /\ seq \in Nat
      /\ active \subseteq Job
  BY DEF TypeInv
<1>6. /\ DOMAIN batch = 1..Len(batch) /\ Len(batch) \in Nat
      /\ \A i \in DOMAIN batch : batch'[i] = batch[i]
      /\ \A i \in DOMAIN pub : batch'[Len(batch) + i] = pub[i] /\ pub[i] \in Published
      /\ \A i \in DOMAIN batch' : i \in DOMAIN batch \/ (\E j \in DOMAIN pub : i = Len(batch) + j)
  <2>1. batch' = batch \o pub /\ batch \in Seq(Published) /\ pub \in Seq(Published)
    BY <1>1, <1>3, <1>5
  <2>2. /\ DOMAIN batch = 1..Len(batch) /\ Len(batch) \in Nat
        /\ \A i \in DOMAIN batch : (batch \o pub)[i] = batch[i]
        /\ \A i \in DOMAIN pub : (batch \o pub)[Len(batch) + i] = pub[i] /\ pub[i] \in Published
        /\ \A i \in DOMAIN (batch \o pub) : i \in DOMAIN batch \/ (\E j \in DOMAIN pub : i = Len(batch) + j)
    BY <2>1, Concat
  <2> QED BY <2>1, <2>2
<1>7. SeqUnique'
  <2>1. Addressable(attempts) /\ Addressable(batch) /\ Distinct(attempts, batch)
    BY Unique DEF NumberInv
  <2>2. Addressable(batch')
    BY <1>1, <1>3, <1>4, <1>5, <2>1, Joined
  <2>3. Distinct(attempts, batch')
    BY <1>4, <1>6, <2>1 DEF Distinct
  <2>4. SeqUnique' <=> Addressable(attempts \o batch')
    BY DEF SeqUnique, Addressable
  <2>5. batch' \in Seq(Published)
    BY <1>1, <1>3, <1>5, ConcatProperties
  <2> QED BY <1>5, <2>1, <2>2, <2>3, <2>4, <2>5, Joined
<1>8. ASSUME NEW v \in active' PROVE Numbered(v)' /\ v \in active /\ pc # "stacks" /\ Apart(v.base, t.base)
  <2>1. v \in active /\ v # t
    OBVIOUS
  <2>2. pc # "stacks" /\ Apart(v.base, t.base)
    BY <2>1, OthersApart
  <2>3. seq' = seq
    BY <2>2
  <2>4. Numbered(v)'
    BY <2>1, <2>3 DEF NumberInv, Numbered
  <2> QED BY <2>1, <2>2, <2>4
<1>9. ASSUME pc # "stacks"
      PROVE  /\ seq' = seq /\ Floor' = Floor
             /\ \A j \in DOMAIN queue : queue[j].base = seq' - cfg.samples * (Len(queue) - j + 1)
             /\ \A v \in active' : v.base + cfg.samples <= Floor
             /\ \A v, w \in active' : v # w => Apart(v.base, w.base)
  <2>1. seq' = seq /\ Floor' = Floor
    BY <1>9 DEF Floor
  <2> QED BY <1>9, <2>1 DEF NumberInv
<1>10. ASSUME NEW as \in {attempts, batch}, NEW i \in DOMAIN as
       PROVE  as[i].seq < seq'
  <2>1. as[i].seq < seq
    BY DEF NumberInv
  <2>2. as[i].seq \in Nat
    <3>1. as \in Seq(Published)
      BY <1>5
    <3>2. as[i] \in Published
      BY <3>1, ElementOfSeq, LenProperties
    <3> QED BY <3>2 DEF Published
  <2> DEFINE x == as[i].seq
  <2>3. x \in Nat /\ x < seq
    BY <2>1, <2>2
  <2> HIDE DEF x
  <2>4. x < seq'
    BY <1>5, <2>3
  <2> QED BY <2>4 DEF x
<1>11. ASSUME pc # "stacks", NEW as \in {attempts, batch}, NEW i \in DOMAIN as
       PROVE  /\ as[i].seq < Floor
              /\ \A v \in active' : as[i].seq < v.base \/ v.base + S <= as[i].seq
  BY <1>11 DEF NumberInv
<1>12. ASSUME pc # "stacks", NEW k \in DOMAIN pub
       PROVE  /\ pub[k].seq < Floor
              /\ \A v \in active' : pub[k].seq < v.base \/ v.base + S <= pub[k].seq
  <2>1. t.base + S <= Floor /\ t.base \in Nat
    BY <1>12 DEF NumberInv, TypeInv, Job
  <2>2. t.base <= pub[k].seq /\ pub[k].seq < t.base + S
    BY <1>4, <1>12
  <2>3. pub[k].seq \in Nat
    BY <1>6 DEF Published
  <2>4. Floor \in Int
    <3>1. S * Len(queue) \in Nat
      BY Sizes
    <3>2. seq - S * Len(queue) \in Int
      BY <1>5, <3>1
    <3> QED BY <3>2 DEF Floor
  <2>5. ASSUME NEW v \in active' PROVE pub[k].seq < v.base \/ v.base + S <= pub[k].seq
    <3>1. Apart(v.base, t.base) /\ v.base \in Nat
      BY <1>5, <1>8 DEF Job
    <3>2. v.base + S <= t.base \/ t.base + S <= v.base
      BY <3>1 DEF Apart
    <3> HIDE DEF S
    <3> QED BY <1>2, <2>1, <2>2, <2>3, <3>1, <3>2
  <2> HIDE DEF S
  <2>6. pub[k].seq < Floor
    BY <1>2, <2>1, <2>2, <2>3, <2>4
  <2> QED BY <2>5, <2>6
<1>13. ASSUME NEW as \in {attempts, batch'}, NEW i \in DOMAIN as
       PROVE  /\ as[i].seq < seq'
              /\ pc # "stacks" => /\ as[i].seq < Floor
                                  /\ \A v \in active' : as[i].seq < v.base \/ v.base + S <= as[i].seq
  <2>1. CASE as = attempts
    BY <1>10, <1>11, <2>1
  <2>2. CASE as = batch' /\ i \in DOMAIN batch
    BY <1>6, <1>10, <1>11, <2>2
  <2>3. CASE as = batch' /\ i \notin DOMAIN batch
    <3>1. PICK k \in DOMAIN pub : i = Len(batch) + k
      BY <1>6, <2>3
    <3>2. as[i] = pub[k]
      BY <1>6, <2>3, <3>1
    <3> QED BY <1>4, <1>12, <3>2
  <2> QED BY <2>1, <2>2, <2>3
<1>14. \A v, w \in active' : Apart(v.base, w.base)' <=> Apart(v.base, w.base)
  BY DEF Apart
<1>15. pc = "stacks" => active' = {}
  BY <1>8
<1>16. (pc # "stacks" =>
         /\ \A j \in DOMAIN queue : queue[j].base = seq - cfg.samples * (Len(queue) - j + 1)
         /\ \A v \in active : v.base + cfg.samples <= Floor
         /\ \A v, w \in active : v # w => Apart(v.base, w.base))'
  BY <1>9, <1>14
<1>17. (\A as \in {attempts, batch} : \A i \in DOMAIN as :
         /\ as[i].seq < seq
         /\ pc # "stacks" => /\ as[i].seq < Floor
                             /\ \A v \in active : as[i].seq < v.base \/ v.base + cfg.samples <= as[i].seq
         /\ pc = "stacks" => \A v \in active : \A k \in DOMAIN v.tries : as[i].seq < v.tries[k].seq)'
  BY <1>9, <1>13, <1>15
<1>18. (\A v \in active : Numbered(v))'
  BY <1>8
<1> QED BY <1>7, <1>16, <1>17, <1>18 DEF NumberInv

LEMMA BurstEnds ==
  ASSUME RunInv, NEW t \in active, NEW u \in Job,
         u.base = t.base, u.stack = t.stack,
         \A i \in DOMAIN u.tries : u.tries[i].sample \in 0..(cfg.samples - 1),
         \A s \in 0..(cfg.samples - 1) : \E i \in DOMAIN u.tries :
            LastTry(u.tries, s, i) /\ Settled(u.tries[i]),
         active' = active \ {t}, batch' = batch \o published_logical_attempts(u.tries),
         UNCHANGED <<cfg, pc, queue, attempts, iters, counts, plan, warm, todo, up>>,
         progress' \in Nat, progress <= progress',
         seq' \in Nat, seq <= seq', pc # "stacks" => seq' = seq, Numbered(u)',
         pc = "stacks" => \A k \in DOMAIN u.tries :
           (k \in DOMAIN t.tries /\ u.tries[k] = t.tries[k]) \/ u.tries[k].seq = seq
  PROVE  RunInv'
<1> USE DEF RunInv
<1> DEFINE S == cfg.samples
<1>1. ConfigOK'
  BY ConfigKept
<1>2. PICK pub : pub = published_logical_attempts(u.tries)
  OBVIOUS
<1>3. /\ pub \in Seq(Published) /\ Len(pub) = S
      /\ \A k \in 1..S : \E i \in DOMAIN u.tries : pub[k] = u.tries[i] /\ Settled(u.tries[i])
  BY <1>2, BurstPublished DEF Job
<1>4. S \in Nat /\ S >= 1 /\ DOMAIN pub = 1..S
  BY <1>3, Resolved, LenProperties
<1>5. /\ batch \o pub \in Seq(Published) /\ Len(batch \o pub) = Len(batch) + S /\ Len(batch) \in Nat
      /\ DOMAIN batch = 1..Len(batch)
      /\ \A i \in DOMAIN batch : (batch \o pub)[i] = batch[i]
      /\ \A i \in DOMAIN pub : (batch \o pub)[Len(batch) + i] = pub[i]
      /\ \A i \in DOMAIN (batch \o pub) : i \in DOMAIN batch \/ (\E j \in DOMAIN pub : i = Len(batch) + j)
  <2>1. batch \in Seq(Published) /\ pub \in Seq(Published)
    BY <1>3 DEF TypeInv
  <2>2. /\ batch \o pub \in Seq(Published) /\ Len(batch \o pub) = Len(batch) + Len(pub)
        /\ Len(batch) \in Nat /\ DOMAIN batch = 1..Len(batch)
        /\ \A i \in DOMAIN batch : (batch \o pub)[i] = batch[i]
        /\ \A i \in DOMAIN pub : (batch \o pub)[Len(batch) + i] = pub[i]
        /\ \A i \in DOMAIN (batch \o pub) : i \in DOMAIN batch \/ (\E j \in DOMAIN pub : i = Len(batch) + j)
    BY <2>1, Concat
  <2> QED BY <1>3, <2>2
<1>6. batch' = batch \o pub
  BY <1>2
<1>7. /\ IsFiniteSet(active') /\ Cardinality(active') = Cardinality(active) - 1
      /\ Cardinality(active) \in Nat /\ Cardinality(active') \in Nat
  <2>1. IsFiniteSet(active) /\ IsFiniteSet(active \ {t})
    BY FS_RemoveElement DEF TypeInv
  <2>2. Cardinality(active) \in Nat /\ Cardinality(active \ {t}) \in Nat
    BY <2>1, FS_CardinalityType
  <2>3. Cardinality(active \ {t}) = Cardinality(active) - 1
    BY <2>1, FS_RemoveElement
  <2> QED BY <2>1, <2>2, <2>3
<1>8. TypeInv'
  <2>1. Job' = Job /\ Published' = Published
    BY DEF Job, Published, Stacks, Tags
  <2>2. batch' \in Seq(Published) /\ active' \subseteq active
    BY <1>5, <1>6
  <2> QED BY <1>7, <2>1, <2>2 DEF TypeInv, Plan
<1>9. CountInv'
  <2>1. Owed' = Owed
    <3> DEFINE n == Len(queue) + Cardinality(active')
    <3>5. Len(queue) \in Nat
      BY Sizes
    <3>1. n \in Nat /\ Len(queue) + Cardinality(active) = n + 1
      BY <1>7, <3>5
    <3>2. S * (n + 1) = S * n + S /\ S * n \in Nat
      BY <1>4, <3>1, OneMore, Product
    <3>3. Owed = Len(batch) + S * (n + 1)
      BY <3>1 DEF Owed
    <3>4. Owed' = Len(batch) + S + S * n
      BY <1>5, <1>6 DEF Owed
    <3> HIDE DEF n, S
    <3> QED BY <1>4, <1>5, <3>2, <3>3, <3>4
  <2> QED BY <2>1, CountKept
<1>10. TaskInv'
  <2>1. Warmed' = Warmed
    BY SameEnds
  <2>2. ASSUME NEW v \in active' PROVE Tried(v)'
    <3>1. Tried(v)
      BY DEF TaskInv
    <3> QED BY <3>1 DEF Tried, LastTry, Settled
  <2>3. \A j \in DOMAIN queue' : Untried(queue[j])'
    BY DEF TaskInv, Untried
  <2>4. ASSUME NEW i \in DOMAIN batch' PROVE Settled(batch'[i])
    <3>1. CASE i \in DOMAIN batch
      BY <1>5, <1>6, <3>1 DEF TaskInv
    <3>2. CASE i \notin DOMAIN batch
      <4>1. PICK j \in DOMAIN pub : i = Len(batch) + j
        BY <1>5, <1>6, <3>2
      <4>2. batch'[i] = pub[j]
        BY <1>5, <1>6, <4>1
      <4>3. Settled(pub[j])
        BY <1>3, <1>4
      <4> QED BY <4>2, <4>3
    <3> QED BY <3>1, <3>2
  <2>5. \A i \in DOMAIN batch' : Settled(batch[i])'
    BY <2>4 DEF Settled
  <2>6. \A i \in DOMAIN attempts' : Warmed < i => Settled(attempts[i])'
    BY DEF TaskInv, Settled
  <2> QED BY <2>1, <2>2, <2>3, <2>5, <2>6 DEF TaskInv
<1>11. NumberInv'
  <2>1. Tried(t)
    BY DEF TaskInv
  <2> QED BY <1>8, <2>1, BurstNumbered
<1>12. ModesIsolated'
  <2>1. \A v, w \in active' : v.mode = w.mode
    BY DEF ModesIsolated
  <2>2. Cardinality(active') <= IF pc = "stacks" THEN 1 ELSE cfg.concurrency
    BY <1>7, Resolved DEF ModesIsolated
  <2> QED BY <2>1, <2>2 DEF ModesIsolated
<1>13. PhaseInv'
  BY PhaseKept
<1>14. StopInv'
  <2>1. ~Quiet
    BY DEF Quiet
  <2> QED BY <2>1, StopKept
<1> QED BY <1>1, <1>8, <1>9, <1>10, <1>11, <1>12, <1>13, <1>14

-----------------------------------------------------------------------------
(***************************************************************************)
(* The steps of a task.                                                    *)
(***************************************************************************)
\* The tries of task t with one more, which was ok or not.
Extended(t, ok, tries) ==
  /\ tries \in Seq(Published)
  /\ \A i \in DOMAIN tries : tries[i].sample \in 0..t.sample
  /\ \A s \in 0..(t.sample - 1) : \E i \in DOMAIN tries : LastTry(tries, s, i) /\ Settled(tries[i])
  /\ ~Again(t, ok) => \E i \in DOMAIN tries : LastTry(tries, t.sample, i) /\ Settled(tries[i])
  /\ t.stack = "none" => \A i \in DOMAIN tries : tries[i].seq = t.base + tries[i].sample
  /\ t.stack # "none" =>
       /\ \A i \in DOMAIN tries : tries[i].seq < seq + 1
       /\ \A i, j \in DOMAIN tries : i < j => tries[i].seq < tries[j].seq
       /\ \A k \in DOMAIN tries :
            (k \in DOMAIN t.tries /\ tries[k] = t.tries[k]) \/ tries[k].seq = seq

LEMMA OneMoreTry ==
  ASSUME RunInv, NEW t \in active, NEW ok \in BOOLEAN, NEW bytes \in Nat,
         NEW tries, tries = Append(t.tries, Attempt(SeqNo(t), t.mode, bytes, ok, t.retry, t.sample, t.stack))
  PROVE  Extended(t, ok, tries)
<1> USE DEF RunInv
<1> DEFINE n == Len(t.tries)
           try == Attempt(SeqNo(t), t.mode, bytes, ok, t.retry, t.sample, t.stack)
<1>1. /\ t.mode \in Range(cfg.modes) /\ t.size \in Nat /\ t.base \in Nat /\ t.stack \in Stacks
      /\ t.sample \in 0..(cfg.samples - 1) /\ t.retry \in 0..cfg.retries /\ t.tries \in Seq(Published)
      /\ seq \in Nat /\ cfg.samples \in Nat /\ cfg.retries \in Nat /\ t.sample \in Nat /\ t.retry \in Nat
  <2>1. cfg.samples \in Nat /\ cfg.retries \in Nat
    BY Resolved
  <2>2. t \in Job /\ seq \in Nat
    BY DEF TypeInv
  <2>3. /\ t.mode \in Range(cfg.modes) /\ t.size \in Nat /\ t.base \in Nat /\ t.stack \in Stacks
        /\ t.sample \in 0..(cfg.samples - 1) /\ t.retry \in 0..cfg.retries /\ t.tries \in Seq(Published)
    BY <2>2 DEF Job
  <2>4. t.sample \in Nat /\ t.retry \in Nat
    BY <2>1, <2>3
  <2> QED BY <2>1, <2>2, <2>3, <2>4
<1>2. SeqNo(t) \in Nat
  <2>1. t.base \in Nat /\ t.sample \in Nat /\ seq \in Nat
    BY <1>1
  <2>2. t.base + t.sample \in Nat
    BY <2>1
  <2> QED BY <2>1, <2>2 DEF SeqNo
<1>3. /\ try \in Published /\ try.seq = SeqNo(t) /\ try.sample = t.sample /\ try.ok = ok
      /\ try.retry = t.retry
  <2>1. try = [seq |-> SeqNo(t), mode |-> t.mode, bytes |-> bytes, ok |-> ok, retry |-> t.retry,
               sample |-> t.sample, stack |-> t.stack, phase |-> "none"]
    BY DEF Attempt
  <2>2. "none" \in Tags
    BY DEF Tags
  <2>3. try \in Published
    BY <1>1, <1>2, <2>1, <2>2 DEF Published
  <2> HIDE DEF try
  <2> QED BY <2>1, <2>3
<1> HIDE DEF try
<1>4. /\ tries \in Seq(Published) /\ n \in Nat /\ Len(tries) = n + 1
      /\ \A i \in 1..n : tries[i] = t.tries[i]
      /\ tries[n + 1] = try
  BY <1>1, <1>3, AppendProperties, LenProperties DEF try
<1>5. DOMAIN t.tries = 1..n /\ DOMAIN tries = 1..(n + 1)
  BY <1>1, <1>4, LenProperties
<1> HIDE DEF n
<1>6. Tried(t) /\ Numbered(t)
  BY DEF TaskInv, NumberInv
<1>7. \A i \in DOMAIN tries : i \in DOMAIN t.tries \/ i = n + 1
  BY <1>4, <1>5
<1>8. \A i \in DOMAIN tries : tries[i].sample \in 0..t.sample
  BY <1>1, <1>3, <1>4, <1>5, <1>6, <1>7 DEF Tried
<1>9. ASSUME NEW s \in 0..(t.sample - 1)
      PROVE \E i \in DOMAIN tries : LastTry(tries, s, i) /\ Settled(tries[i])
  <2>1. PICK i \in DOMAIN t.tries : LastTry(t.tries, s, i) /\ Settled(t.tries[i])
    BY <1>6 DEF Tried
  <2>2. s # t.sample
    BY <1>1
  <2>3. i \in DOMAIN tries /\ tries[i] = t.tries[i]
    BY <1>4, <1>5
  <2>4. LastTry(tries, s, i)
    BY <1>3, <1>4, <1>5, <1>7, <2>1, <2>2, <2>3 DEF LastTry
  <2> QED BY <2>1, <2>3, <2>4
<1>10. ASSUME ~Again(t, ok) PROVE \E i \in DOMAIN tries : LastTry(tries, t.sample, i) /\ Settled(tries[i])
  <2>1. ok \/ t.retry = cfg.retries
    BY <1>1, <1>10 DEF Again
  <2>2. Settled(tries[n + 1])
    BY <1>3, <1>4, <2>1 DEF Settled
  <2>3. n + 1 \in DOMAIN tries /\ \A j \in DOMAIN tries : j <= n + 1
    BY <1>4, <1>5
  <2>4. LastTry(tries, t.sample, n + 1)
    BY <1>3, <1>4, <2>3 DEF LastTry
  <2> QED BY <2>2, <2>3, <2>4
<1>11. ASSUME t.stack = "none" PROVE \A i \in DOMAIN tries : tries[i].seq = t.base + tries[i].sample
  BY <1>3, <1>4, <1>5, <1>6, <1>7, <1>11 DEF Numbered, SeqNo
<1>12. ASSUME t.stack # "none"
       PROVE  /\ \A i \in DOMAIN tries : tries[i].seq < seq + 1
              /\ \A i, j \in DOMAIN tries : i < j => tries[i].seq < tries[j].seq
              /\ \A k \in DOMAIN tries :
                   (k \in DOMAIN t.tries /\ tries[k] = t.tries[k]) \/ tries[k].seq = seq
  <2>1. try.seq = seq
    BY <1>3, <1>12 DEF SeqNo
  <2>2. /\ \A i \in DOMAIN t.tries : t.tries[i].seq < seq
        /\ \A i, j \in DOMAIN t.tries : i < j => t.tries[i].seq < t.tries[j].seq
    BY <1>6, <1>12 DEF Numbered
  <2>3. \A i \in DOMAIN t.tries : t.tries[i].seq \in Nat
    <3>1. \A i \in DOMAIN t.tries : t.tries[i] \in Published
      BY <1>1, <1>5, ElementOfSeq DEF n
    <3> QED BY <3>1 DEF Published
  <2>4. ASSUME NEW i \in DOMAIN tries PROVE tries[i].seq < seq + 1
    <3>1. CASE i \in DOMAIN t.tries
      <4>1. tries[i].seq = t.tries[i].seq
        BY <1>4, <1>5, <3>1
      <4>2. t.tries[i].seq < seq /\ t.tries[i].seq \in Nat
        BY <2>2, <2>3, <3>1
      <4> QED BY <1>1, <4>1, <4>2, SMTT(30)
    <3>2. CASE i = n + 1
      BY <1>1, <1>4, <2>1, <3>2
    <3> QED BY <1>7, <3>1, <3>2
  <2>5. ASSUME NEW i \in DOMAIN tries, NEW j \in DOMAIN tries, i < j PROVE tries[i].seq < tries[j].seq
    <3>1. i \in DOMAIN t.tries
      BY <1>4, <1>5, <1>7, <2>5
    <3>2. CASE j \in DOMAIN t.tries
      BY <1>4, <1>5, <2>2, <2>5, <3>1, <3>2
    <3>3. CASE j = n + 1
      BY <1>4, <1>5, <2>1, <2>2, <3>1, <3>3
    <3> QED BY <1>7, <3>2, <3>3
  <2>6. \A k \in DOMAIN tries : (k \in DOMAIN t.tries /\ tries[k] = t.tries[k]) \/ tries[k].seq = seq
    BY <1>4, <1>5, <1>7, <2>1
  <2> QED BY <2>4, <2>5, <2>6
<1> QED BY <1>4, <1>8, <1>9, <1>10, <1>11, <1>12 DEF Extended

LEMMA EndTryInv ==
  ASSUME RunInv, NEW t \in active, NEW ok \in BOOLEAN, NEW bytes \in Nat, EndTry(t, ok, bytes)
  PROVE  RunInv'
<1> DEFINE S == cfg.samples
<1>1. PICK tries : tries = Append(t.tries, Attempt(SeqNo(t), t.mode, bytes, ok, t.retry, t.sample, t.stack))
  OBVIOUS
<1>2. /\ tries \in Seq(Published)
      /\ \A i \in DOMAIN tries : tries[i].sample \in 0..t.sample
      /\ \A s \in 0..(t.sample - 1) : \E i \in DOMAIN tries : LastTry(tries, s, i) /\ Settled(tries[i])
      /\ ~Again(t, ok) => \E i \in DOMAIN tries : LastTry(tries, t.sample, i) /\ Settled(tries[i])
      /\ t.stack = "none" => \A i \in DOMAIN tries : tries[i].seq = t.base + tries[i].sample
      /\ t.stack # "none" =>
           /\ \A i \in DOMAIN tries : tries[i].seq < seq + 1
           /\ \A i, j \in DOMAIN tries : i < j => tries[i].seq < tries[j].seq
           /\ \A k \in DOMAIN tries :
                (k \in DOMAIN t.tries /\ tries[k] = t.tries[k]) \/ tries[k].seq = seq
  <2>1. Extended(t, ok, tries)
    BY <1>1, OneMoreTry
  <2> QED BY <2>1 DEF Extended
<1>3. ConfigOK /\ TypeInv /\ TaskInv
  BY DEF RunInv
<1>4. S \in Nat /\ S >= 1 /\ cfg.retries \in Nat
  BY <1>3, Resolved
<1>5. t \in Job /\ seq \in Nat /\ progress \in Nat
  BY <1>3 DEF TypeInv
<1>6. /\ t.retry \in 0..cfg.retries /\ t.sample \in 0..(S - 1) /\ t.retry \in Nat /\ t.sample \in Nat
  <2>1. t.retry \in 0..cfg.retries /\ t.sample \in 0..(S - 1)
    BY <1>5 DEF Job
  <2> QED BY <1>4, <2>1
<1>7. Tried(t) /\ (t.stack = "none" <=> pc # "stacks")
  BY <1>3 DEF TaskInv, Tried
<1>8. /\ seq' = (IF t.stack = "none" THEN seq ELSE seq + 1)
      /\ UNCHANGED <<cfg, pc, queue, attempts, iters, counts, plan, warm, asked, todo, up>>
  BY DEF EndTry
<1>9. seq' \in Nat /\ seq <= seq' /\ (pc # "stacks" => seq' = seq)
  BY <1>5, <1>7, <1>8
<1>10. pc = "stacks" => \A k \in DOMAIN tries :
         (k \in DOMAIN t.tries /\ tries[k] = t.tries[k]) \/ tries[k].seq = seq
  BY <1>2, <1>7
<1>11. ASSUME NEW u, u.tries = tries, u.base = t.base, u.stack = t.stack PROVE Numbered(u)'
  <2>1. CASE t.stack = "none"
    BY <1>2, <1>11, <2>1 DEF Numbered
  <2>2. CASE t.stack # "none"
    BY <1>2, <1>8, <1>11, <2>2 DEF Numbered
  <2> QED BY <2>1, <2>2
<1>12. CASE /\ Again(t, ok) /\ UNCHANGED <<batch, progress>>
            /\ active' = (active \ {t}) \cup {[t EXCEPT !.retry = @ + 1, !.tries = tries, !.st = "ready"]}
  <2>1. PICK u : u = [t EXCEPT !.retry = t.retry + 1, !.tries = tries, !.st = "ready"]
    OBVIOUS
  <2>2. t.retry + 1 \in 0..cfg.retries
    BY <1>4, <1>6, <1>12 DEF Again
  <2>3. u \in Job
    BY <1>2, <1>5, <2>1, <2>2 DEF Job
  <2>4. /\ u.base = t.base /\ u.mode = t.mode /\ u.stack = t.stack /\ u.tries = tries
        /\ u.sample = t.sample
    BY <1>5, <2>1 DEF Job
  <2>5. Tried(u)
    BY <1>2, <1>7, <2>4 DEF Tried
  <2>6. active' = (active \ {t}) \cup {u}
    BY <1>12, <2>1
  <2>7. Numbered(u)'
    BY <1>11, <2>4
  <2> QED BY <1>8, <1>9, <1>10, <1>12, <2>3, <2>4, <2>5, <2>6, <2>7, GoesOn
<1>13. CASE /\ ~Again(t, ok) /\ t.sample + 1 < S /\ UNCHANGED <<batch, progress>>
            /\ active' = (active \ {t}) \cup {[t EXCEPT !.retry = 0, !.sample = @ + 1,
                                                       !.tries = tries, !.st = "ready"]}
  <2>1. PICK u : u = [t EXCEPT !.retry = 0, !.sample = t.sample + 1, !.tries = tries, !.st = "ready"]
    OBVIOUS
  <2>2. t.sample + 1 \in 0..(S - 1) /\ 0 \in 0..cfg.retries
    BY <1>4, <1>6, <1>13
  <2>3. u \in Job
    BY <1>2, <1>5, <2>1, <2>2 DEF Job
  <2>4. /\ u.base = t.base /\ u.mode = t.mode /\ u.stack = t.stack /\ u.tries = tries
        /\ u.sample = t.sample + 1
    BY <1>5, <2>1 DEF Job
  <2>5. Tried(u)
    <3>1. \A i \in DOMAIN tries : tries[i].sample \in 0..(t.sample + 1)
      BY <1>2, <1>6
    <3>2. ASSUME NEW s \in 0..t.sample
          PROVE \E i \in DOMAIN tries : LastTry(tries, s, i) /\ Settled(tries[i])
      <4>1. s \in 0..(t.sample - 1) \/ s = t.sample
        BY <1>6
      <4> QED BY <1>2, <1>13, <4>1
    <3>3. u.sample - 1 = t.sample
      BY <1>6, <2>4
    <3>4. \A i \in DOMAIN u.tries : u.tries[i].sample \in 0..u.sample
      BY <2>4, <3>1
    <3>5. \A s \in 0..(u.sample - 1) : \E i \in DOMAIN u.tries : LastTry(u.tries, s, i) /\ Settled(u.tries[i])
      BY <2>4, <3>2, <3>3
    <3> QED BY <1>7, <2>4, <3>4, <3>5 DEF Tried
  <2>6. active' = (active \ {t}) \cup {u}
    BY <1>13, <2>1
  <2>7. Numbered(u)'
    BY <1>11, <2>4
  <2> QED BY <1>8, <1>9, <1>10, <1>13, <2>3, <2>4, <2>5, <2>6, <2>7, GoesOn
<1>14. CASE /\ ~Again(t, ok) /\ ~(t.sample + 1 < S)
            /\ active' = active \ {t} /\ batch' = batch \o published_logical_attempts(tries)
            /\ progress' = IF t.stack = "none" THEN progress ELSE progress + Len(tries)
  <2>1. PICK u : u = [t EXCEPT !.tries = tries]
    OBVIOUS
  <2>2. u \in Job /\ u.base = t.base /\ u.stack = t.stack /\ u.tries = tries
    BY <1>2, <1>5, <2>1 DEF Job
  <2>3. t.sample = S - 1
    BY <1>4, <1>6, <1>14
  <2>4. \A i \in DOMAIN tries : tries[i].sample \in 0..(S - 1)
    BY <1>2, <2>3
  <2>5. ASSUME NEW s \in 0..(S - 1)
        PROVE \E i \in DOMAIN tries : LastTry(tries, s, i) /\ Settled(tries[i])
    <3>1. s \in 0..(t.sample - 1) \/ s = t.sample
      BY <1>6, <2>3
    <3> QED BY <1>2, <1>14, <3>1
  <2>6. progress' \in Nat /\ progress <= progress'
    <3>1. Len(tries) \in Nat
      BY <1>2, LenProperties
    <3>2. progress' = progress \/ progress' = progress + Len(tries)
      BY <1>14
    <3> QED BY <1>5, <3>1, <3>2
  <2>7. Numbered(u)'
    BY <1>11, <2>2
  <2> HIDE DEF S
  <2>8. /\ \A i \in DOMAIN u.tries : u.tries[i].sample \in 0..(S - 1)
        /\ \A s \in 0..(S - 1) : \E i \in DOMAIN u.tries : LastTry(u.tries, s, i) /\ Settled(u.tries[i])
        /\ batch' = batch \o published_logical_attempts(u.tries)
        /\ pc = "stacks" => \A k \in DOMAIN u.tries :
             (k \in DOMAIN t.tries /\ u.tries[k] = t.tries[k]) \/ u.tries[k].seq = seq
    BY <1>10, <1>14, <2>2, <2>4, <2>5
  <2> QED BY <1>8, <1>9, <1>14, <2>2, <2>6, <2>7, <2>8, BurstEnds DEF S
<1> QED
  <2> HIDE DEF S
  <2>1. \/ /\ Again(t, ok) /\ UNCHANGED <<batch, progress>>
           /\ active' = (active \ {t}) \cup {[t EXCEPT !.retry = @ + 1, !.tries = tries, !.st = "ready"]}
        \/ /\ ~Again(t, ok) /\ t.sample + 1 < S /\ UNCHANGED <<batch, progress>>
           /\ active' = (active \ {t}) \cup {[t EXCEPT !.retry = 0, !.sample = @ + 1,
                                                       !.tries = tries, !.st = "ready"]}
        \/ /\ ~Again(t, ok) /\ ~(t.sample + 1 < S)
           /\ active' = active \ {t} /\ batch' = batch \o published_logical_attempts(tries)
           /\ progress' = IF t.stack = "none" THEN progress ELSE progress + Len(tries)
    BY <1>1 DEF EndTry, S
  <2> QED BY <1>12, <1>13, <1>14, <2>1

\* The task asks for the origin's answer, or is allowed to probe.
LEMMA StatusInv ==
  ASSUME RunInv, NEW t \in active, NEW st \in {"ready", "asking", "allowed"},
         active' = (active \ {t}) \cup {[t EXCEPT !.st = st]},
         UNCHANGED <<cfg, pc, seq, queue, batch, attempts, iters, counts, plan, warm, todo, up, progress>>
  PROVE  RunInv'
<1>1. t \in Job /\ seq \in Nat /\ Tried(t) /\ Numbered(t)
  BY DEF RunInv, TypeInv, TaskInv, NumberInv
<1>2. PICK u : u = [t EXCEPT !.st = st]
  OBVIOUS
<1>3. u \in Job
  BY <1>1, <1>2 DEF Job
<1>4. /\ u.base = t.base /\ u.mode = t.mode /\ u.stack = t.stack /\ u.tries = t.tries
      /\ u.sample = t.sample
  BY <1>1, <1>2 DEF Job
<1>5. Tried(u)
  BY <1>1, <1>4 DEF Tried
<1>6. Numbered(u)'
  BY <1>1, <1>4 DEF Numbered
<1>7. active' = (active \ {t}) \cup {u}
  BY <1>2
<1>8. seq' \in Nat /\ seq <= seq' /\ seq' = seq
  BY <1>1
<1> QED BY <1>3, <1>4, <1>5, <1>6, <1>7, <1>8, GoesOn

LEMMA ProbingInv ==
  ASSUME RunInv, NEW t \in active,
         \/ DiscoverMiss(t)
         \/ \E offer \in {"advertised", "not_offered", "unknown"} : DiscoverAnswer(t, offer)
         \/ \E ok \in BOOLEAN : Dispatch(t, ok)
  PROVE  RunInv'
<1>1. CASE DiscoverMiss(t)
  BY <1>1, StatusInv DEF DiscoverMiss
<1>2. ASSUME NEW offer \in {"advertised", "not_offered", "unknown"}, DiscoverAnswer(t, offer) PROVE RunInv'
  <2>1. CASE offer = "not_offered"
    <3>1. EndTry(t, FALSE, NoSize) /\ NoSize \in Nat
      BY <1>2, <2>1 DEF DiscoverAnswer, NoSize
    <3> QED BY <3>1, EndTryInv
  <2>2. CASE offer # "not_offered"
    BY <1>2, <2>2, StatusInv DEF DiscoverAnswer
  <2> QED BY <2>1, <2>2
<1>3. ASSUME NEW ok \in BOOLEAN, Dispatch(t, ok) PROVE RunInv'
  <2>1. NoSize \in Nat /\ t.size \in Nat
    BY DEF NoSize, RunInv, TypeInv, Job
  <2>2. CASE EndTry(t, FALSE, NoSize)
    BY <2>1, <2>2, EndTryInv
  <2>3. CASE EndTry(t, ok, IF ok THEN t.size ELSE NoSize)
    <3>1. PICK bytes \in Nat : bytes = IF ok THEN t.size ELSE NoSize
      BY <2>1
    <3>2. EndTry(t, ok, bytes)
      BY <2>3, <3>1
    <3> QED BY <3>2, EndTryInv
  <2> QED BY <1>3, <2>2, <2>3 DEF Dispatch
<1> QED BY <1>1, <1>2, <1>3

-----------------------------------------------------------------------------
(***************************************************************************)
(* Between iterations.                                                     *)
(***************************************************************************)
\* With nothing under way, the attempts published carry the whole invariant.
LEMMA AtRest ==
  ConfigOK /\ TypeInv /\ Quiet =>
    /\ Owed = 0 /\ ModesIsolated
    /\ (\A i \in DOMAIN attempts : Warmed < i => Settled(attempts[i])) => TaskInv
    /\ Addressable(attempts) /\ (\A i \in DOMAIN attempts : attempts[i].seq < seq) => NumberInv
<1> SUFFICES ASSUME ConfigOK, TypeInv, Quiet
             PROVE  /\ Owed = 0 /\ ModesIsolated
                    /\ (\A i \in DOMAIN attempts : Warmed < i => Settled(attempts[i])) => TaskInv
                    /\ Addressable(attempts) /\ (\A i \in DOMAIN attempts : attempts[i].seq < seq) => NumberInv
  OBVIOUS
<1>1. queue = <<>> /\ active = {} /\ batch = <<>>
  BY DEF Quiet
<1>2. DOMAIN queue = {} /\ DOMAIN batch = {} /\ Len(queue) = 0
  BY <1>1
<1>3. Owed = 0
  BY QuietOwesNothing
<1>4. ModesIsolated
  BY <1>1, Resolved, FS_EmptySet DEF ModesIsolated
<1>5. (\A i \in DOMAIN attempts : Warmed < i => Settled(attempts[i])) => TaskInv
  BY <1>1, <1>2 DEF TaskInv
<1>6. ASSUME Addressable(attempts), \A i \in DOMAIN attempts : attempts[i].seq < seq
      PROVE  NumberInv
  <2>1. SeqUnique
    BY <1>2, <1>6, Unique DEF Addressable, Distinct
  <2>2. Floor = seq
    <3>1. cfg.samples * 0 = 0 /\ seq \in Nat
      BY Resolved, OneMore DEF TypeInv
    <3> QED BY <1>2, <3>1 DEF Floor
  <2> QED BY <1>1, <1>2, <1>6, <2>1, <2>2 DEF NumberInv
<1> QED BY <1>3, <1>4, <1>5, <1>6

LEMMA AtRestNext ==
  ASSUME ConfigOK', TypeInv', Quiet'
  PROVE  /\ Owed' = 0 /\ ModesIsolated'
         /\ (\A i \in DOMAIN attempts : Warmed < i => Settled(attempts[i]))' => TaskInv'
         /\ Addressable(attempts)' /\ (\A i \in DOMAIN attempts : attempts[i].seq < seq)' => NumberInv'
<1>1. (ConfigOK /\ TypeInv /\ Quiet =>
        /\ Owed = 0 /\ ModesIsolated
        /\ (\A i \in DOMAIN attempts : Warmed < i => Settled(attempts[i])) => TaskInv
        /\ Addressable(attempts) /\ (\A i \in DOMAIN attempts : attempts[i].seq < seq) => NumberInv)'
  BY AtRest, PTL
<1> QED BY <1>1

\* What the invariant says of them.
LEMMA RestingFacts ==
  ASSUME RunInv
  PROVE  /\ \A i \in DOMAIN attempts : Warmed < i => Settled(attempts[i])
         /\ Addressable(attempts)
         /\ \A i \in DOMAIN attempts : attempts[i].seq < seq
<1>1. Addressable(attempts)
  BY Unique DEF RunInv, NumberInv
<1> QED BY <1>1 DEF RunInv, TaskInv, NumberInv

-----------------------------------------------------------------------------
(***************************************************************************)
(* An iteration begins: its tasks are queued, and started one by one.      *)
(***************************************************************************)
\* What a queue and the tasks under way need of their numbers.
LEMMA StartNumbered ==
  ASSUME ConfigOK, TypeInv, NumberInv, TaskInv, StartTask
  PROVE  NumberInv' /\ Head(queue) \notin active
<1> DEFINE S == cfg.samples
           h == Head(queue)
           n == Len(queue)
<1>1. /\ queue # <<>> /\ Joins(h) /\ active' = active \cup {h} /\ queue' = Tail(queue)
      /\ UNCHANGED <<cfg, pc, seq, batch, attempts>>
  BY DEF StartTask
<1>2. queue \in Seq(Job) /\ seq \in Nat /\ S \in Nat /\ S >= 1
  BY Resolved DEF TypeInv
<1>3. /\ h \in Job /\ h = queue[1] /\ Tail(queue) \in Seq(Job) /\ n \in Nat /\ n >= 1
      /\ Len(Tail(queue)) = n - 1 /\ DOMAIN queue = 1..n /\ DOMAIN Tail(queue) = 1..(n - 1)
      /\ \A j \in 1..(n - 1) : Tail(queue)[j] = queue[j + 1]
  <2>1. n \in Nat /\ DOMAIN queue = 1..n
    BY <1>2, LenProperties
  <2>2. n # 0
    BY <1>1, <1>2, EmptySeq
  <2>3. /\ h \in Job /\ Tail(queue) \in Seq(Job) /\ Len(Tail(queue)) = n - 1
        /\ \A j \in 1..(n - 1) : Tail(queue)[j] = queue[j + 1]
    BY <1>1, <1>2, HeadTailProperties
  <2>4. h = queue[1]
    BY <1>1, <1>2
  <2>5. DOMAIN Tail(queue) = 1..(n - 1)
    BY <2>3, LenProperties
  <2>6. n >= 1
    BY <2>1, <2>2
  <2> HIDE DEF n, h
  <2> QED BY <2>1, <2>3, <2>4, <2>5, <2>6
<1>4. Untried(h)
  BY <1>3 DEF TaskInv
<1> HIDE DEF h
<1>5. h.base \in Nat /\ h.tries = <<>>
  BY <1>3, <1>4 DEF Job, Untried
<1>6. S * n \in Nat /\ S * (n - 1) \in Nat /\ S * n = S * (n - 1) + S
  <2>1. n - 1 \in Nat /\ n = (n - 1) + 1
    BY <1>3
  <2> HIDE DEF n, S
  <2> QED BY <1>2, <1>3, <2>1, OneMore, Product
<1>7. Floor = seq - S * n /\ Floor' = seq - S * (n - 1) /\ Floor' = Floor + S /\ Floor \in Int
  <2>1. Floor = seq - S * n
    BY DEF Floor
  <2>2. Floor' = seq - S * (n - 1)
    BY <1>1, <1>3 DEF Floor
  <2> HIDE DEF n, S
  <2> QED BY <1>2, <1>6, <2>1, <2>2
<1>8. ASSUME pc # "stacks" PROVE h.base = Floor /\ h \notin active
  <2>1. h.base = seq - S * (n - 1 + 1)
    BY <1>3, <1>8 DEF NumberInv
  <2>2. n - 1 + 1 = n
    BY <1>3
  <2>3. h.base = Floor
    BY <1>7, <2>1, <2>2
  <2>4. h \notin active
    <3>1. SUFFICES ASSUME h \in active PROVE FALSE
      OBVIOUS
    <3>2. h.base + S <= Floor
      BY <1>8, <3>1 DEF NumberInv
    <3> HIDE DEF S
    <3> QED BY <1>2, <1>5, <2>3, <3>2
  <2> QED BY <2>3, <2>4
<1>9. pc = "stacks" => active = {}
  BY <1>1 DEF Joins
<1>10. SeqUnique'
  BY <1>1 DEF NumberInv, SeqUnique
<1>11. ASSUME NEW v \in active' PROVE Numbered(v)'
  <2>1. CASE v = h
    BY <1>5, <2>1 DEF Numbered
  <2>2. CASE v # h
    BY <1>1, <2>2 DEF NumberInv, Numbered
  <2> QED BY <2>1, <2>2
<1>12. ASSUME pc # "stacks", NEW j \in DOMAIN queue'
       PROVE  queue'[j].base = seq' - S * (Len(queue') - j + 1)
  <2>1. j \in 1..(n - 1) /\ queue'[j] = queue[j + 1]
    BY <1>1, <1>3
  <2>2. queue[j + 1].base = seq - S * (n - (j + 1) + 1)
    <3>1. j + 1 \in DOMAIN queue
      BY <1>3, <2>1
    <3> QED BY <1>12, <3>1 DEF NumberInv
  <2>3. n - (j + 1) + 1 = (n - 1) - j + 1
    BY <1>3, <2>1
  <2> QED BY <1>1, <1>3, <2>1, <2>2, <2>3
<1>13. ASSUME pc # "stacks", NEW v \in active' PROVE v.base + S <= Floor' /\ v.base \in Nat
  <2>1. CASE v = h
    <3> HIDE DEF S
    <3> QED BY <1>2, <1>5, <1>7, <1>8, <1>13, <2>1
  <2>2. CASE v # h
    <3>1. v \in active /\ v.base \in Nat
      BY <1>1, <2>2 DEF TypeInv, Job
    <3>2. v.base + S <= Floor
      BY <1>13, <3>1 DEF NumberInv
    <3> HIDE DEF S
    <3> QED BY <1>2, <1>7, <3>1, <3>2
  <2> QED BY <2>1, <2>2
<1>14. ASSUME pc # "stacks", NEW v \in active', NEW w \in active', v # w PROVE Apart(v.base, w.base)
  <2>1. CASE v = h
    <3>1. w \in active
      BY <1>1, <1>14, <2>1
    <3>2. w.base + S <= h.base
      BY <1>8, <1>14, <3>1 DEF NumberInv
    <3> QED BY <2>1, <3>2 DEF Apart
  <2>2. CASE w = h
    <3>1. v \in active
      BY <1>1, <1>14, <2>2
    <3>2. v.base + S <= h.base
      BY <1>8, <1>14, <3>1 DEF NumberInv
    <3> QED BY <2>2, <3>2 DEF Apart
  <2>3. CASE v # h /\ w # h
    BY <1>1, <1>14, <2>3 DEF NumberInv
  <2> QED BY <2>1, <2>2, <2>3
<1>15. ASSUME NEW as \in {attempts, batch}, NEW i \in DOMAIN as
       PROVE  /\ as[i].seq < seq
              /\ pc # "stacks" => /\ as[i].seq < Floor'
                                  /\ \A v \in active' : as[i].seq < v.base \/ v.base + S <= as[i].seq
              /\ pc = "stacks" => \A v \in active' : \A k \in DOMAIN v.tries : as[i].seq < v.tries[k].seq
  <2>1. as[i].seq < seq
    BY DEF NumberInv
  <2>2. ASSUME pc # "stacks" PROVE as[i].seq < Floor'
    <3>1. as[i].seq < Floor
      BY <2>2 DEF NumberInv
    <3>2. as[i].seq \in Nat
      <4>1. as \in Seq(Published)
        BY DEF TypeInv
      <4>2. as[i] \in Published
        BY <4>1, ElementOfSeq, LenProperties
      <4> QED BY <4>2 DEF Published
    <3> DEFINE x == as[i].seq
    <3>3. x < Floor /\ x \in Nat
      BY <3>1, <3>2
    <3> HIDE DEF x, S
    <3>4. x < Floor'
      BY <1>2, <1>7, <3>3
    <3> QED BY <3>4 DEF x
  <2>3. ASSUME pc # "stacks", NEW v \in active' PROVE as[i].seq < v.base \/ v.base + S <= as[i].seq
    <3>1. CASE v = h
      <4>1. as[i].seq < Floor
        BY <2>3 DEF NumberInv
      <4> QED BY <1>8, <2>3, <3>1, <4>1
    <3>2. CASE v # h
      BY <1>1, <2>3, <3>2 DEF NumberInv
    <3> QED BY <3>1, <3>2
  <2>4. ASSUME pc = "stacks", NEW v \in active', NEW k \in DOMAIN v.tries PROVE FALSE
    <3>1. v.tries = <<>>
      BY <1>1, <1>5, <1>9, <2>4
    <3> QED BY <2>4, <3>1
  <2> QED BY <2>1, <2>2, <2>3, <2>4
<1>16. \A v, w \in active' : Apart(v.base, w.base)' <=> Apart(v.base, w.base)
  BY <1>1 DEF Apart
<1>17. NumberInv'
  BY <1>1, <1>10, <1>11, <1>12, <1>13, <1>14, <1>15, <1>16 DEF NumberInv
<1> QED BY <1>8, <1>9, <1>17 DEF h

LEMMA StartTaskInv ==
  ASSUME RunInv, StartTask PROVE RunInv'
<1> DEFINE S == cfg.samples
           h == Head(queue)
<1>1. /\ ConfigOK /\ TypeInv /\ CountInv /\ TaskInv /\ NumberInv /\ ModesIsolated /\ PhaseInv /\ StopInv
  BY DEF RunInv
<1>2. /\ queue # <<>> /\ Joins(h) /\ active' = active \cup {h} /\ queue' = Tail(queue)
      /\ UNCHANGED <<cfg, pc, seq, batch, attempts, iters, counts, plan, warm, todo, up, progress>>
  BY DEF StartTask
<1>3. ConfigOK'
  BY <1>1, <1>2, ConfigKept
<1>4. NumberInv' /\ h \notin active
  BY <1>1, StartNumbered
<1>5. /\ h \in Job /\ Tail(queue) \in Seq(Job) /\ Len(Tail(queue)) = Len(queue) - 1
      /\ \A j \in DOMAIN Tail(queue) : \E k \in DOMAIN queue : Tail(queue)[j] = queue[k]
      /\ Untried(h) /\ Len(queue) \in Nat
  <2>1. queue \in Seq(Job) /\ Len(queue) \in Nat /\ DOMAIN queue = 1..Len(queue)
    BY <1>1, LenProperties DEF TypeInv
  <2>2. /\ h \in Job /\ Tail(queue) \in Seq(Job) /\ Len(Tail(queue)) = Len(queue) - 1
        /\ \A j \in 1..Len(Tail(queue)) : Tail(queue)[j] = queue[j + 1]
    BY <1>2, <2>1, HeadTailProperties
  <2>3. DOMAIN Tail(queue) = 1..(Len(queue) - 1)
    BY <2>2, LenProperties
  <2>4. \A j \in DOMAIN Tail(queue) : j + 1 \in DOMAIN queue
    BY <2>1, <2>3
  <2>5. Len(queue) # 0
    BY <1>2, <2>1, EmptySeq
  <2>6. h = queue[1] /\ 1 \in DOMAIN queue
    BY <1>2, <2>1, <2>5
  <2>7. Untried(h)
    BY <1>1, <2>6 DEF TaskInv
  <2>8. \A j \in DOMAIN Tail(queue) : \E k \in DOMAIN queue : Tail(queue)[j] = queue[k]
    BY <2>2, <2>3, <2>4
  <2> QED BY <2>1, <2>2, <2>7, <2>8
<1> HIDE DEF h
<1>6. /\ IsFiniteSet(active') /\ Cardinality(active') = Cardinality(active) + 1
      /\ Cardinality(active) \in Nat
  BY <1>1, <1>2, <1>4, FS_AddElement, FS_CardinalityType DEF TypeInv
<1>7. TypeInv'
  <2>1. Job' = Job /\ Published' = Published
    BY <1>2 DEF Job, Published, Stacks, Tags
  <2> QED BY <1>1, <1>2, <1>5, <1>6, <2>1 DEF TypeInv, Plan
<1>8. CountInv'
  <2>1. Len(queue') + Cardinality(active') = Len(queue) + Cardinality(active)
    BY <1>2, <1>5, <1>6
  <2>2. Owed' = Owed
    BY <1>2, <2>1 DEF Owed
  <2>3. progress' \in Nat /\ progress <= progress'
    BY <1>1, <1>2 DEF TypeInv
  <2> QED BY <1>1, <1>2, <2>2, <2>3, CountKept
<1>9. TaskInv'
  <2>1. Warmed' = Warmed
    BY <1>2, SameEnds
  <2>2. ASSUME NEW v \in active' PROVE Tried(v)'
    <3>1. Tried(v)
      <4>1. CASE v = h
        <5>1. h.tries = <<>> /\ h.sample = 0 /\ (h.stack = "none" <=> pc # "stacks")
          BY <1>5 DEF Untried
        <5>2. 0..(0 - 1) = {}
          OBVIOUS
        <5> QED BY <4>1, <5>1, <5>2 DEF Tried
      <4>2. CASE v # h
        BY <1>1, <1>2, <4>2 DEF TaskInv
      <4> QED BY <4>1, <4>2
    <3> QED BY <1>2, <3>1 DEF Tried, LastTry, Settled
  <2>3. \A j \in DOMAIN queue' : Untried(queue[j])'
    BY <1>1, <1>2, <1>5 DEF TaskInv, Untried
  <2>4. (\A i \in DOMAIN batch' : Settled(batch[i])')
        /\ \A i \in DOMAIN attempts' : Warmed < i => Settled(attempts[i])'
    BY <1>1, <1>2 DEF TaskInv, Settled
  <2> QED BY <2>1, <2>2, <2>3, <2>4 DEF TaskInv
<1>10. ModesIsolated'
  <2>1. CASE pc = "stacks"
    <3>1. active = {}
      BY <1>2, <2>1 DEF Joins
    <3>2. Cardinality(active) = 0
      BY <3>1, FS_EmptySet
    <3>3. Cardinality(active') <= 1 /\ \A v, w \in active' : v.mode = w.mode
      BY <1>2, <1>6, <3>1, <3>2
    <3> QED BY <1>2, <2>1, <3>3 DEF ModesIsolated
  <2>2. CASE pc # "stacks"
    <3>1. Cardinality(active) < cfg.concurrency /\ \A v \in active : v.mode = h.mode
      BY <1>2, <2>2 DEF Joins
    <3>2. cfg.concurrency \in Nat
      BY <1>1, Resolved
    <3>3. Cardinality(active') <= cfg.concurrency
      BY <1>6, <3>1, <3>2
    <3>4. \A v, w \in active' : v.mode = w.mode
      BY <1>2, <3>1
    <3> QED BY <1>2, <2>2, <3>3, <3>4 DEF ModesIsolated
  <2> QED BY <2>1, <2>2
<1>11. PhaseInv'
  BY <1>1, <1>2, PhaseKept
<1>12. StopInv'
  <2>1. ~Quiet /\ progress' \in Nat /\ progress <= progress'
    BY <1>1, <1>2 DEF Quiet, TypeInv
  <2> QED BY <1>1, <1>2, <2>1, StopKept
<1> QED BY <1>3, <1>4, <1>7, <1>8, <1>9, <1>10, <1>11, <1>12 DEF RunInv

\* The tasks of an iteration and of a stack.
LEMMA IterationTyped ==
  ASSUME ConfigOK, TypeInv
  PROVE  /\ IterationTasks \in Seq(Job) /\ Len(IterationTasks) = Width
         /\ \A j \in 1..Width :
              /\ IterationTasks[j].base = seq + (j - 1) * cfg.samples
              /\ IterationTasks[j].sample = 0 /\ IterationTasks[j].retry = 0
              /\ IterationTasks[j].tries = <<>> /\ IterationTasks[j].st = "ready"
              /\ IterationTasks[j].stack = "none"
<1> DEFINE q == IterationTasks
<1>1. /\ cfg.samples \in Nat /\ cfg.samples >= 1 /\ cfg.retries \in Nat /\ Width \in Nat
      /\ DOMAIN Tasks = 1..Width /\ seq \in Nat
  BY Resolved DEF TypeInv
<1>2. q = [i \in 1..Width |-> Task(Tasks[i].mode, Tasks[i].size, seq + (i - 1) * cfg.samples, "none")]
  BY <1>1 DEF IterationTasks, Tasks
<1>3. ASSUME NEW j \in 1..Width
      PROVE  /\ q[j] \in Job /\ q[j].base = seq + (j - 1) * cfg.samples
             /\ q[j].sample = 0 /\ q[j].retry = 0 /\ q[j].tries = <<>> /\ q[j].st = "ready"
             /\ q[j].stack = "none"
  <2>1. Tasks[j] \in [mode : Range(cfg.modes), size : Nat]
    BY <1>1, ElementOfSeq DEF ConfigOK, Width
  <2>2. j - 1 \in Nat
    BY <1>1
  <2>3. seq + (j - 1) * cfg.samples \in Nat
    <3>1. (j - 1) * cfg.samples \in Nat
      BY <1>1, <2>2, Product
    <3> QED BY <1>1, <3>1
  <2>4. q[j] = Task(Tasks[j].mode, Tasks[j].size, seq + (j - 1) * cfg.samples, "none")
    BY <1>2
  <2>5. 0 \in 0..(cfg.samples - 1) /\ 0 \in 0..cfg.retries /\ <<>> \in Seq(Published) /\ "none" \in Stacks
    BY <1>1, EmptySeq DEF Stacks
  <2>6. q[j] = [mode |-> Tasks[j].mode, size |-> Tasks[j].size, base |-> seq + (j - 1) * cfg.samples,
                stack |-> "none", sample |-> 0, retry |-> 0, tries |-> <<>>, st |-> "ready"]
    BY <2>4 DEF Task
  <2> HIDE DEF q
  <2>7. q[j] \in Job
    BY <2>1, <2>3, <2>5, <2>6 DEF Job
  <2> QED BY <2>6, <2>7
<1>4. q \in Seq(Job) /\ Len(q) = Width
  <2>1. q \in [1..Width -> Job]
    <3>1. \A j \in 1..Width : q[j] \in Job
      BY <1>3
    <3>2. DOMAIN q = 1..Width /\ q = [j \in 1..Width |-> q[j]]
      BY <1>2
    <3> HIDE DEF q
    <3> QED BY <3>1, <3>2
  <2> HIDE DEF q
  <2> QED BY <1>1, <2>1
<1> QED BY <1>3, <1>4

LEMMA StackTyped ==
  ASSUME ConfigOK, TypeInv, NEW s \in cfg.stacks
  PROVE  /\ StackTasks(s) \in Seq(Job) /\ Len(StackTasks(s)) = Breadth
         /\ \A j \in 1..Breadth :
              /\ StackTasks(s)[j].sample = 0 /\ StackTasks(s)[j].retry = 0
              /\ StackTasks(s)[j].tries = <<>> /\ StackTasks(s)[j].st = "ready"
              /\ StackTasks(s)[j].stack = s
<1> DEFINE q == StackTasks(s)
           n == Len(Pages)
<1>1. /\ cfg.samples \in Nat /\ cfg.samples >= 1 /\ cfg.retries \in Nat /\ Breadth \in Nat
      /\ n \in Nat /\ cfg.runs \in Nat
  BY Resolved, Sizes
<1>2. q = [i \in 1..Breadth |-> Task(Pages[1 + ((i - 1) % n)], NoSize, 0, s)]
  BY DEF StackTasks, Pages, Breadth
<1>3. ASSUME NEW j \in 1..Breadth
      PROVE  /\ q[j] \in Job /\ q[j].sample = 0 /\ q[j].retry = 0 /\ q[j].tries = <<>> /\ q[j].st = "ready"
             /\ q[j].stack = s
  <2>1. n >= 1
    <3>1. n = 0 => Breadth = 0
      BY <1>1, OneMore DEF Breadth
    <3>2. Breadth # 0
      BY <1>1
    <3> HIDE DEF n
    <3> QED BY <1>1, <3>1, <3>2
  <2> DEFINE k == 1 + ((j - 1) % n)
  <2>2. k \in 1..n
    <3>1. j - 1 \in Nat
      BY <1>1
    <3>2. (j - 1) % n \in 0..(n - 1)
      <4> HIDE DEF n
      <4> QED BY <1>1, <2>1, <3>1
    <3> HIDE DEF n
    <3> QED BY <1>1, <2>1, <3>2
  <2>3. Pages[k] \in Range(cfg.modes)
    <3> HIDE DEF k
    <3> QED BY <2>2, ElementOfSeq DEF ConfigOK
  <2>4. q[j] = Task(Pages[k], NoSize, 0, s)
    BY <1>2
  <2>5. 0 \in 0..(cfg.samples - 1) /\ 0 \in 0..cfg.retries /\ <<>> \in Seq(Published) /\ s \in Stacks
    BY <1>1, EmptySeq DEF Stacks
  <2> HIDE DEF q, k
  <2>6. q[j] = [mode |-> Pages[k], size |-> 0, base |-> 0,
                stack |-> s, sample |-> 0, retry |-> 0, tries |-> <<>>, st |-> "ready"]
    BY <2>4 DEF Task, NoSize
  <2>7. q[j] \in Job
    BY <2>3, <2>5, <2>6 DEF Job
  <2> QED BY <2>6, <2>7
<1>4. q \in Seq(Job) /\ Len(q) = Breadth
  <2>1. q \in [1..Breadth -> Job]
    <3>1. \A j \in 1..Breadth : q[j] \in Job
      BY <1>3
    <3>2. DOMAIN q = 1..Breadth /\ q = [j \in 1..Breadth |-> q[j]]
      BY <1>2
    <3> HIDE DEF q
    <3> QED BY <3>1, <3>2
  <2> HIDE DEF q
  <2> QED BY <1>1, <2>1
<1> QED BY <1>3, <1>4

LEMMA CollectIterationInv ==
  ASSUME RunInv, CollectIteration PROVE RunInv'
<1> DEFINE S == cfg.samples
<1>1. /\ ConfigOK /\ TypeInv /\ CountInv /\ TaskInv /\ NumberInv /\ ModesIsolated /\ PhaseInv /\ StopInv
  BY DEF RunInv
<1>2. /\ pc \in Phases /\ Quiet /\ iters[pc] < Budget(pc)
      /\ UNCHANGED <<cfg, pc, active, batch, attempts, iters, counts, plan, warm, todo, up, progress>>
      /\ queue' = IterationTasks /\ seq' = seq + S * Width
  BY <1>1 DEF CollectIteration, TypeInv, Width, Tasks
<1>3. ConfigOK'
  BY <1>1, <1>2, ConfigKept
<1>4. /\ S \in Nat /\ S >= 1 /\ Width \in Nat /\ S * Width \in Nat /\ seq \in Nat /\ progress \in Nat
  BY <1>1, Resolved, Sizes DEF TypeInv
<1>5. /\ queue' \in Seq(Job) /\ Len(queue') = Width /\ DOMAIN queue' = 1..Width
      /\ \A j \in 1..Width : Untried(queue'[j]) /\ queue'[j].base = seq + (j - 1) * S
  <2>1. queue' \in Seq(Job) /\ Len(queue') = Width
    BY <1>1, <1>2, IterationTyped
  <2>2. DOMAIN queue' = 1..Width
    BY <2>1, LenProperties
  <2>3. pc # "stacks"
    BY <1>2 DEF Phases
  <2> QED BY <1>1, <1>2, <2>1, <2>2, <2>3, IterationTyped DEF Untried
<1>6. active = {} /\ batch = <<>> /\ queue = <<>> /\ Cardinality(active) = 0 /\ Len(batch) = 0
  BY <1>2, FS_EmptySet DEF Quiet
<1>7. TypeInv'
  <2>1. Job' = Job /\ Published' = Published
    BY <1>2 DEF Job, Published, Stacks, Tags
  <2>2. seq' \in Nat
    <3> HIDE DEF S
    <3> QED BY <1>2, <1>4
  <2> QED BY <1>1, <1>2, <1>5, <2>1, <2>2 DEF TypeInv, Plan
<1>8. CountInv'
  <2>1. Owed' = S * Width
    <3>1. Owed' = 0 + S * (Width + 0)
      BY <1>2, <1>5, <1>6 DEF Owed
    <3> HIDE DEF S
    <3>2. Width + 0 = Width /\ 0 + S * Width = S * Width
      BY <1>4
    <3> QED BY <3>1, <3>2
  <2>2. Warmed' = Warmed /\ CooldownEnd' = CooldownEnd /\ Width' = Width
    BY <1>2, SameEnds, SameWidth
  <2>3. /\ Of(iters.overhead)' = Of(iters.overhead) /\ Of(iters.pilot)' = Of(iters.pilot)
        /\ Of(iters.measured)' = Of(iters.measured) /\ Of(iters.cooldown)' = Of(iters.cooldown)
    BY <1>2, <2>2 DEF Of
  <2>4. pc \notin Late /\ pc \in Phases
    BY <1>2 DEF Phases, Late
  <2> QED BY <1>1, <1>2, <2>1, <2>2, <2>3, <2>4 DEF CountInv
<1>9. TaskInv'
  <2>1. Warmed' = Warmed
    BY <1>2, SameEnds
  <2>2. active' = {} /\ DOMAIN batch' = {}
    BY <1>2, <1>6
  <2>3. \A j \in DOMAIN queue' : Untried(queue[j])'
    BY <1>2, <1>5 DEF Untried
  <2>4. \A i \in DOMAIN attempts' : Warmed < i => Settled(attempts[i])'
    BY <1>1, <1>2 DEF TaskInv, Settled
  <2> QED BY <2>1, <2>2, <2>3, <2>4 DEF TaskInv
<1>10. NumberInv'
  <2>1. SeqUnique'
    BY <1>1, <1>2 DEF NumberInv, SeqUnique
  <2>2. active' = {} /\ DOMAIN batch' = {}
    BY <1>2, <1>6
  <2>3. ASSUME NEW j \in DOMAIN queue' PROVE queue'[j].base = seq' - S * (Len(queue') - j + 1)
    <3>1. j \in 1..Width /\ queue'[j].base = seq + (j - 1) * S
      BY <1>5
    <3> DEFINE a == j - 1
               b == Width - a
    <3>2. a \in Nat /\ b \in Nat /\ Width = a + b /\ Width - j + 1 = b
      BY <1>4, <3>1
    <3> HIDE DEF a, b, S
    <3>3. S * Width = S * a + S * b /\ S * a \in Nat /\ S * b \in Nat /\ a * S = S * a
      BY <1>4, <3>2, Product
    <3>4. seq + a * S = (seq + S * Width) - S * b
      BY <1>4, <3>3
    <3>5. queue'[j].base = seq + a * S
      BY <3>1 DEF a
    <3> QED BY <1>2, <1>5, <3>2, <3>4, <3>5
  <2>4. Floor' = seq
    <3>1. Floor' = seq' - S * Width
      BY <1>2, <1>5 DEF Floor
    <3> HIDE DEF S
    <3> QED BY <1>2, <1>4, <3>1
  <2>5. ASSUME NEW i \in DOMAIN attempts PROVE attempts[i].seq < seq /\ attempts[i].seq < seq'
    <3>1. attempts[i].seq < seq
      BY <1>1 DEF NumberInv
    <3>2. attempts[i].seq \in Nat
      <4>1. attempts \in Seq(Published)
        BY <1>1 DEF TypeInv
      <4>2. attempts[i] \in Published
        BY <4>1, ElementOfSeq, LenProperties
      <4> QED BY <4>2 DEF Published
    <3> DEFINE x == attempts[i].seq
    <3>3. x < seq /\ x \in Nat
      BY <3>1, <3>2
    <3> HIDE DEF x, S
    <3>4. x < seq'
      BY <1>2, <1>4, <3>3
    <3> QED BY <3>3, <3>4 DEF x
  <2>6. pc' # "stacks" /\ attempts' = attempts
    BY <1>2 DEF Phases
  <2> QED BY <1>2, <2>1, <2>2, <2>3, <2>4, <2>5, <2>6 DEF NumberInv
<1>11. ModesIsolated'
  BY <1>2, <1>4, <1>6, <1>1, Resolved DEF ModesIsolated
<1>12. PhaseInv'
  BY <1>1, <1>2, PhaseKept
<1>13. StopInv'
  <2>1. cfg.samples * Len(mode_tasks(cfg.modes, cfg.sizes)) \in Nat
    BY <1>4 DEF Width, Tasks
  <2>2. StopHonest'
    BY <1>1, <1>2, <1>4, <2>1, StopHonestKept DEF StopInv, TypeInv, Plan
  <2>3. MeasuredBench(cfg)' = MeasuredBench(cfg) /\ max_run_count(cfg, plan)' = max_run_count(cfg, plan)
    BY <1>2 DEF MeasuredBench, max_run_count
  <2>4. pc = "measured" => iters.measured < max_run_count(cfg, plan)
    BY <1>2 DEF Budget
  <2>5. pc = "pilot" => MeasuredBench(cfg)
    <3>1. SUFFICES ASSUME pc = "pilot", ~PilotWanted(cfg) PROVE FALSE
      BY DEF PilotWanted
    <3>2. Budget(pc) = 0 /\ iters[pc] \in Nat
      BY <1>1, <3>1 DEF Budget, TypeInv, Phases
    <3> QED BY <1>2, <3>2
  <2> QED BY <1>1, <1>2, <2>2, <2>3, <2>4, <2>5 DEF StopInv
<1> QED BY <1>3, <1>7, <1>8, <1>9, <1>10, <1>11, <1>12, <1>13 DEF RunInv

-----------------------------------------------------------------------------
(***************************************************************************)
(* From one part of the run to the next.                                   *)
(***************************************************************************)
\* One part of run_for_target gives way to another with nothing under way.
Follows ==
  \/ pc = "launch" /\ pc' \in {"rejected", "failed", "warm2"}
  \/ pc = "overhead" /\ pc' = "pilot"
  \/ pc = "pilot" /\ pc' = "plan"
  \/ pc = "plan" /\ pc' = "measured"
  \/ pc = "measured" /\ pc' = "cooldown"
  \/ pc = "cooldown" /\ pc' = "stacks"
  \/ pc = "stacks" /\ pc' = "finished"

LEMMA Moves ==
  ASSUME RunInv, Quiet, Follows, plan' \in Plan,
         UNCHANGED <<cfg, seq, queue, active, batch, attempts, iters, counts, warm, todo, up, progress>>
  PROVE  /\ ConfigOK' /\ TypeInv' /\ CountInv' /\ TaskInv' /\ NumberInv' /\ ModesIsolated' /\ PhaseInv'
<1>1. /\ ConfigOK /\ TypeInv /\ CountInv /\ TaskInv /\ NumberInv /\ ModesIsolated /\ PhaseInv /\ StopInv
  BY DEF RunInv
<1>2. ConfigOK'
  BY <1>1, ConfigKept
<1>3. TypeInv'
  <2>1. Job' = Job /\ Published' = Published
    BY DEF Job, Published, Stacks, Tags
  <2>2. pc' \in Places
    BY DEF Follows, Places, Early, Late, Phases
  <2> QED BY <1>1, <2>1, <2>2 DEF TypeInv, Plan
<1>4. Warmed' = Warmed
  <2>1. pc \notin Early \cup {"warm2"} <=> pc' \notin Early \cup {"warm2"}
    BY DEF Follows, Early
  <2>2. pc \notin Early \cup {"warm2", "warm3"} <=> pc' \notin Early \cup {"warm2", "warm3"}
    BY DEF Follows, Early
  <2> QED BY <2>1, <2>2 DEF Warmed
<1>5. Quiet'
  BY DEF Quiet
<1>6. TaskInv' /\ NumberInv' /\ ModesIsolated' /\ Owed' = 0
  <2>1. /\ \A i \in DOMAIN attempts : Warmed < i => Settled(attempts[i])
        /\ Addressable(attempts)
        /\ \A i \in DOMAIN attempts : attempts[i].seq < seq
    BY RestingFacts
  <2>2. (\A i \in DOMAIN attempts : Warmed < i => Settled(attempts[i]))'
    BY <1>4, <2>1 DEF Settled
  <2>3. Addressable(attempts)' /\ (\A i \in DOMAIN attempts : attempts[i].seq < seq)'
    BY <2>1 DEF Addressable
  <2> QED BY <1>2, <1>3, <1>5, <2>2, <2>3, AtRestNext
<1>7. /\ Width' = Width /\ Breadth' = Breadth /\ OverheadEnd' = OverheadEnd /\ PilotEnd' = PilotEnd
      /\ MeasuredEnd' = MeasuredEnd /\ CooldownEnd' = CooldownEnd
  <2>1. Width' = Width /\ Breadth' = Breadth
    BY SameWidth
  <2> QED BY <1>4, <2>1 DEF OverheadEnd, PilotEnd, MeasuredEnd, CooldownEnd, Of
<1>8. /\ Of(iters.overhead)' = Of(iters.overhead) /\ Of(iters.pilot)' = Of(iters.pilot)
      /\ Of(iters.measured)' = Of(iters.measured) /\ Of(iters.cooldown)' = Of(iters.cooldown)
  BY <1>7 DEF Of
<1>9. PhaseInv'
  <2>1. \A i : LoopPhase(i)' = LoopPhase(i)
    BY <1>4, <1>7 DEF LoopPhase
  <2> QED BY <1>1, <2>1 DEF PhaseInv, benchmark_phase_tag
<1>10. CountInv'
  <2>1. Owed = 0 /\ Owed' = 0
    BY <1>1, <1>6, QuietOwesNothing
  <2>2. pc' \notin Late => Len(attempts) = CooldownEnd /\ up = {}
    <3>1. pc' \notin Late => pc \notin Late
      BY DEF Follows, Late
    <3> QED BY <1>1, <3>1 DEF CountInv
  <2>3. ASSUME pc' \in Late
        PROVE  /\ Len(attempts) + 0 = CooldownEnd + (cfg.samples * Breadth) * Cardinality(up)
               /\ CooldownEnd <= Len(attempts)
    <3>1. CASE pc \in Late
      BY <1>1, <2>1, <3>1 DEF CountInv
    <3>2. CASE pc \notin Late
      <4>1. Len(attempts) = CooldownEnd /\ up = {} /\ Cardinality(up) = 0
        BY <1>1, <3>2, FS_EmptySet DEF CountInv
      <4>2. cfg.samples * Breadth \in Nat /\ Len(attempts) \in Nat
        BY <1>1, Sizes
      <4>3. (cfg.samples * Breadth) * 0 = 0
        BY <4>2, OneMore
      <4> QED BY <4>1, <4>2, <4>3
    <3> QED BY <3>1, <3>2
  <2>4. /\ pc' \notin Phases \cup {"plan"} \cup Late => iters.overhead = 0
        /\ pc' \notin (Phases \ {"overhead"}) \cup {"plan"} \cup Late => iters.pilot = 0
        /\ pc' \notin {"measured", "cooldown"} \cup Late => iters.measured = 0
        /\ pc' \notin {"cooldown"} \cup Late => iters.cooldown = 0
    <3>1. /\ pc' \notin Phases \cup {"plan"} \cup Late => pc \notin Phases \cup {"plan"} \cup Late
          /\ pc' \notin (Phases \ {"overhead"}) \cup {"plan"} \cup Late =>
               pc \notin (Phases \ {"overhead"}) \cup {"plan"} \cup Late
          /\ pc' \notin {"measured", "cooldown"} \cup Late => pc \notin {"measured", "cooldown"} \cup Late
          /\ pc' \notin {"cooldown"} \cup Late => pc \notin {"cooldown"} \cup Late
      BY DEF Follows, Phases, Late
    <3> QED BY <1>1, <3>1 DEF CountInv
  <2>5. cfg.bench => /\ counts.warmup = Warmed /\ counts.overhead = Of(iters.overhead)
                     /\ counts.pilot = Of(iters.pilot) /\ counts.cooldown = Of(iters.cooldown)
    BY <1>1 DEF CountInv
  <2>6. Of(iters.measured) <= progress
    BY <1>1 DEF CountInv
  <2>7. /\ Len(attempts') + Owed' = Len(attempts) + 0
        /\ CooldownEnd' + (cfg.samples * Breadth)' * Cardinality(up)' = CooldownEnd + (cfg.samples * Breadth) * Cardinality(up)
    BY <1>7, <2>1
  <2> QED BY <1>4, <1>7, <1>8, <2>1, <2>2, <2>3, <2>4, <2>5, <2>6, <2>7 DEF CountInv
<1> QED BY <1>2, <1>3, <1>6, <1>9, <1>10

\* Outside an iteration nothing is under way.
LEMMA QuietOutside ==
  ASSUME RunInv, pc \notin Phases \cup {"stacks"} PROVE Quiet
BY QuietOwesNothing DEF RunInv, CountInv

LEMMA LaunchInv ==
  ASSUME RunInv, Launch PROVE RunInv'
<1>1. /\ pc = "launch" /\ pc' \in {"rejected", "failed", "warm2"}
      /\ UNCHANGED <<cfg, seq, queue, active, batch, attempts, iters, counts, warm, todo, up, progress, plan>>
  BY DEF Launch
<1>2. plan = NoPlan /\ plan' = NoPlan /\ plan' \in Plan /\ StopInv /\ iters.measured = 0
  BY <1>1 DEF RunInv, StopInv, TypeInv, CountInv, Late
<1>3. Quiet
  BY <1>1, QuietOutside DEF Phases
<1>4. /\ ConfigOK' /\ TypeInv' /\ CountInv' /\ TaskInv' /\ NumberInv' /\ ModesIsolated' /\ PhaseInv'
  BY <1>1, <1>2, <1>3, Moves DEF Follows
<1>5. StopInv'
  <2>1. NoPlan.stop = "none"
    BY DEF NoPlan
  <2>2. max_run_count(cfg, plan)' = max_run_count(cfg, plan) /\ MeasuredBench(cfg)' = MeasuredBench(cfg)
    BY <1>1 DEF max_run_count, MeasuredBench
  <2>3. pc' # "measured" /\ pc' # "pilot"
    BY <1>1
  <2>4. StopHonest'
    BY <1>1, <1>2, <2>1, <2>2, <2>3 DEF StopInv, StopHonest
  <2> QED BY <1>1, <1>2, <2>1, <2>2, <2>3, <2>4 DEF StopInv
<1> QED BY <1>4, <1>5 DEF RunInv

LEMMA FinishInv ==
  ASSUME RunInv, Finish PROVE RunInv'
<1>1. /\ pc = "stacks" /\ pc' = "finished" /\ Quiet
      /\ UNCHANGED <<cfg, seq, queue, active, batch, attempts, iters, counts, warm, todo, up, progress, plan>>
  BY DEF Finish
<1>2. plan' \in Plan /\ StopInv
  BY <1>1 DEF RunInv, TypeInv
<1>4. /\ ConfigOK' /\ TypeInv' /\ CountInv' /\ TaskInv' /\ NumberInv' /\ ModesIsolated' /\ PhaseInv'
  BY <1>1, <1>2, Moves DEF Follows
<1>5. StopInv'
  <2>2. max_run_count(cfg, plan)' = max_run_count(cfg, plan) /\ MeasuredBench(cfg)' = MeasuredBench(cfg)
    BY <1>1 DEF max_run_count, MeasuredBench
  <2>4. StopHonest'
    BY <1>1, <1>2, <2>2 DEF StopInv, StopHonest
  <2> QED BY <1>1, <1>2, <2>2, <2>4 DEF StopInv, Late
<1> QED BY <1>4, <1>5 DEF RunInv

-----------------------------------------------------------------------------
(***************************************************************************)
(* Completed samples and the plans.                                        *)
(***************************************************************************)
LEMMA LeastNumber ==
  ASSUME NEW T \in SUBSET Nat, T # {}
  PROVE  \E x \in T : \A y \in T : x <= y
<1> DEFINE R == {p \in Nat \X Nat : p[1] < p[2]}
<1>1. IsWellFoundedOn(R, Nat)
  BY NatLessThanWellFounded DEF OpToRel
<1>2. \A x, y \in Nat : x < y => <<x, y>> \in R
  OBVIOUS
<1> HIDE DEF R
<1>3. PICK x \in T : \A y \in T : ~(<<y, x>> \in R)
  BY <1>1, WFMin
<1>4. ASSUME NEW y \in T PROVE x <= y
  <2>1. x \in Nat /\ y \in Nat /\ ~(y < x)
    BY <1>2, <1>3
  <2> QED BY <2>1
<1> QED BY <1>3, <1>4

\* The least sampled case has so many samples.
LEMMA CompletedTyped ==
  ASSUME NEW S, NEW as \in Seq(S) PROVE completed_samples(as) \in Nat
<1>1. DOMAIN as = 1..Len(as) /\ Len(as) \in Nat /\ IsFiniteSet(DOMAIN as)
  <2>1. DOMAIN as = 1..Len(as) /\ Len(as) \in Nat
    BY LenProperties
  <2>2. PICK n \in Nat : n = Len(as)
    BY <2>1
  <2>3. IsFiniteSet(1..n)
    BY FS_Interval
  <2> QED BY <2>1, <2>2, <2>3
<1>2. CASE as = <<>>
  BY <1>2 DEF completed_samples
<1>3. CASE as # <<>>
  <2> DEFINE T == {CaseCount(as, case) : case \in Cases(as)}
  <2>1. ASSUME NEW case PROVE CaseCount(as, case) \in Nat
    <3>1. IsFiniteSet({i \in DOMAIN as : adaptive_case_id(as[i]) = case})
      BY <1>1, FS_Subset
    <3> QED BY <3>1, FS_CardinalityType DEF CaseCount
  <2>2. Len(as) \in Nat \ {0}
    BY <1>3, EmptySeq
  <2>3. 1 \in DOMAIN as
    <3>1. Len(as) \in Nat /\ Len(as) # 0
      BY <2>2
    <3>2. \A n \in Nat : n # 0 => 1 \in 1..n
      OBVIOUS
    <3>3. 1 \in 1..Len(as)
      BY <3>1, <3>2, Zenon
    <3> QED BY <1>1, <3>3
  <2>4. T \in SUBSET Nat /\ T # {}
    BY <2>1, <2>3 DEF Cases
  <2> HIDE DEF T
  <2>5. PICK x \in T : \A y \in T : x <= y
    BY <2>4, LeastNumber
  <2>6. Min(T) \in Nat
    BY <2>4, <2>5 DEF Min
  <2> QED BY <1>3, <2>6 DEF completed_samples, T
<1> QED BY <1>2, <1>3

\* The count depends only on the cases of the attempts.
LEMMA SameCompleted ==
  ASSUME NEW S, NEW as \in Seq(S), NEW bs \in Seq(S), Len(as) = Len(bs),
         \A i \in DOMAIN as : adaptive_case_id(as[i]) = adaptive_case_id(bs[i])
  PROVE  completed_samples(as) = completed_samples(bs)
<1>1. DOMAIN as = DOMAIN bs
  BY LenProperties
<1>2. as = <<>> <=> bs = <<>>
  BY EmptySeq
<1>3. Cases(as) = Cases(bs)
  BY <1>1 DEF Cases
<1>4. ASSUME NEW case PROVE CaseCount(as, case) = CaseCount(bs, case)
  <2>1. {i \in DOMAIN as : adaptive_case_id(as[i]) = case} = {i \in DOMAIN bs : adaptive_case_id(bs[i]) = case}
    BY <1>1
  <2> QED BY <2>1 DEF CaseCount
<1>5. {CaseCount(as, case) : case \in Cases(as)} = {CaseCount(bs, case) : case \in Cases(bs)}
  BY <1>3, <1>4
<1> QED BY <1>2, <1>5 DEF completed_samples

LEMMA ClampTyped ==
  ASSUME NEW x \in Nat, NEW lo \in Nat, NEW hi \in Nat PROVE clamp(x, lo, hi) \in Nat
<1>1. Min({x, hi}) \in Nat
  BY LargerTyped
<1>2. Max({lo, Min({x, hi})}) \in Nat
  BY <1>1, LargerTyped
<1> QED BY <1>2 DEF clamp

LEMMA PlansTyped ==
  ASSUME ConfigOK
  PROVE  /\ NoPlan \in Plan
         /\ explicit_plan(cfg) \in Plan /\ explicit_plan(cfg).source # "none"
         /\ explicit_plan(cfg).stop = "none"
<1>1. /\ cfg.runs \in Nat /\ cfg.target \in BOOLEAN
      /\ cfg.min \in Option /\ cfg.max \in Option /\ cfg.dur \in Option
  BY Resolved
<1>2. NoPlan \in Plan
  BY DEF NoPlan, Plan
<1>3. or(cfg.min, cfg.runs) \in Nat /\ or(cfg.max, cfg.runs) \in Nat
  BY <1>1 DEF or, Option, Absent
<1>4. CASE Adaptive(cfg)
  <2>1. (cfg.dur > 0) \in BOOLEAN
    OBVIOUS
  <2>2. explicit_plan(cfg) =
          [source |-> "explicit", min |-> or(cfg.min, cfg.runs), max |-> or(cfg.max, cfg.runs),
           dur |-> cfg.dur > 0, target |-> cfg.target, stop |-> "none"]
    BY <1>4 DEF explicit_plan
  <2> QED BY <1>1, <1>2, <1>3, <2>1, <2>2 DEF Plan
<1>5. CASE ~Adaptive(cfg)
  <2>1. explicit_plan(cfg) =
          [source |-> "fixed-count", min |-> cfg.runs, max |-> cfg.runs, dur |-> FALSE,
           target |-> FALSE, stop |-> "none"]
    BY <1>5 DEF explicit_plan, NoPlan
  <2> QED BY <1>1, <1>2, <2>1 DEF Plan
<1> QED BY <1>4, <1>5

LEMMA DerivedTyped ==
  ASSUME ConfigOK, NEW S, NEW as \in Seq(S), NEW est \in Nat,
         NEW p, p = derive_measured_plan_from_pilot(cfg, as, est)
  PROVE  p \in Plan /\ p.source # "none" /\ p.stop = "none"
<1> DEFINE done == Max({completed_samples(as), 1})
           lo   == or(cfg.min, done)
           wish == clamp(est, 1, Max({cfg.runs, 1}))
           top  == or(cfg.max, Min({Max({wish, lo}), Max({cfg.runs, lo})}))
<1>1. cfg.runs \in Nat /\ cfg.min \in Option /\ cfg.max \in Option /\ cfg.dur \in Option
  BY Resolved
<1>2. done \in Nat
  <2>1. completed_samples(as) \in Nat
    BY CompletedTyped
  <2> QED BY <2>1, LargerTyped
<1>3. lo \in Nat
  <2> HIDE DEF done
  <2> QED BY <1>1, <1>2 DEF or, Option, Absent
<1>4. wish \in Nat
  <2>1. Max({cfg.runs, 1}) \in Nat
    BY <1>1, LargerTyped
  <2> QED BY <2>1, ClampTyped
<1>5. top \in Nat
  <2> HIDE DEF lo, wish
  <2>1. Max({wish, lo}) \in Nat /\ Max({cfg.runs, lo}) \in Nat
    BY <1>1, <1>3, <1>4, LargerTyped
  <2>2. Min({Max({wish, lo}), Max({cfg.runs, lo})}) \in Nat
    BY <2>1, LargerTyped
  <2> QED BY <1>1, <2>2 DEF or, Option, Absent
<1>6. PICK src \in {"pilot-assisted", "pilot-derived"} :
        src = IF Adaptive(cfg) THEN "pilot-assisted" ELSE "pilot-derived"
  OBVIOUS
<1>7. p = [source |-> src, min |-> lo, max |-> top, dur |-> cfg.dur # 0, target |-> TRUE, stop |-> "none"]
  BY <1>6 DEF derive_measured_plan_from_pilot
<1>8. (cfg.dur # 0) \in BOOLEAN
  OBVIOUS
<1> HIDE DEF lo, top
<1> QED BY <1>3, <1>5, <1>6, <1>7, <1>8 DEF Plan

\* The last n published attempts.
LEMMA RecentTyped ==
  ASSUME TypeInv, NEW n \in Nat, n <= Len(attempts)
  PROVE  /\ Recent(n) \in Seq(Published) /\ Len(Recent(n)) = n + Len(batch)
         /\ \A i \in 1..n : Recent(n)[i] = attempts[Len(attempts) - n + i]
         /\ \A i \in 1..Len(batch) : Recent(n)[n + i] = batch[i]
<1> DEFINE m == Len(attempts)
           part == SubSeq(attempts, m - n + 1, m)
<1>1. /\ attempts \in Seq(Published) /\ batch \in Seq(Published) /\ m \in Nat /\ n <= m
      /\ DOMAIN attempts = 1..m
  BY LenProperties DEF TypeInv
<1>2. \A i \in (m - n + 1)..m : attempts[i] \in Published
  <2>1. \A i \in (m - n + 1)..m : i \in 1..m
    <3> HIDE DEF m
    <3> QED BY <1>1
  <2> QED BY <1>1, <2>1, ElementOfSeq
<1>3. m - n + 1 \in Int /\ m \in Int /\ m - (m - n + 1) + 1 = n /\ (m - n + 1 <= m <=> n # 0)
  <2> HIDE DEF m
  <2> QED BY <1>1
<1>4. /\ part \in Seq(Published) /\ Len(part) = n
      /\ \A i \in 1..n : part[i] = attempts[m - n + i]
  <2>1. /\ part \in Seq(Published) /\ Len(part) = IF m - n + 1 <= m THEN m - (m - n + 1) + 1 ELSE 0
        /\ \A i \in 1..(m - (m - n + 1) + 1) : part[i] = attempts[(m - n + 1) + i - 1]
    <3> HIDE DEF m
    <3> QED BY <1>2, <1>3, SubSeqProperties
  <2>2. Len(part) = n
    <3> HIDE DEF m, part
    <3> QED BY <1>3, <2>1
  <2>3. \A i \in 1..n : (m - n + 1) + i - 1 = m - n + i
    <3> HIDE DEF m
    <3> QED BY <1>1
  <2> HIDE DEF m, part
  <2> QED BY <1>3, <2>1, <2>2, <2>3
<1>5. Recent(n) = part \o batch
  BY DEF Recent
<1> HIDE DEF part, m
<1>6. /\ part \o batch \in Seq(Published) /\ Len(part \o batch) = Len(part) + Len(batch)
      /\ DOMAIN part = 1..Len(part) /\ DOMAIN batch = 1..Len(batch)
      /\ \A i \in DOMAIN part : (part \o batch)[i] = part[i]
      /\ \A i \in DOMAIN batch : (part \o batch)[Len(part) + i] = batch[i]
  <2>1. PICK a \in Seq(Published) : a = part
    BY <1>4
  <2>2. /\ a \o batch \in Seq(Published) /\ Len(a \o batch) = Len(a) + Len(batch)
        /\ DOMAIN a = 1..Len(a) /\ DOMAIN batch = 1..Len(batch)
        /\ \A i \in DOMAIN a : (a \o batch)[i] = a[i]
        /\ \A i \in DOMAIN batch : (a \o batch)[Len(a) + i] = batch[i]
    BY <1>1, Concat
  <2> QED BY <2>1, <2>2, Zenon
<1>7. Len(Recent(n)) = n + Len(batch) /\ Recent(n) \in Seq(Published)
  BY <1>4, <1>5, <1>6
<1>8. \A i \in 1..n : Recent(n)[i] = attempts[m - n + i]
  BY <1>4, <1>5, <1>6
<1>9. \A i \in 1..Len(batch) : Recent(n)[n + i] = batch[i]
  BY <1>4, <1>5, <1>6
<1> QED BY <1>7, <1>8, <1>9 DEF m

LEMMA MakePlanInv ==
  ASSUME RunInv, MakePlan PROVE RunInv'
<1>1. /\ pc = "plan" /\ pc' = "measured"
      /\ UNCHANGED <<cfg, seq, queue, active, batch, attempts, iters, counts, warm, todo, up, progress>>
  BY DEF MakePlan
<1>2. ConfigOK /\ TypeInv /\ CountInv /\ StopInv
  BY DEF RunInv
<1>3. Quiet /\ Quiet'
  <2>1. Quiet
    BY <1>1, QuietOutside DEF Phases
  <2> QED BY <1>1, <2>1 DEF Quiet
<1>4. iters.measured = 0
  BY <1>1, <1>2 DEF CountInv, Late
<1>5. /\ plan' \in Plan /\ plan'.stop = "none"
      /\ plan' = NoPlan \/ (plan'.source # "none" /\ MeasuredBench(cfg))
  <2>1. CASE counts.pilot > 0
    <3>1. MeasuredBench(cfg) /\ cfg.bench
      BY <1>2, <2>1 DEF StopInv, MeasuredBench
    <3>2. counts.pilot \in Nat
      BY <1>2 DEF TypeInv, SpecialPhases
    <3>3. counts.pilot <= Len(attempts)
      <4>1. counts.pilot = Of(iters.pilot) /\ Len(attempts) = CooldownEnd
        BY <1>1, <1>2, <3>1 DEF CountInv, Late
      <4>2. /\ Of(iters.overhead) \in Nat /\ Of(iters.pilot) \in Nat /\ Of(iters.measured) \in Nat
            /\ Of(iters.cooldown) \in Nat
        BY <1>2, Sizes, Product DEF Of, TypeInv, Phases
      <4>3. Warmed \in Nat
        BY DEF Warmed
      <4> QED BY <4>1, <4>2, <4>3 DEF CooldownEnd, MeasuredEnd, PilotEnd, OverheadEnd
    <3>4. Recent(counts.pilot) \in Seq(Published)
      BY <1>2, <3>2, <3>3, RecentTyped
    <3>5. PICK est \in 1..cfg.runs : plan' = derive_measured_plan_from_pilot(cfg, Recent(counts.pilot), est)
      BY <2>1 DEF MakePlan
    <3>6. est \in Nat
      BY <1>2, Resolved
    <3>7. PICK as \in Seq(Published) : as = Recent(counts.pilot)
      BY <3>4
    <3>8. PICK p : p = derive_measured_plan_from_pilot(cfg, as, est)
      OBVIOUS
    <3>9. p \in Plan /\ p.source # "none" /\ p.stop = "none"
      BY <1>2, <3>6, <3>8, DerivedTyped
    <3>10. plan' = p
      BY <3>5, <3>7, <3>8
    <3> QED BY <3>1, <3>9, <3>10
  <2>2. CASE ~(counts.pilot > 0)
    <3>1. plan' = IF MeasuredBench(cfg) THEN explicit_plan(cfg) ELSE NoPlan
      BY <2>2 DEF MakePlan
    <3>2. NoPlan.stop = "none"
      BY DEF NoPlan
    <3> QED BY <1>2, <3>1, <3>2, PlansTyped
  <2> QED BY <2>1, <2>2
<1>6. /\ ConfigOK' /\ TypeInv' /\ CountInv' /\ TaskInv' /\ NumberInv' /\ ModesIsolated' /\ PhaseInv'
  BY <1>1, <1>3, <1>5, Moves DEF Follows
<1>7. StopInv'
  <2>1. max_run_count(cfg, plan)' \in Nat
    <3>1. cfg.runs \in Nat /\ plan'.max \in Nat
      BY <1>2, <1>5, Resolved DEF Plan
    <3> QED BY <1>1, <3>1 DEF max_run_count
  <2>2. StopHonest'
    BY <1>1, <1>4, <1>5, <2>1 DEF StopHonest
  <2>3. MeasuredBench(cfg)' = MeasuredBench(cfg)
    BY <1>1 DEF MeasuredBench
  <2>4. counts'.pilot > 0 => MeasuredBench(cfg)
    BY <1>1, <1>2 DEF StopInv
  <2> QED BY <1>1, <1>3, <1>5, <2>2, <2>3, <2>4 DEF StopInv
<1> QED BY <1>6, <1>7 DEF RunInv

LEMMA NextPhaseInv ==
  ASSUME RunInv, NextPhase PROVE RunInv'
<1> DEFINE per == cfg.samples * Len(mode_tasks(cfg.modes, cfg.sizes))
<1>1. /\ pc \in Phases /\ Quiet
      /\ iters[pc] >= Budget(pc) \/ (pc = "measured" /\ plan.stop # "none")
      /\ pc = "overhead" => pc' = "pilot"
      /\ pc = "pilot" => pc' = "plan"
      /\ pc = "measured" => pc' = "cooldown"
      /\ pc = "cooldown" => pc' = "stacks"
      /\ plan' = IF pc = "measured" /\ plan # NoPlan /\ plan.stop = "none"
                 THEN [plan EXCEPT !.stop = "sample_budget_exhausted"] ELSE plan
      /\ UNCHANGED <<cfg, seq, queue, active, batch, attempts, iters, counts, warm, todo, up, progress>>
  <2> DEFINE next == [overhead |-> "pilot", pilot |-> "plan", measured |-> "cooldown", cooldown |-> "stacks"]
  <2>1. DOMAIN iters = Phases
    BY DEF RunInv, TypeInv
  <2>2. /\ pc \in Phases /\ Quiet
        /\ iters[pc] >= Budget(pc) \/ (pc = "measured" /\ plan.stop # "none")
        /\ pc' = next[pc]
        /\ plan' = IF pc = "measured" /\ plan # NoPlan /\ plan.stop = "none"
                   THEN [plan EXCEPT !.stop = "sample_budget_exhausted"] ELSE plan
        /\ UNCHANGED <<cfg, seq, queue, active, batch, attempts, iters, counts, warm, todo, up, progress>>
    BY <2>1 DEF NextPhase
  <2>3. /\ next["overhead"] = "pilot" /\ next["pilot"] = "plan" /\ next["measured"] = "cooldown"
        /\ next["cooldown"] = "stacks"
    OBVIOUS
  <2> HIDE DEF next
  <2> QED BY <2>2, <2>3
<1>2. ConfigOK /\ TypeInv /\ CountInv /\ StopInv
  BY DEF RunInv
<1>3. Quiet'
  BY <1>1 DEF Quiet
<1>4. plan \in Plan
  BY <1>2 DEF TypeInv
<1>5. /\ plan' \in Plan /\ plan'.source = plan.source /\ plan'.max = plan.max /\ plan'.min = plan.min
      /\ pc # "measured" => plan' = plan
  <2>1. CASE plan' = plan
    BY <1>4, <2>1
  <2>2. CASE plan' = [plan EXCEPT !.stop = "sample_budget_exhausted"] /\ pc = "measured"
    BY <1>4, <2>2 DEF Plan
  <2> QED BY <1>1, <2>1, <2>2
<1>6. Follows
  BY <1>1 DEF Follows, Phases
<1>7. /\ ConfigOK' /\ TypeInv' /\ CountInv' /\ TaskInv' /\ NumberInv' /\ ModesIsolated' /\ PhaseInv'
  BY <1>1, <1>5, <1>6, Moves
<1>8. /\ plan' = NoPlan <=> plan = NoPlan
      /\ plan' = NoPlan \/ (plan'.source # "none" /\ MeasuredBench(cfg))
  <2>1. NoPlan.source = "none"
    BY DEF NoPlan
  <2>2. plan = NoPlan \/ (plan.source # "none" /\ MeasuredBench(cfg))
    BY <1>2 DEF StopInv
  <2>3. plan = NoPlan => plan' = plan
    BY <1>1
  <2> QED BY <1>5, <2>1, <2>2, <2>3
<1>9. max_run_count(cfg, plan)' = max_run_count(cfg, plan) /\ MeasuredBench(cfg)' = MeasuredBench(cfg)
  BY <1>1, <1>5, <1>8 DEF max_run_count, MeasuredBench
<1>10. per \in Nat /\ plan.max \in Nat /\ iters.measured \in Nat /\ progress \in Nat
  BY <1>2, Sizes DEF Width, Tasks, TypeInv, Plan, Phases
<1>11. plan'.stop = "sample_budget_exhausted" => iters.measured = plan.max /\ progress >= plan.max * per
  <2>1. CASE plan' = plan
    BY <1>2, <2>1 DEF StopInv, StopHonest
  <2>2. CASE pc = "measured" /\ plan # NoPlan /\ plan.stop = "none"
    <3>1. iters.measured >= max_run_count(cfg, plan) /\ iters.measured <= max_run_count(cfg, plan)
      BY <1>1, <1>2, <2>2 DEF Budget, StopInv, StopHonest
    <3>2. max_run_count(cfg, plan) = plan.max
      BY <1>2, <2>2 DEF StopInv, max_run_count
    <3>3. iters.measured = plan.max
      BY <1>10, <3>1, <3>2
    <3>4. per * iters.measured <= progress
      BY <1>2 DEF CountInv, Of, Width, Tasks
    <3> HIDE DEF per
    <3>5. per * plan.max = plan.max * per /\ per * plan.max \in Nat
      BY <1>10, Product
    <3> QED BY <1>10, <3>3, <3>4, <3>5
  <2> QED BY <1>1, <2>1, <2>2
<1>12. StopHonest'
  <2>1. iters.measured <= max_run_count(cfg, plan)
    BY <1>2 DEF StopInv, StopHonest
  <2>2. pc' # "measured"
    BY <1>1 DEF Phases
  <2> QED BY <1>1, <1>5, <1>9, <1>11, <2>1, <2>2 DEF StopHonest
<1>13. pc' \notin {"measured", "cooldown"} \cup Late => plan' = NoPlan
  <2>1. pc' \notin {"measured", "cooldown"} \cup Late => pc \notin {"measured", "cooldown"} \cup Late
    BY <1>1 DEF Late, Phases
  <2> QED BY <1>2, <1>8, <2>1 DEF StopInv
<1>14. counts'.pilot > 0 => MeasuredBench(cfg)
  BY <1>1, <1>2 DEF StopInv
<1>15. pc' # "measured"
  BY <1>1 DEF Phases
<1>16. StopInv'
  BY <1>1, <1>3, <1>8, <1>9, <1>12, <1>13, <1>14, <1>15 DEF StopInv
<1> QED BY <1>7, <1>16 DEF RunInv

-----------------------------------------------------------------------------
(***************************************************************************)
(* An iteration's results are published.                                   *)
(***************************************************************************)
LEMMA Publishes ==
  ASSUME RunInv, Collected, NEW tag \in Tags, attempts' = attempts \o Tagged(batch, tag),
         batch' = <<>>, UNCHANGED <<cfg, seq, queue, active>>
  PROVE  /\ attempts' \in Seq(Published) /\ Len(attempts') = Len(attempts) + Len(batch)
         /\ Len(attempts) \in Nat /\ Len(batch) \in Nat /\ Len(batch) >= 1 /\ Owed = Len(batch)
         /\ DOMAIN attempts = 1..Len(attempts) /\ DOMAIN attempts' = 1..(Len(attempts) + Len(batch))
         /\ Quiet'
         /\ \A i \in 1..Len(attempts) : attempts'[i] = attempts[i]
         /\ \A i \in 1..Len(batch) :
              /\ attempts'[Len(attempts) + i].phase = tag
              /\ adaptive_case_id(attempts'[Len(attempts) + i]) = adaptive_case_id(batch[i])
         /\ \A i \in DOMAIN attempts' : i \in 1..Len(attempts) \/ \E j \in 1..Len(batch) : i = Len(attempts) + j
         /\ Addressable(attempts') /\ \A i \in DOMAIN attempts' : attempts'[i].seq < seq
         /\ \A i \in DOMAIN attempts' : Warmed < i => Settled(attempts'[i])
<1> DEFINE la == Len(attempts)
           lb == Len(batch)
<1>1. /\ ConfigOK /\ TypeInv /\ TaskInv /\ NumberInv
      /\ queue = <<>> /\ active = {} /\ batch # <<>>
  BY DEF RunInv, Collected
<1>2. /\ attempts \in Seq(Published) /\ batch \in Seq(Published) /\ la \in Nat /\ lb \in Nat
      /\ DOMAIN attempts = 1..la /\ DOMAIN batch = 1..lb
  BY <1>1, LenProperties DEF TypeInv
<1>3. lb >= 1
  <2>1. lb # 0
    BY <1>1, <1>2, EmptySeq
  <2> HIDE DEF lb
  <2> QED BY <1>2, <2>1
<1>4. Owed = lb
  <2>1. Len(queue) + Cardinality(active) = 0
    BY <1>1, FS_EmptySet
  <2>2. cfg.samples * 0 = 0
    BY <1>1, Resolved, OneMore
  <2> QED BY <1>2, <2>1, <2>2 DEF Owed
<1>5. PICK b : b = Tagged(batch, tag)
  OBVIOUS
<1>6. ASSUME NEW i \in 1..lb
      PROVE  /\ b[i] \in Published /\ b[i].phase = tag /\ b[i].seq = batch[i].seq
             /\ adaptive_case_id(b[i]) = adaptive_case_id(batch[i])
             /\ (Settled(b[i]) <=> Settled(batch[i]))
  <2>1. batch[i] \in Published
    BY <1>2, ElementOfSeq
  <2>2. b[i] = [batch[i] EXCEPT !.phase = tag]
    BY <1>2, <1>5 DEF Tagged
  <2>3. b[i] \in Published
    BY <2>1, <2>2 DEF Published
  <2>4. /\ b[i].phase = tag /\ b[i].seq = batch[i].seq /\ b[i].mode = batch[i].mode
        /\ b[i].bytes = batch[i].bytes /\ b[i].stack = batch[i].stack /\ b[i].ok = batch[i].ok
        /\ b[i].retry = batch[i].retry
    BY <2>1, <2>2 DEF Published
  <2> QED BY <2>3, <2>4 DEF adaptive_case_id, Settled
<1>7. b \in Seq(Published) /\ Len(b) = lb /\ DOMAIN b = 1..lb
  <2>1. DOMAIN b = 1..lb /\ b = [i \in 1..lb |-> b[i]]
    BY <1>2, <1>5 DEF Tagged
  <2> HIDE DEF lb
  <2>2. b \in [1..lb -> Published]
    BY <1>6, <2>1
  <2> QED BY <1>2, <2>1, <2>2
<1>9. attempts' = attempts \o b
  BY <1>5
<1>8. attempts' \in Seq(Published) /\ TwoParts(attempts', attempts, b)
  <2>1. PICK a \in Seq(Published) : a = attempts
    BY <1>2
  <2>2. PICK c : c = a \o b
    OBVIOUS
  <2>3. c \in Seq(Published) /\ TwoParts(c, a, b)
    BY <1>7, <2>2, Together
  <2>4. attempts' = c
    BY <1>9, <2>1, <2>2
  <2> QED BY <2>1, <2>3, <2>4
<1> HIDE DEF la, lb
<1>10. Quiet'
  BY <1>1 DEF Quiet
<1>11. Addressable(attempts) /\ Addressable(batch) /\ Distinct(attempts, batch)
  BY <1>1, Unique DEF NumberInv
<1>12. Addressable(b) /\ Distinct(attempts, b)
  BY <1>2, <1>6, <1>7, <1>11, SMTT(30) DEF Addressable, Distinct
<1>13. Addressable(attempts')
  BY <1>2, <1>7, <1>9, <1>11, <1>12, Joined
<1>14. /\ attempts' \in Seq(Published) /\ Len(attempts') = la + lb /\ DOMAIN attempts' = 1..(la + lb)
       /\ \A i \in 1..la : attempts'[i] = attempts[i]
       /\ \A i \in 1..lb : attempts'[la + i] = b[i]
       /\ \A i \in DOMAIN attempts' : i \in 1..la \/ \E j \in 1..lb : i = la + j
  <2>1. Len(b) = lb /\ DOMAIN attempts = 1..la /\ DOMAIN b = 1..lb
    BY <1>2, <1>7
  <2>2. /\ Len(attempts') = Len(attempts) + Len(b) /\ DOMAIN attempts' = 1..(Len(attempts) + Len(b))
        /\ \A i \in DOMAIN attempts : attempts'[i] = attempts[i]
        /\ \A i \in DOMAIN b : attempts'[Len(attempts) + i] = b[i]
        /\ \A i \in DOMAIN attempts' :
             (i \in DOMAIN attempts) \/ (\E j \in DOMAIN b : i = Len(attempts) + j)
    BY <1>8 DEF TwoParts
  <2> QED BY <1>8, <2>1, <2>2, Zenon DEF la
<1>15. ASSUME NEW i \in DOMAIN attempts'
       PROVE  attempts'[i].seq < seq /\ (Warmed < i => Settled(attempts'[i]))
  <2>1. CASE i \in 1..la
    BY <1>1, <1>2, <1>14, <2>1 DEF NumberInv, TaskInv
  <2>2. CASE \E j \in 1..lb : i = la + j
    <3>1. PICK j \in 1..lb : i = la + j
      BY <2>2
    <3>2. attempts'[i] = b[j]
      BY <1>14, <3>1
    <3>3. batch[j].seq < seq /\ Settled(batch[j])
      BY <1>1, <1>2 DEF NumberInv, TaskInv
    <3> QED BY <1>6, <3>2, <3>3
  <2> QED BY <1>14, <2>1, <2>2
<1>16. \A i \in 1..lb : /\ attempts'[la + i].phase = tag
                        /\ adaptive_case_id(attempts'[la + i]) = adaptive_case_id(batch[i])
  BY <1>6, <1>14
<1> QED BY <1>2, <1>3, <1>4, <1>10, <1>13, <1>14, <1>15, <1>16 DEF la, lb

\* The tags an iteration can carry.
LEMMA TagTyped ==
  ASSUME NEW p \in {"warmup", "overhead", "pilot", "cooldown", cfg.phase} PROVE benchmark_phase_tag(p) \in Tags
BY DEF benchmark_phase_tag, Tags

\* The counts as numbers.
LEMMA Numbers ==
  ASSUME ConfigOK, TypeInv
  PROVE  /\ Of(iters.overhead) \in Nat /\ Of(iters.pilot) \in Nat /\ Of(iters.measured) \in Nat
         /\ Of(iters.cooldown) \in Nat /\ Warmed \in Nat
         /\ OverheadEnd \in Nat /\ PilotEnd \in Nat /\ MeasuredEnd \in Nat /\ CooldownEnd \in Nat
         /\ Warmed <= OverheadEnd /\ OverheadEnd <= PilotEnd /\ PilotEnd <= MeasuredEnd
         /\ MeasuredEnd <= CooldownEnd
         /\ Of(0) = 0 /\ \A k \in Nat : Of(k + 1) = Of(k) + cfg.samples * Width
<1>1. cfg.samples * Width \in Nat
  BY Sizes
<1>2. /\ iters.overhead \in Nat /\ iters.pilot \in Nat /\ iters.measured \in Nat /\ iters.cooldown \in Nat
  BY DEF TypeInv, Phases
<1>3. \A k \in Nat : Of(k) \in Nat
  BY <1>1, Product DEF Of
<1>4. Warmed \in Nat
  BY DEF Warmed
<1>5. /\ Of(iters.overhead) \in Nat /\ Of(iters.pilot) \in Nat /\ Of(iters.measured) \in Nat
      /\ Of(iters.cooldown) \in Nat
  BY <1>2, <1>3
<1>6. Of(0) = 0 /\ \A k \in Nat : Of(k + 1) = Of(k) + cfg.samples * Width
  BY <1>1, OneMore DEF Of
<1>7. /\ OverheadEnd \in Nat /\ Warmed <= OverheadEnd
  BY <1>4, <1>5 DEF OverheadEnd
<1>8. PilotEnd \in Nat /\ OverheadEnd <= PilotEnd
  BY <1>5, <1>7 DEF PilotEnd
<1>9. MeasuredEnd \in Nat /\ PilotEnd <= MeasuredEnd
  BY <1>5, <1>8 DEF MeasuredEnd
<1>10. CooldownEnd \in Nat /\ MeasuredEnd <= CooldownEnd
  BY <1>5, <1>9 DEF CooldownEnd
<1> QED BY <1>4, <1>5, <1>6, <1>7, <1>8, <1>9, <1>10

\* The iteration of a phase ends.
LoopTag == IF pc = "measured" THEN cfg.phase ELSE pc

LEMMA PhaseEnds ==
  ASSUME RunInv, pc \in Phases, Publish(LoopTag), iters' = [iters EXCEPT ![pc] = @ + 1],
         counts' = IF pc = "measured" THEN counts ELSE Counted(pc, Len(batch)),
         pc' = pc \/ (pc = "pilot" /\ pc' = "plan"), plan' \in Plan, todo' = todo,
         progress' = IF pc = "measured" THEN progress + Len(batch) ELSE progress
  PROVE  /\ ConfigOK' /\ TypeInv' /\ CountInv' /\ TaskInv' /\ NumberInv' /\ ModesIsolated' /\ PhaseInv'
         /\ Quiet' /\ Len(batch) = cfg.samples * Width
<1> DEFINE tag == benchmark_phase_tag(LoopTag)
           W == cfg.samples * Width
<1>1. /\ ConfigOK /\ TypeInv /\ CountInv /\ TaskInv /\ NumberInv /\ ModesIsolated /\ PhaseInv /\ StopInv
  BY DEF RunInv
<1>2. /\ Collected /\ attempts' = attempts \o Tagged(batch, tag) /\ batch' = <<>>
      /\ UNCHANGED <<cfg, seq, queue, active, warm, up>>
  BY DEF Publish
<1>3. tag \in Tags
  BY TagTyped DEF LoopTag, Phases, benchmark_phase_tag, Tags
<1>4. /\ attempts' \in Seq(Published) /\ Len(attempts') = Len(attempts) + Len(batch)
      /\ Len(attempts) \in Nat /\ Len(batch) \in Nat /\ Len(batch) >= 1 /\ Owed = Len(batch)
      /\ DOMAIN attempts = 1..Len(attempts) /\ DOMAIN attempts' = 1..(Len(attempts) + Len(batch))
      /\ Quiet'
      /\ \A i \in 1..Len(attempts) : attempts'[i] = attempts[i]
      /\ \A i \in 1..Len(batch) : attempts'[Len(attempts) + i].phase = tag
      /\ \A i \in DOMAIN attempts' : i \in 1..Len(attempts) \/ \E j \in 1..Len(batch) : i = Len(attempts) + j
      /\ Addressable(attempts') /\ \A i \in DOMAIN attempts' : attempts'[i].seq < seq
      /\ \A i \in DOMAIN attempts' : Warmed < i => Settled(attempts'[i])
  <2> HIDE DEF tag
  <2> QED BY <1>2, <1>3, Publishes
<1>5. Len(batch) = W /\ W \in Nat
  <2>1. Owed \in {0, W} /\ W \in Nat
    BY <1>1, Sizes DEF CountInv
  <2> HIDE DEF W
  <2> QED BY <1>4, <2>1
<1>6. ConfigOK'
  BY <1>1, <1>2, ConfigKept
<1>7. iters \in [Phases -> Nat] /\ counts \in [SpecialPhases -> Nat] /\ progress \in Nat
  BY <1>1 DEF TypeInv
<1>8. TypeInv'
  <2>1. Job' = Job /\ Published' = Published
    BY <1>2 DEF Job, Published, Stacks, Tags
  <2>2. iters' \in [Phases -> Nat]
    BY <1>7
  <2>3. counts' \in [SpecialPhases -> Nat]
    <3>1. pc \in SpecialPhases \/ pc = "measured"
      BY DEF Phases, SpecialPhases
    <3>2. pc \in SpecialPhases => counts[pc] + Len(batch) \in Nat
      BY <1>4, <1>7
    <3> QED BY <1>7, <3>1, <3>2 DEF Counted
  <2>4. progress' \in Nat
    BY <1>4, <1>7
  <2>5. pc' \in Places
    BY DEF Phases, Places
  <2>6. batch' \in Seq(Published)
    BY <1>2, EmptySeq
  <2> QED BY <1>1, <1>2, <1>4, <2>1, <2>2, <2>3, <2>4, <2>5, <2>6 DEF TypeInv, Plan
<1>9. Warmed' = Warmed
  <2>1. pc \notin Early \cup {"warm2", "warm3"} /\ pc' \notin Early \cup {"warm2", "warm3"}
    BY DEF Phases, Early
  <2> QED BY <1>2, <2>1 DEF Warmed
<1>10. TaskInv' /\ NumberInv' /\ ModesIsolated' /\ Owed' = 0
  <2>1. (\A i \in DOMAIN attempts : Warmed < i => Settled(attempts[i]))'
    BY <1>2, <1>4, <1>9 DEF Settled
  <2>2. Addressable(attempts)' /\ (\A i \in DOMAIN attempts : attempts[i].seq < seq)'
    BY <1>2, <1>4 DEF Addressable
  <2> QED BY <1>4, <1>6, <1>8, <2>1, <2>2, AtRestNext
<1>11. Width' = Width
  BY <1>2, SameWidth
<1>12. /\ Of(iters.overhead)' = Of(iters.overhead) + (IF pc = "overhead" THEN W ELSE 0)
       /\ Of(iters.pilot)' = Of(iters.pilot) + (IF pc = "pilot" THEN W ELSE 0)
       /\ Of(iters.measured)' = Of(iters.measured) + (IF pc = "measured" THEN W ELSE 0)
       /\ Of(iters.cooldown)' = Of(iters.cooldown) + (IF pc = "cooldown" THEN W ELSE 0)
  <2>1. \A k \in Nat : Of(k + 1) = Of(k) + W /\ Of(k) \in Nat
    BY <1>1, Numbers, Product, Sizes DEF Of
  <2>2. ASSUME NEW p \in Phases
        PROVE  Of(iters'[p]) = Of(iters[p]) + (IF pc = p THEN W ELSE 0)
    <3>1. iters[p] \in Nat /\ iters'[p] = iters[p] + (IF pc = p THEN 1 ELSE 0)
      BY <1>7
    <3> HIDE DEF W
    <3>2. CASE pc = p
      BY <2>1, <3>1, <3>2
    <3>3. CASE pc # p
      <4>1. iters'[p] = iters[p]
        BY <3>1, <3>3
      <4>2. Of(iters'[p]) = Of(iters[p]) /\ Of(iters[p]) \in Nat
        BY <2>1, <3>1, <4>1
      <4> QED BY <3>3, <4>2
    <3> QED BY <3>2, <3>3
  <2>3. \A p \in Phases : Of(iters[p])' = Of(iters'[p])
    BY <1>2, <1>11 DEF Of
  <2> HIDE DEF W
  <2> QED BY <2>2, <2>3 DEF Phases
<1>13. /\ Of(iters.overhead) \in Nat /\ Of(iters.pilot) \in Nat /\ Of(iters.measured) \in Nat
       /\ Of(iters.cooldown) \in Nat /\ Warmed \in Nat
       /\ Of(0) = 0
  BY <1>1, Numbers
<1>14. /\ pc # "cooldown" => iters.cooldown = 0
       /\ pc \in {"overhead", "pilot"} => iters.measured = 0
       /\ pc = "overhead" => iters.pilot = 0
       /\ Len(attempts) = CooldownEnd /\ up = {}
  BY <1>1 DEF CountInv, Phases, Late
<1>15. /\ pc # "cooldown" => Of(iters.cooldown) = 0
       /\ pc \in {"overhead", "pilot"} => Of(iters.measured) = 0
       /\ pc = "overhead" => Of(iters.pilot) = 0
  BY <1>13, <1>14
<1> DEFINE o == Of(iters.overhead)
           q == Of(iters.pilot)
           m == Of(iters.measured)
           c == Of(iters.cooldown)
           o2 == Of(iters.overhead)'
           q2 == Of(iters.pilot)'
           m2 == Of(iters.measured)'
           c2 == Of(iters.cooldown)'
<1>16. /\ OverheadEnd = Warmed + o /\ PilotEnd = Warmed + o + q /\ MeasuredEnd = Warmed + o + q + m
       /\ CooldownEnd = Warmed + o + q + m + c
       /\ OverheadEnd' = Warmed + o2 /\ PilotEnd' = Warmed + o2 + q2
       /\ MeasuredEnd' = Warmed + o2 + q2 + m2 /\ CooldownEnd' = Warmed + o2 + q2 + m2 + c2
  BY <1>9 DEF OverheadEnd, PilotEnd, MeasuredEnd, CooldownEnd
<1>17. /\ o \in Nat /\ q \in Nat /\ m \in Nat /\ c \in Nat
       /\ o2 = o + (IF pc = "overhead" THEN W ELSE 0) /\ q2 = q + (IF pc = "pilot" THEN W ELSE 0)
       /\ m2 = m + (IF pc = "measured" THEN W ELSE 0) /\ c2 = c + (IF pc = "cooldown" THEN W ELSE 0)
       /\ pc # "cooldown" => c = 0
       /\ pc \in {"overhead", "pilot"} => m = 0
       /\ pc = "overhead" => q = 0
  BY <1>12, <1>13, <1>15
<1> HIDE DEF o, q, m, c, o2, q2, m2, c2, W
<1>18. CooldownEnd' = CooldownEnd + W
  BY <1>5, <1>13, <1>16, <1>17 DEF Phases
<1>19. CountInv'
  <2>1. pc' \notin Late
    BY DEF Phases, Late
  <2>2. Len(attempts') = CooldownEnd' /\ up' = {}
    BY <1>2, <1>4, <1>5, <1>14, <1>18
  <2>3. /\ pc' \notin Phases \cup {"plan"} \cup Late => iters'.overhead = 0
        /\ pc' \notin (Phases \ {"overhead"}) \cup {"plan"} \cup Late => iters'.pilot = 0
        /\ pc' \notin {"measured", "cooldown"} \cup Late => iters'.measured = 0
        /\ pc' \notin {"cooldown"} \cup Late => iters'.cooldown = 0
    BY <1>7, <1>14 DEF Phases, Late
  <2>4. cfg.bench => /\ counts'.warmup = Warmed /\ counts'.overhead = o2
                     /\ counts'.pilot = q2 /\ counts'.cooldown = c2
    <3>1. SUFFICES ASSUME cfg.bench
                   PROVE  /\ counts'.warmup = Warmed /\ counts'.overhead = o2
                          /\ counts'.pilot = q2 /\ counts'.cooldown = c2
      OBVIOUS
    <3>2. /\ counts.warmup = Warmed /\ counts.overhead = o /\ counts.pilot = q /\ counts.cooldown = c
      BY <1>1, <3>1 DEF CountInv, o, q, c
    <3>3. /\ counts'.warmup = counts.warmup
          /\ counts'.overhead = counts.overhead + (IF pc = "overhead" THEN W ELSE 0)
          /\ counts'.pilot = counts.pilot + (IF pc = "pilot" THEN W ELSE 0)
          /\ counts'.cooldown = counts.cooldown + (IF pc = "cooldown" THEN W ELSE 0)
      <4>1. CASE pc = "measured"
        <5>1. counts' = counts /\ counts.overhead \in Nat /\ counts.pilot \in Nat /\ counts.cooldown \in Nat
          BY <1>7, <4>1 DEF SpecialPhases
        <5> QED BY <4>1, <5>1
      <4>2. CASE pc # "measured"
        <5>1. counts' = [counts EXCEPT ![pc] = @ + W] /\ pc \in {"overhead", "pilot", "cooldown"}
          BY <1>5, <3>1, <4>2 DEF Counted, Phases
        <5>2. \A f \in SpecialPhases : counts[f] \in Nat /\ counts'[f] = IF f = pc THEN counts[f] + W ELSE counts[f]
          BY <1>5, <1>7, <5>1 DEF SpecialPhases
        <5> QED BY <5>1, <5>2 DEF SpecialPhases
      <4> QED BY <4>1, <4>2
    <3> QED BY <1>17, <3>2, <3>3
  <2>5. m2 <= progress'
    <3>1. m <= progress
      BY <1>1 DEF CountInv, m
    <3> QED BY <1>5, <1>7, <1>17, <3>1
  <2> QED BY <1>2, <1>9, <1>10, <2>1, <2>2, <2>3, <2>4, <2>5 DEF CountInv, o2, q2, m2, c2
<1>20. PhaseInv'
  <2>1. ASSUME NEW i \in 1..Len(attempts) PROVE LoopPhase(i)' = LoopPhase(i)
    <3>1. i <= Warmed + o + q + m + c /\ i \in Nat
      BY <1>4, <1>14, <1>16
    <3>2. CASE pc = "overhead"
      BY <1>5, <1>9, <1>13, <1>16, <1>17, <3>1, <3>2 DEF LoopPhase
    <3>3. CASE pc = "pilot"
      BY <1>5, <1>9, <1>13, <1>16, <1>17, <3>1, <3>3 DEF LoopPhase
    <3>4. CASE pc = "measured"
      BY <1>2, <1>5, <1>9, <1>13, <1>16, <1>17, <3>1, <3>4 DEF LoopPhase
    <3>5. CASE pc = "cooldown"
      BY <1>2, <1>5, <1>9, <1>13, <1>16, <1>17, <3>1, <3>5 DEF LoopPhase
    <3> QED BY <3>2, <3>3, <3>4, <3>5 DEF Phases
  <2>2. ASSUME NEW i \in Nat, NEW j \in 1..W, i = Len(attempts) + j PROVE LoopPhase(i)' = LoopTag
    <3>1. i = Warmed + o + q + m + c + j
      BY <1>14, <1>16, <2>2
    <3>2. CASE pc = "overhead"
      BY <1>5, <1>9, <1>13, <1>16, <1>17, <3>1, <3>2 DEF LoopPhase, LoopTag
    <3>3. CASE pc = "pilot"
      BY <1>5, <1>9, <1>13, <1>16, <1>17, <3>1, <3>3 DEF LoopPhase, LoopTag
    <3>4. CASE pc = "measured"
      BY <1>2, <1>5, <1>9, <1>13, <1>16, <1>17, <3>1, <3>4 DEF LoopPhase, LoopTag
    <3>5. CASE pc = "cooldown"
      BY <1>5, <1>9, <1>13, <1>16, <1>17, <3>1, <3>5 DEF LoopPhase, LoopTag
    <3> QED BY <3>2, <3>3, <3>4, <3>5 DEF Phases
  <2>3. \A p : benchmark_phase_tag(p)' = benchmark_phase_tag(p)
    BY <1>2 DEF benchmark_phase_tag
  <2>4. ASSUME NEW i \in DOMAIN attempts' PROVE attempts'[i].phase = benchmark_phase_tag(LoopPhase(i))'
    <3>1. CASE i \in 1..Len(attempts)
      <4>1. attempts'[i].phase = benchmark_phase_tag(LoopPhase(i))
        BY <1>1, <1>4, <1>14, <3>1 DEF PhaseInv
      <4>2. LoopPhase(i)' = LoopPhase(i)
        BY <2>1, <3>1
      <4> QED BY <1>2, <4>1, <4>2 DEF benchmark_phase_tag
    <3>2. CASE \E j \in 1..Len(batch) : i = Len(attempts) + j
      <4>1. PICK j \in 1..Len(batch) : i = Len(attempts) + j
        BY <3>2
      <4>2. attempts'[i].phase = benchmark_phase_tag(LoopTag)
        BY <1>4, <4>1
      <4>3. i \in Nat
        BY <1>4, <4>1
      <4>4. LoopPhase(i)' = LoopTag
        BY <1>5, <2>2, <4>1, <4>3
      <4> QED BY <1>2, <4>2, <4>4 DEF benchmark_phase_tag
    <3> QED BY <1>4, <3>1, <3>2
  <2> QED BY <2>4 DEF PhaseInv
<1> QED BY <1>4, <1>5, <1>6, <1>8, <1>10, <1>19, <1>20 DEF W

LEMMA EndFixedInv ==
  ASSUME RunInv, EndOverhead \/ EndCooldown PROVE RunInv'
<1>1. PICK p \in {"overhead", "cooldown"} : EndFixed(p)
  BY DEF EndOverhead, EndCooldown
<1>2. /\ pc = p /\ Publish(p) /\ iters' = [iters EXCEPT ![p] = @ + 1] /\ counts' = Counted(p, Len(batch))
      /\ UNCHANGED <<pc, plan, todo, progress>>
  BY <1>1 DEF EndFixed
<1>3. ConfigOK /\ TypeInv /\ StopInv /\ plan' \in Plan /\ cfg' = cfg
  BY <1>2 DEF RunInv, TypeInv, Publish
<1>4. /\ ConfigOK' /\ TypeInv' /\ CountInv' /\ TaskInv' /\ NumberInv' /\ ModesIsolated' /\ PhaseInv'
  <2>1. pc \in Phases /\ LoopTag = p /\ pc # "measured"
    BY <1>2 DEF Phases, LoopTag
  <2> QED BY <1>2, <1>3, <2>1, PhaseEnds
<1>5. StopInv'
  <2>1. MeasuredBench(cfg)' = MeasuredBench(cfg) /\ max_run_count(cfg, plan)' = max_run_count(cfg, plan)
    BY <1>2, <1>3 DEF MeasuredBench, max_run_count
  <2>2. iters'.measured = iters.measured /\ pc # "measured" /\ pc # "pilot"
    BY <1>2, <1>3 DEF TypeInv, Phases
  <2>3. counts'.pilot = counts.pilot
    BY <1>2, <1>3 DEF TypeInv, Counted, SpecialPhases
  <2>4. StopHonest'
    BY <1>2, <1>3, <2>1, <2>2 DEF StopInv, StopHonest
  <2> QED BY <1>2, <1>3, <2>1, <2>2, <2>3, <2>4 DEF StopInv
<1> QED BY <1>4, <1>5 DEF RunInv

LEMMA EndPilotInv ==
  ASSUME RunInv, NEW long \in BOOLEAN, EndPilot(long) PROVE RunInv'
<1>1. /\ pc = "pilot" /\ Publish("pilot") /\ iters' = [iters EXCEPT !["pilot"] = @ + 1]
      /\ counts' = Counted("pilot", Len(batch))
      /\ pc' \in {"plan", "pilot"} /\ UNCHANGED <<plan, todo, progress>>
  BY DEF EndPilot
<1>2. ConfigOK /\ TypeInv /\ StopInv /\ CountInv /\ plan' \in Plan /\ cfg' = cfg /\ ~Quiet
  BY <1>1 DEF RunInv, TypeInv, Publish, Collected, Quiet
<1>3. /\ ConfigOK' /\ TypeInv' /\ CountInv' /\ TaskInv' /\ NumberInv' /\ ModesIsolated' /\ PhaseInv'
  <2>1. pc \in Phases /\ LoopTag = "pilot" /\ pc # "measured"
    BY <1>1 DEF Phases, LoopTag
  <2> QED BY <1>1, <1>2, <2>1, PhaseEnds
<1>4. plan = NoPlan /\ NoPlan.stop = "none"
  BY <1>1, <1>2 DEF StopInv, Late, NoPlan
<1>5. MeasuredBench(cfg)
  BY <1>1, <1>2 DEF StopInv
<1>6. StopInv'
  <2>1. MeasuredBench(cfg)' /\ max_run_count(cfg, plan)' = max_run_count(cfg, plan)
    BY <1>1, <1>2, <1>5 DEF MeasuredBench, max_run_count
  <2>2. iters'.measured = iters.measured
    BY <1>1, <1>2 DEF TypeInv, Phases
  <2>3. StopHonest'
    BY <1>1, <1>2, <1>4, <2>1, <2>2 DEF StopInv, StopHonest
  <2> QED BY <1>1, <1>2, <1>4, <2>1, <2>2, <2>3 DEF StopInv
<1> QED BY <1>3, <1>6 DEF RunInv

\* The last attempts of a stream.
Newest(all, v) == SubSeq(all, Len(all) - v + 1, Len(all))

LEMMA NewestTyped ==
  ASSUME NEW S, NEW all \in Seq(S), NEW v \in Nat, v <= Len(all)
  PROVE  /\ Newest(all, v) \in Seq(S) /\ Len(Newest(all, v)) = v
         /\ \A i \in 1..v : Newest(all, v)[i] = all[Len(all) - v + i]
<1>1. PICK w \in Nat, lo \in Int : w = Len(all) /\ lo = w - v + 1
  <2>1. Len(all) \in Nat
    BY LenProperties
  <2>2. Len(all) - v + 1 \in Int
    BY <2>1
  <2> QED BY <2>1, <2>2
<1>2. \A i \in lo..w : all[i] \in S
  <2>1. \A i \in lo..w : i \in 1..w
    BY <1>1
  <2> QED BY <1>1, <2>1, ElementOfSeq
<1>3. PICK last : last = SubSeq(all, lo, w)
  OBVIOUS
<1>4. /\ last \in Seq(S) /\ Len(last) = IF lo <= w THEN w - lo + 1 ELSE 0
      /\ \A i \in 1..(w - lo + 1) : last[i] = all[lo + i - 1]
  BY <1>2, <1>3, SubSeqProperties
<1>5. w - lo + 1 = v /\ (~(lo <= w) => v = 0) /\ \A i \in 1..v : lo + i - 1 = w - v + i
  BY <1>1
<1>6. last \in Seq(S) /\ Len(last) = v /\ \A i \in 1..v : last[i] = all[w - v + i]
  BY <1>4, <1>5
<1>7. Newest(all, v) = last
  BY <1>1, <1>3, Zenon DEF Newest
<1> QED BY <1>1, <1>6, <1>7

\* The measured attempts are the last ones published.
Continues(all, old, new) ==
  /\ Len(all) = Len(old) + Len(new)
  /\ \A i \in 1..Len(old) : all[i] = old[i]
  /\ \A i \in 1..Len(new) : adaptive_case_id(all[Len(old) + i]) = adaptive_case_id(new[i])

EndsWith(xs, old, new, n) ==
  /\ n <= Len(old) /\ Len(xs) = n + Len(new)
  /\ \A i \in 1..n : xs[i] = old[Len(old) - n + i]
  /\ \A i \in 1..Len(new) : xs[n + i] = new[i]

LEMMA TailsAgree ==
  ASSUME NEW S, NEW old \in Seq(S), NEW new \in Seq(S), NEW all \in Seq(S), NEW xs \in Seq(S),
         NEW n \in Nat, Continues(all, old, new), EndsWith(xs, old, new, n),
         NEW v, v = n + Len(new)
  PROVE  completed_samples(Newest(all, v)) = completed_samples(xs)
<1>1. PICK la \in Nat, lb \in Nat, w \in Nat : la = Len(old) /\ lb = Len(new) /\ w = Len(all)
  <2>1. Len(old) \in Nat /\ Len(new) \in Nat /\ Len(all) \in Nat
    BY LenProperties
  <2> QED BY <2>1
<1>2. v = n + lb /\ w = la + lb /\ n <= la /\ Len(xs) = v
  BY <1>1 DEF Continues, EndsWith
<1>3. PICK ys : ys = Newest(all, v)
  OBVIOUS
<1>4. ys \in Seq(S) /\ Len(ys) = v /\ \A i \in 1..v : ys[i] = all[la - n + i]
  <2>1. v \in Nat /\ v <= Len(all)
    BY <1>1, <1>2
  <2>2. /\ Newest(all, v) \in Seq(S) /\ Len(Newest(all, v)) = v
        /\ \A i \in 1..v : Newest(all, v)[i] = all[Len(all) - v + i]
    BY <2>1, NewestTyped
  <2>3. ys \in Seq(S) /\ Len(ys) = v /\ \A i \in 1..v : ys[i] = all[Len(all) - v + i]
    BY <1>3, <2>2, Zenon
  <2>4. \A i \in 1..v : Len(all) - v + i = la - n + i
    BY <1>1, <1>2
  <2> QED BY <2>3, <2>4
<1>5. ASSUME NEW i \in 1..v PROVE adaptive_case_id(xs[i]) = adaptive_case_id(ys[i])
  <2>1. CASE i \in 1..n
    <3>1. la - n + i \in 1..la
      BY <1>2, <2>1
    <3>2. ys[i] = old[la - n + i]
      BY <1>1, <1>4, <3>1 DEF Continues
    <3> QED BY <1>1, <2>1, <3>2 DEF EndsWith
  <2>2. CASE i \notin 1..n
    <3>1. PICK j \in 1..lb : i = n + j
      <4>1. i - n \in 1..lb /\ i = n + (i - n)
        BY <1>2, <2>2
      <4> QED BY <4>1
    <3>2. la - n + i = la + j
      BY <1>2, <3>1
    <3>3. ys[i] = all[la + j] /\ xs[i] = new[j]
      BY <1>1, <1>4, <3>1, <3>2 DEF EndsWith
    <3> QED BY <1>1, <3>1, <3>3 DEF Continues
  <2> QED BY <2>1, <2>2
<1>6. Len(xs) = Len(ys) /\ DOMAIN xs = 1..v
  BY <1>1, <1>2, <1>4, LenProperties
<1>7. completed_samples(xs) = completed_samples(ys)
  BY <1>4, <1>5, <1>6, SameCompleted
<1> QED BY <1>3, <1>7

LEMMA MeasuredAre ==
  ASSUME NEW per
  PROVE  /\ RunInv /\ pc = "measured" /\ Publish(cfg.phase)
         /\ iters' = [iters EXCEPT !.measured = @ + 1]
         /\ Len(batch) = cfg.samples * Width /\ per = cfg.samples * Width
         => completed_samples(SubSeq(attempts', Len(attempts') - per * iters'.measured + 1, Len(attempts')))
              = completed_samples(Recent(Len(batch) * iters.measured))
<1>0. SUFFICES ASSUME RunInv, pc = "measured", Publish(cfg.phase),
                      iters' = [iters EXCEPT !.measured = @ + 1],
                      Len(batch) = cfg.samples * Width, per = cfg.samples * Width
               PROVE  completed_samples(SubSeq(attempts', Len(attempts') - per * iters'.measured + 1,
                                               Len(attempts')))
                        = completed_samples(Recent(Len(batch) * iters.measured))
  OBVIOUS
<1> DEFINE m == iters.measured
           tag == benchmark_phase_tag(cfg.phase)
<1>1. ConfigOK /\ TypeInv /\ CountInv
  BY <1>0 DEF RunInv
<1>2. /\ per \in Nat /\ m \in Nat /\ per * m \in Nat /\ Len(batch) = per
      /\ attempts \in Seq(Published) /\ batch \in Seq(Published) /\ Len(attempts) \in Nat
  <2>1. per \in Nat /\ m \in Nat /\ Len(attempts) \in Nat
    BY <1>0, <1>1, Sizes DEF TypeInv, Phases
  <2>2. per * m \in Nat
    BY <2>1, Product
  <2> QED BY <1>0, <1>1, <2>1, <2>2 DEF TypeInv
<1>3. per * m <= Len(attempts)
  <2>1. Len(attempts) = CooldownEnd /\ per * m = Of(m)
    BY <1>0, <1>1 DEF CountInv, Late, Of
  <2>2. /\ PilotEnd \in Nat /\ Of(m) \in Nat /\ MeasuredEnd <= CooldownEnd
        /\ MeasuredEnd \in Nat /\ CooldownEnd \in Nat
    BY <1>1, Numbers
  <2>3. MeasuredEnd = PilotEnd + Of(m)
    BY DEF MeasuredEnd
  <2> HIDE DEF m
  <2> QED BY <2>1, <2>2, <2>3
<1>4. per * iters'.measured = per * m + Len(batch)
  <2>1. iters'.measured = m + 1
    BY <1>0, <1>1 DEF TypeInv, Phases
  <2>2. per * (m + 1) = per * m + per
    BY <1>2, OneMore
  <2> QED BY <1>2, <2>1, <2>2
<1>5. /\ attempts' \in Seq(Published) /\ Len(attempts') = Len(attempts) + Len(batch)
      /\ \A i \in 1..Len(attempts) : attempts'[i] = attempts[i]
      /\ \A i \in 1..Len(batch) :
           adaptive_case_id(attempts'[Len(attempts) + i]) = adaptive_case_id(batch[i])
  <2>1. tag \in Tags
    BY TagTyped
  <2>2. /\ Collected /\ attempts' = attempts \o Tagged(batch, tag) /\ batch' = <<>>
        /\ UNCHANGED <<cfg, seq, queue, active>>
    BY <1>0 DEF Publish
  <2> HIDE DEF tag
  <2> QED BY <1>0, <2>1, <2>2, Publishes
<1>6. PICK n \in Nat : n = per * m
  BY <1>2
<1>16. PICK v : v = per * iters'.measured
  OBVIOUS
<1>7. PICK all \in Seq(Published) : all = attempts'
  BY <1>5
<1>8. PICK xs : xs = Recent(n)
  OBVIOUS
<1>9. /\ xs \in Seq(Published) /\ Len(xs) = n + Len(batch)
      /\ \A i \in 1..n : xs[i] = attempts[Len(attempts) - n + i]
      /\ \A i \in 1..Len(batch) : xs[n + i] = batch[i]
  BY <1>1, <1>3, <1>6, <1>8, RecentTyped
<1> HIDE DEF m
<1>10. v = n + Len(batch) /\ Continues(all, attempts, batch) /\ EndsWith(xs, attempts, batch, n)
  <2>1. v = n + Len(batch) /\ n <= Len(attempts)
    BY <1>3, <1>4, <1>6, <1>16, Zenon
  <2>2. Continues(all, attempts, batch)
    BY <1>5, <1>7, Zenon DEF Continues
  <2> QED BY <1>9, <2>1, <2>2 DEF EndsWith
<1>11. completed_samples(Newest(all, v)) = completed_samples(xs)
  BY <1>2, <1>9, <1>10, TailsAgree
<1>12. Len(batch) * iters.measured = n
  BY <1>2, <1>6 DEF m
<1> QED BY <1>6, <1>16, <1>7, <1>8, <1>11, <1>12 DEF Newest

LEMMA EndMeasuredInv ==
  ASSUME RunInv, NEW long \in BOOLEAN, NEW close \in BOOLEAN, EndMeasured(long, close) PROVE RunInv'
<1> DEFINE per == cfg.samples * Len(mode_tasks(cfg.modes, cfg.sizes))
           as == Recent(Len(batch) * iters.measured)
<1>1. PICK stop : /\ stop = IF plan = NoPlan THEN "none" ELSE benchmark_adaptive_status(plan, as, long, close)
                  /\ plan' = [plan EXCEPT !.stop = stop]
  BY DEF EndMeasured
<1>2. /\ pc = "measured" /\ Publish(cfg.phase) /\ iters' = [iters EXCEPT !.measured = @ + 1]
      /\ progress' = progress + Len(batch) /\ UNCHANGED <<pc, counts, todo>>
  BY DEF EndMeasured
<1>3. ConfigOK /\ TypeInv /\ StopInv /\ cfg' = cfg /\ ~Quiet /\ plan \in Plan
  BY <1>2 DEF RunInv, TypeInv, Publish, Collected, Quiet
<1>4. stop \in {"none", "max_samples_reached", "accuracy_target_reached"}
  BY <1>1 DEF benchmark_adaptive_status
<1>5. /\ plan' \in Plan /\ plan'.source = plan.source /\ plan'.max = plan.max /\ plan'.min = plan.min
      /\ plan'.stop = stop
  BY <1>1, <1>3, <1>4 DEF Plan
<1>6. /\ ConfigOK' /\ TypeInv' /\ CountInv' /\ TaskInv' /\ NumberInv' /\ ModesIsolated' /\ PhaseInv'
      /\ Quiet' /\ Len(batch) = cfg.samples * Width
  <2>1. pc \in Phases /\ LoopTag = cfg.phase
    BY <1>2 DEF Phases, LoopTag
  <2> QED BY <1>2, <1>5, <2>1, PhaseEnds
<1>7. plan = NoPlan => plan' = NoPlan
  <2>1. plan = NoPlan => stop = "none" /\ plan.stop = "none"
    BY <1>1 DEF NoPlan
  <2> QED BY <1>1, <1>3, <2>1 DEF NoPlan
<1>8. plan = NoPlan \/ (plan.source # "none" /\ MeasuredBench(cfg))
  BY <1>3 DEF StopInv
<1>9. plan' = NoPlan <=> plan = NoPlan
  <2>1. NoPlan.source = "none"
    BY DEF NoPlan
  <2> QED BY <1>5, <1>7, <1>8, <2>1
<1>10. MeasuredBench(cfg)' = MeasuredBench(cfg) /\ max_run_count(cfg, plan)' = max_run_count(cfg, plan)
  BY <1>3, <1>5, <1>9 DEF MeasuredBench, max_run_count
<1>11. iters'.measured <= max_run_count(cfg, plan)
  <2>1. iters.measured < max_run_count(cfg, plan)
    BY <1>2, <1>3 DEF StopInv
  <2>2. iters.measured \in Nat /\ iters'.measured = iters.measured + 1
    BY <1>2, <1>3 DEF TypeInv, Phases
  <2>3. max_run_count(cfg, plan) \in Nat
    <3>1. cfg.runs \in Nat /\ plan.max \in Nat
      BY <1>3, Resolved DEF Plan
    <3> QED BY <3>1 DEF max_run_count
  <2> QED BY <2>1, <2>2, <2>3
<1>12. ASSUME stop = "accuracy_target_reached"
       PROVE  completed_samples(SubSeq(attempts', Len(attempts') - per * iters'.measured + 1, Len(attempts')))
                >= plan.min
  <2>1. completed_samples(as) >= plan.min
    BY <1>1, <1>12 DEF benchmark_adaptive_status
  <2>2. PICK w : w = cfg.samples * Width
    OBVIOUS
  <2>3. w = per
    BY <2>2 DEF Width, Tasks
  <2>4. completed_samples(SubSeq(attempts', Len(attempts') - w * iters'.measured + 1, Len(attempts')))
          = completed_samples(as)
    BY <1>2, <1>3, <1>6, <2>2, MeasuredAre
  <2> QED BY <2>1, <2>3, <2>4
<1>13. StopHonest'
  <2>1. per' = per
    BY <1>3
  <2> HIDE DEF per
  <2>2. /\ iters'.measured <= max_run_count(cfg, plan)'
        /\ plan'.stop = "accuracy_target_reached" =>
             completed_samples(SubSeq(attempts', Len(attempts') - per' * iters'.measured + 1, Len(attempts')))
               >= plan'.min
        /\ plan'.stop # "sample_budget_exhausted"
    BY <1>4, <1>5, <1>10, <1>11, <1>12, <2>1
  <2> QED BY <2>2 DEF StopHonest, per
<1>14. StopInv'
  <2>1. counts'.pilot > 0 => MeasuredBench(cfg)
    BY <1>2, <1>3 DEF StopInv
  <2> QED BY <1>2, <1>4, <1>5, <1>6, <1>8, <1>9, <1>10, <1>13, <2>1 DEF StopInv
<1> QED BY <1>6, <1>14 DEF RunInv

-----------------------------------------------------------------------------
(***************************************************************************)
(* The stacks.                                                             *)
(***************************************************************************)
LEMMA EndStackInv ==
  ASSUME RunInv, EndStack PROVE RunInv'
<1> DEFINE tag == benchmark_phase_tag(cfg.phase)
           X == cfg.samples * Breadth
<1>1. /\ ConfigOK /\ TypeInv /\ CountInv /\ StopInv
  BY DEF RunInv
<1>2. /\ pc = "stacks" /\ Collected /\ attempts' = attempts \o Tagged(batch, tag) /\ batch' = <<>>
      /\ UNCHANGED <<cfg, pc, seq, queue, active, iters, counts, plan, todo, progress, warm, up>>
  BY DEF EndStack, Publish
<1>3. tag \in Tags
  BY TagTyped
<1>4. /\ attempts' \in Seq(Published) /\ Len(attempts') = Len(attempts) + Len(batch)
      /\ Len(attempts) \in Nat /\ Len(batch) \in Nat /\ Len(batch) >= 1 /\ Owed = Len(batch)
      /\ Quiet' /\ Addressable(attempts') /\ \A i \in DOMAIN attempts' : attempts'[i].seq < seq
      /\ \A i \in DOMAIN attempts' : Warmed < i => Settled(attempts'[i])
  <2> HIDE DEF tag
  <2> QED BY <1>2, <1>3, Publishes
<1>5. ConfigOK'
  BY <1>1, <1>2, ConfigKept
<1>6. TypeInv'
  <2>1. Job' = Job /\ Published' = Published
    BY <1>2 DEF Job, Published, Stacks, Tags
  <2>2. batch' \in Seq(Published)
    BY <1>2, EmptySeq
  <2> QED BY <1>1, <1>2, <1>4, <2>1, <2>2 DEF TypeInv, Plan
<1>7. Warmed' = Warmed /\ CooldownEnd' = CooldownEnd
  BY <1>2, SameEnds
<1>8. TaskInv' /\ NumberInv' /\ ModesIsolated' /\ Owed' = 0
  <2>1. (\A i \in DOMAIN attempts : Warmed < i => Settled(attempts[i]))'
    BY <1>2, <1>4, <1>7 DEF Settled
  <2>2. Addressable(attempts)' /\ (\A i \in DOMAIN attempts : attempts[i].seq < seq)'
    BY <1>2, <1>4 DEF Addressable
  <2> QED BY <1>4, <1>5, <1>6, <2>1, <2>2, AtRestNext
<1>9. /\ Len(attempts) + Len(batch) = CooldownEnd + X * Cardinality(up)
      /\ CooldownEnd <= Len(attempts) /\ CooldownEnd \in Nat
      /\ X \in Nat /\ Cardinality(up) \in Nat /\ IsFiniteSet(up)
  BY <1>1, <1>2, <1>4, Numbers, Sizes DEF CountInv, Late
<1>10. X' = X
  BY <1>2, SameWidth
<1> HIDE DEF X
<1>11. CountInv'
  <2>1. /\ Width' = Width
        /\ Of(iters.overhead)' = Of(iters.overhead) /\ Of(iters.pilot)' = Of(iters.pilot)
        /\ Of(iters.measured)' = Of(iters.measured) /\ Of(iters.cooldown)' = Of(iters.cooldown)
    BY <1>2, SameWidth DEF Of
  <2>2. /\ Len(attempts') + Owed' = CooldownEnd' + X' * Cardinality(up)'
        /\ CooldownEnd' <= Len(attempts')
    <3>1. Len(attempts') + 0 = Len(attempts) + Len(batch) /\ CooldownEnd <= Len(attempts')
      BY <1>4, <1>9
    <3> QED BY <1>2, <1>7, <1>8, <1>9, <1>10, <3>1
  <2> QED BY <1>1, <1>2, <1>7, <1>8, <2>1, <2>2 DEF CountInv, Late, Phases, X
<1>12. up # {}
  <2>1. SUFFICES ASSUME up = {} PROVE FALSE
    OBVIOUS
  <2>2. Cardinality(up) = 0
    BY <2>1, FS_EmptySet
  <2>3. X * 0 = 0
    BY <1>9, OneMore
  <2> QED BY <1>4, <1>9, <2>2, <2>3
<1>13. PhaseInv'
  BY <1>2, <1>12 DEF PhaseInv
<1>14. StopInv'
  <2>1. MeasuredBench(cfg)' = MeasuredBench(cfg) /\ max_run_count(cfg, plan)' = max_run_count(cfg, plan)
    BY <1>2 DEF MeasuredBench, max_run_count
  <2>2. StopHonest'
    BY <1>1, <1>2, <2>1 DEF StopInv, StopHonest
  <2> QED BY <1>1, <1>2, <2>1, <2>2 DEF StopInv, Late
<1> QED BY <1>5, <1>6, <1>8, <1>11, <1>13, <1>14 DEF RunInv

\* A stack is skipped, or its tasks are queued and owed.
LEMMA VisitStackInv ==
  ASSUME RunInv, NEW s \in todo, NEW healthy \in BOOLEAN, VisitStack(s, healthy) PROVE RunInv'
<1> DEFINE X == cfg.samples * Breadth
<1>1. /\ ConfigOK /\ TypeInv /\ CountInv /\ TaskInv /\ NumberInv /\ ModesIsolated /\ PhaseInv /\ StopInv
  BY DEF RunInv
<1>2. /\ pc = "stacks" /\ Quiet /\ todo' = todo \ {s}
      /\ up' = (IF healthy THEN up \cup {s} ELSE up)
      /\ queue' = (IF healthy THEN StackTasks(s) ELSE <<>>)
      /\ UNCHANGED <<cfg, pc, seq, active, batch, attempts, iters, counts, plan, warm, progress>>
  BY DEF VisitStack
<1>3. queue = <<>> /\ active = {} /\ batch = <<>> /\ Cardinality(active) = 0 /\ Len(batch) = 0
  BY <1>2, FS_EmptySet DEF Quiet
<1>4. /\ s \in cfg.stacks /\ s \notin up /\ s # "none"
      /\ cfg.samples \in Nat /\ cfg.samples >= 1 /\ Breadth \in Nat /\ X \in Nat
      /\ IsFiniteSet(up) /\ Cardinality(up) \in Nat /\ seq \in Nat /\ Len(attempts) \in Nat
      /\ CooldownEnd \in Nat
  BY <1>1, Resolved, Sizes, Numbers DEF TypeInv
<1>5. ConfigOK'
  BY <1>1, <1>2, ConfigKept
<1>6. /\ queue' \in Seq(Job) /\ Len(queue') = (IF healthy THEN Breadth ELSE 0)
      /\ DOMAIN queue' = 1..Len(queue') /\ \A j \in DOMAIN queue' : Untried(queue'[j])
  <2>1. CASE healthy
    <3>1. /\ queue' \in Seq(Job) /\ Len(queue') = Breadth
          /\ \A j \in 1..Breadth : /\ queue'[j].sample = 0 /\ queue'[j].retry = 0 /\ queue'[j].tries = <<>>
                                   /\ queue'[j].st = "ready" /\ queue'[j].stack = s
      BY <1>1, <1>2, <1>4, <2>1, StackTyped
    <3>2. DOMAIN queue' = 1..Breadth
      BY <3>1, LenProperties
    <3> QED BY <1>2, <1>4, <2>1, <3>1, <3>2 DEF Untried
  <2>2. CASE ~healthy
    <3>1. queue' = <<>>
      BY <1>2, <2>2
    <3> QED BY <2>2, <3>1, EmptySeq
  <2> QED BY <2>1, <2>2
<1>7. TypeInv'
  <2>1. Job' = Job /\ Published' = Published
    BY <1>2 DEF Job, Published, Stacks, Tags
  <2>2. todo' \subseteq cfg.stacks /\ up' \subseteq cfg.stacks /\ todo' \cap up' = {}
    BY <1>1, <1>2, <1>4 DEF TypeInv
  <2> QED BY <1>1, <1>2, <1>6, <2>1, <2>2 DEF TypeInv, Plan
<1>8. Warmed' = Warmed /\ CooldownEnd' = CooldownEnd /\ Width' = Width /\ X' = X
  BY <1>2, SameEnds, SameWidth
<1>9. Owed' = X * (IF healthy THEN 1 ELSE 0) /\ Owed = 0
  <2>1. Owed' = 0 + cfg.samples * (Len(queue') + 0)
    BY <1>2, <1>3 DEF Owed
  <2>2. Owed = 0
    BY <1>1, <1>2, QuietOwesNothing
  <2>3. X * 1 = X /\ X * 0 = 0 /\ cfg.samples * 0 = 0
    BY <1>4, OneMore
  <2>4. Len(queue') + 0 = (IF healthy THEN Breadth ELSE 0)
    BY <1>4, <1>6
  <2>5. Owed' = 0 + cfg.samples * (IF healthy THEN Breadth ELSE 0)
    BY <2>1, <2>4
  <2>6. CASE healthy
    <3>1. Owed' = X /\ X * (IF healthy THEN 1 ELSE 0) = X
      BY <1>4, <2>3, <2>5, <2>6
    <3> QED BY <2>2, <3>1
  <2>7. CASE ~healthy
    <3>1. Owed' = 0 /\ X * (IF healthy THEN 1 ELSE 0) = 0
      BY <2>3, <2>5, <2>7
    <3> QED BY <2>2, <3>1
  <2> QED BY <2>6, <2>7
<1>10. Cardinality(up') = Cardinality(up) + (IF healthy THEN 1 ELSE 0)
  <2>1. Cardinality(up \cup {s}) = Cardinality(up) + 1
    BY <1>4, FS_AddElement
  <2>2. CASE healthy
    BY <1>2, <2>1, <2>2
  <2>3. CASE ~healthy
    BY <1>2, <1>4, <2>3
  <2> QED BY <2>2, <2>3
<1> HIDE DEF X
<1>11. CountInv'
  <2>1. /\ Of(iters.overhead)' = Of(iters.overhead) /\ Of(iters.pilot)' = Of(iters.pilot)
        /\ Of(iters.measured)' = Of(iters.measured) /\ Of(iters.cooldown)' = Of(iters.cooldown)
    BY <1>2, <1>8 DEF Of
  <2>2. /\ Len(attempts) + 0 = CooldownEnd + X * Cardinality(up) /\ CooldownEnd <= Len(attempts)
    BY <1>1, <1>2, <1>9 DEF CountInv, Late, X
  <2>3. Len(attempts') + Owed' = CooldownEnd' + X' * Cardinality(up')
    <3>1. CASE healthy
      <4>1. X * (Cardinality(up) + 1) = X * Cardinality(up) + X /\ X * 1 = X /\ X * Cardinality(up) \in Nat
        BY <1>4, OneMore, Product
      <4>2. Owed' = X /\ Cardinality(up') = Cardinality(up) + 1
        BY <1>9, <1>10, <3>1, <4>1
      <4> QED BY <1>2, <1>4, <1>8, <2>2, <4>1, <4>2, SMTT(30)
    <3>2. CASE ~healthy
      <4>1. Owed' = 0 /\ Cardinality(up') = Cardinality(up)
        BY <1>4, <1>9, <1>10, <3>2, OneMore
      <4> QED BY <1>2, <1>8, <2>2, <4>1
    <3> QED BY <3>1, <3>2
  <2> QED BY <1>1, <1>2, <1>8, <2>1, <2>2, <2>3 DEF CountInv, Late, Phases, X
<1>12. TaskInv'
  <2>1. active' = {} /\ DOMAIN batch' = {}
    BY <1>2, <1>3
  <2>2. \A j \in DOMAIN queue' : Untried(queue[j])'
    BY <1>2, <1>6 DEF Untried
  <2>3. \A i \in DOMAIN attempts' : Warmed < i => Settled(attempts[i])'
    BY <1>1, <1>2 DEF TaskInv, Settled
  <2> QED BY <1>8, <2>1, <2>2, <2>3 DEF TaskInv
<1>13. NumberInv'
  <2>1. SeqUnique'
    BY <1>1, <1>2 DEF NumberInv, SeqUnique
  <2>2. active' = {} /\ DOMAIN batch' = {} /\ pc' = "stacks"
    BY <1>2, <1>3
  <2>3. \A i \in DOMAIN attempts : attempts[i].seq < seq
    BY RestingFacts
  <2> QED BY <1>2, <2>1, <2>2, <2>3 DEF NumberInv
<1>14. ModesIsolated'
  BY <1>2, <1>3 DEF ModesIsolated
<1>15. PhaseInv'
  <2>1. CASE healthy
    BY <1>2, <2>1 DEF PhaseInv
  <2>2. CASE ~healthy
    BY <1>1, <1>2, <2>2, PhaseKept
  <2> QED BY <2>1, <2>2
<1>16. StopInv'
  <2>1. MeasuredBench(cfg)' = MeasuredBench(cfg) /\ max_run_count(cfg, plan)' = max_run_count(cfg, plan)
    BY <1>2 DEF MeasuredBench, max_run_count
  <2>2. StopHonest'
    BY <1>1, <1>2, <2>1 DEF StopInv, StopHonest
  <2> QED BY <1>1, <1>2, <2>1, <2>2 DEF StopInv, Late
<1> QED BY <1>5, <1>7, <1>11, <1>12, <1>13, <1>14, <1>15, <1>16 DEF RunInv

-----------------------------------------------------------------------------
(***************************************************************************)
(* The warm-ups, the first state, and every step.                          *)
(***************************************************************************)
\* A warm-up publishes one attempt, if its mode is asked for and connections
\* are reused.
LEMMA WarmUpInv ==
  ASSUME RunInv, NEW at, NEW mode, NEW next, WarmUp(at, mode, next),
         \/ at = "warm2" /\ mode = "pageload2" /\ next = "warm3"
         \/ at = "warm3" /\ mode = "pageload3" /\ next = "overhead"
  PROVE  RunInv'
<1> DEFINE tag == benchmark_phase_tag("warmup")
           one == IF WarmsUp(mode) THEN 1 ELSE 0
<1>1. /\ ConfigOK /\ TypeInv /\ CountInv /\ TaskInv /\ NumberInv /\ ModesIsolated /\ PhaseInv /\ StopInv
  BY DEF RunInv
<1>2. /\ pc = at /\ pc' = next /\ pc \in {"warm2", "warm3"} /\ pc' \in {"warm3", "overhead"}
      /\ UNCHANGED <<cfg, queue, active, batch, iters, plan, todo, up, progress>>
  BY DEF WarmUp
<1>3. PICK ok \in BOOLEAN :
        IF WarmsUp(mode)
        THEN /\ attempts' = attempts \o Tagged(<<Attempt(seq, mode, NoSize, ok, 0, 0, "none")>>, tag)
             /\ seq' = seq + 1
             /\ warm' = (IF ok THEN warm \cup {mode} ELSE warm)
             /\ counts' = (IF cfg.bench THEN [counts EXCEPT !.warmup = @ + 1] ELSE counts)
        ELSE UNCHANGED <<attempts, seq, warm, counts>>
  BY DEF WarmUp, WarmsUp
<1>4. Quiet /\ Quiet'
  <2>1. Quiet
    BY <1>2, QuietOutside DEF Phases
  <2> QED BY <1>2, <2>1 DEF Quiet
<1>5. ConfigOK'
  BY <1>1, <1>2, ConfigKept
<1>6. /\ seq \in Nat /\ attempts \in Seq(Published) /\ Len(attempts) \in Nat
      /\ DOMAIN attempts = 1..Len(attempts) /\ counts \in [SpecialPhases -> Nat]
      /\ Warmed \in Nat /\ cfg.samples * Width \in Nat
  BY <1>1, Sizes, Numbers DEF TypeInv
<1>7. PICK a : a = [Attempt(seq, mode, NoSize, ok, 0, 0, "none") EXCEPT !.phase = tag]
  OBVIOUS
<1>8. a.seq = seq /\ a.phase = tag /\ (WarmsUp(mode) => a \in Published)
  <2>1. a = [seq |-> seq, mode |-> mode, bytes |-> 0, ok |-> ok, retry |-> 0, sample |-> 0,
             stack |-> "none", phase |-> tag]
    BY <1>7 DEF Attempt, NoSize
  <2>2. tag \in Tags
    BY TagTyped
  <2> HIDE DEF tag
  <2>3. WarmsUp(mode) => a \in Published
    BY <1>6, <2>1, <2>2 DEF WarmsUp, Published, Stacks
  <2> QED BY <2>1, <2>3
<1> HIDE DEF tag
<1>9. /\ attempts' \in Seq(Published) /\ Len(attempts') = Len(attempts) + one
      /\ DOMAIN attempts' = 1..(Len(attempts) + one)
      /\ \A i \in 1..Len(attempts) : attempts'[i] = attempts[i]
      /\ WarmsUp(mode) => attempts'[Len(attempts) + 1] = a
      /\ seq' = seq + one
      /\ counts' = (IF cfg.bench THEN [counts EXCEPT !.warmup = @ + one] ELSE counts)
      /\ warm' \subseteq {"pageload2", "pageload3"}
  <2>1. CASE WarmsUp(mode)
    <3>1. Tagged(<<Attempt(seq, mode, NoSize, ok, 0, 0, "none")>>, tag) = <<a>>
      BY <1>7 DEF Tagged
    <3>2. attempts' = Append(attempts, a)
      <4>1. attempts' = attempts \o <<a>>
        BY <1>3, <2>1, <3>1
      <4>2. PICK as \in Seq(Published) : as = attempts
        BY <1>6
      <4>3. as \o <<a>> = Append(as, a)
        BY <1>8, <2>1, AppendIsConcat
      <4> QED BY <4>1, <4>2, <4>3
    <3>3. /\ attempts' \in Seq(Published) /\ Len(attempts') = Len(attempts) + 1
          /\ \A i \in 1..Len(attempts) : attempts'[i] = attempts[i]
          /\ attempts'[Len(attempts) + 1] = a
      BY <1>6, <1>8, <2>1, <3>2, AppendProperties
    <3>4. DOMAIN attempts' = 1..(Len(attempts) + 1)
      BY <3>3, LenProperties
    <3>5. one = 1
      BY <2>1
    <3>6. warm' \subseteq {"pageload2", "pageload3"}
      BY <1>1, <1>3, <2>1 DEF TypeInv
    <3> QED BY <1>3, <2>1, <3>3, <3>4, <3>5, <3>6
  <2>2. CASE ~WarmsUp(mode)
    <3>1. one = 0 /\ UNCHANGED <<attempts, seq, warm, counts>>
      BY <1>3, <2>2
    <3>2. counts' = (IF cfg.bench THEN [counts EXCEPT !.warmup = @ + one] ELSE counts)
      <4>1. counts.warmup \in Nat
        BY <1>6 DEF SpecialPhases
      <4> QED BY <1>6, <3>1, <4>1
    <3>3. Len(attempts) + 0 = Len(attempts) /\ seq + 0 = seq
      BY <1>6
    <3> QED BY <1>1, <1>6, <2>2, <3>1, <3>2, <3>3 DEF TypeInv
  <2> QED BY <2>1, <2>2
<1>10. one \in {0, 1} /\ (one = 1 <=> WarmsUp(mode))
  OBVIOUS
<1> HIDE DEF one
<1>11. TypeInv'
  <2>1. Job' = Job /\ Published' = Published
    BY <1>2 DEF Job, Published, Stacks, Tags
  <2>2. seq' \in Nat
    BY <1>6, <1>9, <1>10
  <2>3. counts' \in [SpecialPhases -> Nat]
    <3>1. counts.warmup + one \in Nat
      BY <1>6, <1>10 DEF SpecialPhases
    <3> QED BY <1>6, <1>9, <3>1
  <2>4. pc' \in Places
    BY <1>2 DEF Places, Phases
  <2> QED BY <1>1, <1>2, <1>9, <2>1, <2>2, <2>3, <2>4 DEF TypeInv, Plan
<1>12. Warmed' = Warmed + one
  <2>1. CASE at = "warm2"
    <3>1. /\ mode = "pageload2" /\ pc = "warm2" /\ pc' = "warm3"
      BY <1>2, <2>1
    <3>2. Warmed = 0 + 0
      BY <3>1 DEF Warmed, Early
    <3>3. Warmed' = (IF cfg.reuse /\ "pageload2" \in Range(cfg.modes) THEN 1 ELSE 0) + 0
      BY <1>2, <3>1 DEF Warmed, Early
    <3> QED BY <1>10, <3>1, <3>2, <3>3 DEF WarmsUp
  <2>2. CASE at = "warm3"
    <3> DEFINE two == IF cfg.reuse /\ "pageload2" \in Range(cfg.modes) THEN 1 ELSE 0
    <3>1. /\ mode = "pageload3" /\ pc = "warm3" /\ pc' = "overhead"
      BY <1>2, <2>2
    <3>2. Warmed = two + 0
      BY <3>1 DEF Warmed, Early
    <3>3. Warmed' = two + (IF cfg.reuse /\ "pageload3" \in Range(cfg.modes) THEN 1 ELSE 0)
      BY <1>2, <3>1 DEF Warmed, Early
    <3>4. two \in Nat
      OBVIOUS
    <3> HIDE DEF two
    <3> QED BY <1>10, <3>1, <3>2, <3>3, <3>4 DEF WarmsUp
  <2> QED BY <2>1, <2>2
<1>13. /\ iters.overhead = 0 /\ iters.pilot = 0 /\ iters.measured = 0 /\ iters.cooldown = 0
       /\ Len(attempts) = CooldownEnd /\ up = {} /\ iters' = iters /\ cfg' = cfg
       /\ pc' \notin Late /\ pc' \notin {"measured", "cooldown"}
  BY <1>1, <1>2 DEF CountInv, Phases, Late
<1>14. Of(0) = 0 /\ Of(0)' = 0
  <2>1. Of(0) = 0
    BY <1>1, Numbers
  <2>2. Width' = Width
    BY <1>2, SameWidth
  <2> QED BY <1>2, <2>1, <2>2 DEF Of
<1>15. /\ Of(iters.overhead) = 0 /\ Of(iters.pilot) = 0 /\ Of(iters.measured) = 0 /\ Of(iters.cooldown) = 0
       /\ Of(iters.overhead)' = 0 /\ Of(iters.pilot)' = 0 /\ Of(iters.measured)' = 0
       /\ Of(iters.cooldown)' = 0
  BY <1>13, <1>14 DEF Of
<1>16. Len(attempts) = Warmed /\ CooldownEnd' = Warmed + one /\ OverheadEnd' = Warmed + one
  BY <1>6, <1>10, <1>12, <1>13, <1>15 DEF CooldownEnd, MeasuredEnd, PilotEnd, OverheadEnd
<1>17. TaskInv' /\ NumberInv' /\ ModesIsolated' /\ Owed' = 0
  <2>1. \A i \in DOMAIN attempts' : ~(Warmed' < i)
    BY <1>6, <1>9, <1>10, <1>12, <1>16
  <2>2. /\ Addressable(attempts) /\ \A i \in DOMAIN attempts : attempts[i].seq < seq
    BY RestingFacts
  <2>3. ASSUME NEW i \in DOMAIN attempts PROVE attempts[i].seq \in Nat
    <3>1. attempts[i] \in Published
      BY <1>6, ElementOfSeq
    <3> QED BY <3>1 DEF Published
  <2>4. \A i \in DOMAIN attempts' : \/ i \in DOMAIN attempts /\ attempts'[i] = attempts[i]
                                    \/ i = Len(attempts) + 1 /\ attempts'[i].seq = seq /\ one = 1
    BY <1>6, <1>8, <1>9, <1>10
  <2>5. \A i \in DOMAIN attempts' : attempts'[i].seq < seq'
    BY <1>6, <1>9, <1>10, <2>2, <2>3, <2>4
  <2>6. Addressable(attempts')
    BY <1>6, <2>2, <2>3, <2>4 DEF Addressable
  <2>7. (\A i \in DOMAIN attempts : Warmed < i => Settled(attempts[i]))'
    BY <2>1
  <2>8. Addressable(attempts)' /\ (\A i \in DOMAIN attempts : attempts[i].seq < seq)'
    BY <2>5, <2>6 DEF Addressable
  <2> QED BY <1>4, <1>5, <1>11, <2>7, <2>8, AtRestNext
<1>18. CountInv'
  <2>1. cfg.bench => /\ counts'.warmup = Warmed + one /\ counts'.overhead = 0
                     /\ counts'.pilot = 0 /\ counts'.cooldown = 0
    BY <1>1, <1>6, <1>9, <1>15 DEF CountInv, SpecialPhases
  <2>2. Len(attempts') = CooldownEnd' /\ up' = {}
    BY <1>2, <1>9, <1>13, <1>16
  <2>3. 0 <= progress'
    BY <1>1, <1>2 DEF TypeInv
  <2> QED BY <1>2, <1>12, <1>13, <1>15, <1>17, <2>1, <2>2, <2>3 DEF CountInv
<1>19. PhaseInv'
  <2>1. \A i \in DOMAIN attempts' : i <= Warmed + one
    BY <1>6, <1>9, <1>10, <1>16
  <2>2. \A i \in DOMAIN attempts' : LoopPhase(i)' = "warmup"
    BY <1>12, <2>1 DEF LoopPhase
  <2>3. ASSUME NEW i \in DOMAIN attempts PROVE attempts[i].phase = benchmark_phase_tag("warmup")
    <3>1. i <= Warmed
      BY <1>6, <1>16
    <3>2. LoopPhase(i) = "warmup"
      BY <3>1 DEF LoopPhase
    <3> QED BY <1>1, <1>13, <3>2 DEF PhaseInv
  <2>4. \A i \in DOMAIN attempts' : attempts'[i].phase = tag
    <3>1. ASSUME NEW i \in DOMAIN attempts' PROVE attempts'[i].phase = tag
      <4>1. CASE i \in DOMAIN attempts
        BY <1>6, <1>9, <2>3, <4>1 DEF tag
      <4>2. CASE i \notin DOMAIN attempts
        BY <1>6, <1>8, <1>9, <1>10, <4>2
      <4> QED BY <4>1, <4>2
    <3> QED BY <3>1
  <2>5. benchmark_phase_tag("warmup")' = tag
    BY <1>2 DEF benchmark_phase_tag, tag
  <2>6. \A i \in DOMAIN attempts' : benchmark_phase_tag(LoopPhase(i))' = tag
    BY <2>2, <2>5 DEF benchmark_phase_tag
  <2> QED BY <2>4, <2>6 DEF PhaseInv
<1>20. StopInv'
  <2>1. MeasuredBench(cfg)' = MeasuredBench(cfg) /\ max_run_count(cfg, plan)' = max_run_count(cfg, plan)
    BY <1>2 DEF MeasuredBench, max_run_count
  <2>2. plan = NoPlan /\ NoPlan.stop = "none"
    BY <1>1, <1>2 DEF StopInv, NoPlan, Late
  <2>3. StopHonest'
    BY <1>1, <1>2, <2>1, <2>2 DEF StopInv, StopHonest
  <2>4. counts'.pilot = counts.pilot
    BY <1>6, <1>9 DEF SpecialPhases
  <2> QED BY <1>1, <1>2, <1>13, <2>1, <2>2, <2>3, <2>4 DEF StopInv, Late
<1> QED BY <1>5, <1>11, <1>17, <1>18, <1>19, <1>20 DEF RunInv

\* A run begins with nothing published or owed.
LEMMA InitInv == Init => RunInv
<1> SUFFICES ASSUME Init PROVE RunInv
  OBVIOUS
<1>1. PICK in \in Inputs : cfg = resolve(in)
  BY DEF Init
<1>2. ConfigOK
  BY <1>1, InputsAssumption DEF ConfigOK, Tasks, Pages
<1>3. /\ pc = "launch" /\ seq = 0 /\ queue = <<>> /\ active = {} /\ batch = <<>> /\ attempts = <<>>
      /\ iters = [p \in Phases |-> 0] /\ counts = [p \in SpecialPhases |-> 0]
      /\ plan = NoPlan /\ warm = {} /\ todo = cfg.stacks /\ up = {} /\ progress = 0
  BY DEF Init, Phases
<1>4. TypeInv
  <2>1. pc \in Places
    BY <1>3 DEF Places, Early
  <2>2. queue \in Seq(Job) /\ batch \in Seq(Published) /\ attempts \in Seq(Published)
    BY <1>3, EmptySeq
  <2>3. IsFiniteSet(active) /\ active \in SUBSET Job
    BY <1>3, FS_EmptySet
  <2>4. plan \in Plan
    BY <1>3 DEF NoPlan, Plan
  <2>5. iters \in [Phases -> Nat] /\ counts \in [SpecialPhases -> Nat] /\ seq \in Nat /\ progress \in Nat
    BY <1>3
  <2> QED BY <1>3, <2>1, <2>2, <2>3, <2>4, <2>5 DEF TypeInv
<1>5. Quiet /\ DOMAIN attempts = {} /\ Len(attempts) = 0
  BY <1>3 DEF Quiet
<1>6. TaskInv /\ NumberInv /\ ModesIsolated /\ Owed = 0
  <2>1. Addressable(attempts) /\ \A i \in DOMAIN attempts : attempts[i].seq < seq
    BY <1>5 DEF Addressable
  <2> QED BY <1>2, <1>4, <1>5, <2>1, AtRest
<1>7. /\ iters.overhead = 0 /\ iters.pilot = 0 /\ iters.measured = 0 /\ iters.cooldown = 0
      /\ counts.warmup = 0 /\ counts.overhead = 0 /\ counts.pilot = 0 /\ counts.cooldown = 0
  BY <1>3 DEF Phases, SpecialPhases
<1>8. Warmed = 0
  BY <1>3 DEF Warmed, Early
<1>9. Of(0) = 0
  BY <1>2, <1>4, Numbers
<1>10. CountInv
  <2>1. CooldownEnd = 0
    BY <1>7, <1>8, <1>9 DEF CooldownEnd, MeasuredEnd, PilotEnd, OverheadEnd
  <2>2. pc \notin Late /\ pc \notin Phases
    BY <1>3 DEF Late, Phases
  <2> QED BY <1>3, <1>5, <1>6, <1>7, <1>8, <1>9, <2>1, <2>2 DEF CountInv
<1>11. PhaseInv
  BY <1>5 DEF PhaseInv
<1>12. StopInv
  <2>1. max_run_count(cfg, plan) \in Nat
    BY <1>2, <1>3, Resolved DEF max_run_count
  <2>2. NoPlan.stop = "none"
    BY DEF NoPlan
  <2>3. StopHonest
    BY <1>3, <1>7, <2>1, <2>2 DEF StopHonest
  <2> QED BY <1>3, <1>7, <2>2, <2>3 DEF StopInv
<1> QED BY <1>2, <1>4, <1>6, <1>10, <1>11, <1>12 DEF RunInv

\* Nothing happens.
LEMMA StutterInv ==
  ASSUME RunInv, UNCHANGED vars PROVE RunInv'
<1>1. /\ ConfigOK /\ TypeInv /\ CountInv /\ TaskInv /\ NumberInv /\ ModesIsolated /\ PhaseInv /\ StopInv
  BY DEF RunInv
<1>2. UNCHANGED <<cfg, pc, seq, queue, active, batch, attempts, iters, counts, plan, warm, todo, up, progress>>
  BY DEF vars
<1>3. ConfigOK'
  BY <1>1, <1>2, ConfigKept
<1>4. TypeInv'
  <2>1. Job' = Job /\ Published' = Published
    BY <1>2 DEF Job, Published, Stacks, Tags
  <2> QED BY <1>1, <1>2, <2>1 DEF TypeInv, Plan
<1>5. CountInv'
  <2>1. Owed' = Owed /\ progress <= progress
    BY <1>1, <1>2 DEF Owed, TypeInv
  <2> QED BY <1>1, <1>2, <2>1, CountKept DEF TypeInv
<1>6. TaskInv'
  <2>1. Warmed' = Warmed
    BY <1>2, SameEnds
  <2> QED BY <1>1, <1>2, <2>1 DEF TaskInv, Tried, Untried, Settled, LastTry
<1>7. NumberInv'
  <2>1. SeqUnique' /\ Floor' = Floor
    BY <1>1, <1>2 DEF NumberInv, SeqUnique, Floor
  <2>2. \A t \in active : Numbered(t)'
    BY <1>1, <1>2 DEF NumberInv, Numbered
  <2> QED BY <1>1, <1>2, <2>1, <2>2 DEF NumberInv, Apart
<1>8. ModesIsolated'
  BY <1>1, <1>2 DEF ModesIsolated
<1>9. PhaseInv'
  BY <1>1, <1>2, PhaseKept
<1>10. StopInv'
  <2>1. MeasuredBench(cfg)' = MeasuredBench(cfg) /\ max_run_count(cfg, plan)' = max_run_count(cfg, plan)
    BY <1>2 DEF MeasuredBench, max_run_count
  <2>2. StopHonest'
    BY <1>1, <1>2, <2>1 DEF StopInv, StopHonest
  <2>3. Quiet' <=> Quiet
    BY <1>2 DEF Quiet
  <2> QED BY <1>1, <1>2, <2>1, <2>2, <2>3 DEF StopInv
<1> QED BY <1>3, <1>4, <1>5, <1>6, <1>7, <1>8, <1>9, <1>10 DEF RunInv

LEMMA RunNext == RunInv /\ [Next]_vars => RunInv'
<1> SUFFICES ASSUME RunInv, [Next]_vars PROVE RunInv'
  OBVIOUS
<1>1. CASE Launch
  BY <1>1, LaunchInv
<1>2. CASE WarmUp2 \/ WarmUp3
  BY <1>2, WarmUpInv DEF WarmUp2, WarmUp3
<1>3. CASE CollectIteration
  BY <1>3, CollectIterationInv
<1>4. CASE StartTask
  BY <1>4, StartTaskInv
<1>5. ASSUME NEW t \in active,
             \/ DiscoverMiss(t)
             \/ \E offer \in {"advertised", "not_offered", "unknown"} : DiscoverAnswer(t, offer)
             \/ \E ok \in BOOLEAN : Dispatch(t, ok)
      PROVE  RunInv'
  BY <1>5, ProbingInv
<1>6. CASE EndOverhead \/ EndCooldown
  BY <1>6, EndFixedInv
<1>7. CASE MakePlan
  BY <1>7, MakePlanInv
<1>8. ASSUME NEW long \in BOOLEAN, EndPilot(long) PROVE RunInv'
  BY <1>8, EndPilotInv
<1>9. ASSUME NEW long \in BOOLEAN, NEW close \in BOOLEAN, EndMeasured(long, close) PROVE RunInv'
  BY <1>9, EndMeasuredInv
<1>10. CASE NextPhase
  BY <1>10, NextPhaseInv
<1>11. ASSUME NEW s \in todo, NEW healthy \in BOOLEAN, VisitStack(s, healthy) PROVE RunInv'
  BY <1>11, VisitStackInv
<1>12. CASE EndStack
  BY <1>12, EndStackInv
<1>13. CASE Finish
  BY <1>13, FinishInv
<1>14. CASE Done \/ UNCHANGED vars
  BY <1>14, StutterInv DEF Done
<1> QED
  BY <1>1, <1>2, <1>3, <1>4, <1>5, <1>6, <1>7, <1>8, <1>9, <1>10, <1>11, <1>12, <1>13, <1>14 DEF Next, Step

-----------------------------------------------------------------------------
(***************************************************************************)
(* What follows.                                                           *)
(***************************************************************************)
\* The warm-ups of a run that has left them behind.
LEMMA WarmUpsAre ==
  ASSUME pc = "finished"
  PROVE  Warmed = IF cfg.reuse THEN Cardinality(Range(cfg.modes) \cap {"pageload2", "pageload3"}) ELSE 0
<1> DEFINE R == Range(cfg.modes)
           two == R \cap {"pageload2"}
           both == R \cap {"pageload2", "pageload3"}
<1>1. Warmed = (IF cfg.reuse /\ "pageload2" \in R THEN 1 ELSE 0)
               + (IF cfg.reuse /\ "pageload3" \in R THEN 1 ELSE 0)
  BY DEF Warmed, Early
<1>2. IsFiniteSet({}) /\ Cardinality({}) = 0
  BY FS_EmptySet
<1>3. IsFiniteSet(two) /\ Cardinality(two) = IF "pageload2" \in R THEN 1 ELSE 0
  <2>1. IsFiniteSet({} \cup {"pageload2"}) /\ Cardinality({} \cup {"pageload2"}) = 0 + 1
    BY <1>2, FS_AddElement
  <2>2. CASE "pageload2" \in R
    <3>1. two = {} \cup {"pageload2"}
      BY <2>2
    <3> QED BY <2>1, <2>2, <3>1
  <2>3. CASE "pageload2" \notin R
    <3>1. two = {}
      BY <2>3
    <3> QED BY <1>2, <2>3, <3>1
  <2> QED BY <2>2, <2>3
<1>4. Cardinality(both) = Cardinality(two) + IF "pageload3" \in R THEN 1 ELSE 0
  <2>1. CASE "pageload3" \in R
    <3>1. both = two \cup {"pageload3"} /\ "pageload3" \notin two
      BY <2>1
    <3>2. Cardinality(two \cup {"pageload3"}) = Cardinality(two) + 1
      <4> HIDE DEF two
      <4> QED BY <1>3, <3>1, FS_AddElement
    <3> QED BY <2>1, <3>1, <3>2
  <2>2. CASE "pageload3" \notin R
    <3>1. both = two
      BY <2>2
    <3> QED BY <1>3, <2>2, <3>1
  <2> QED BY <2>1, <2>2
<1> HIDE DEF two, R
<1>5. CASE cfg.reuse
  BY <1>1, <1>3, <1>4, <1>5 DEF R
<1>6. CASE ~cfg.reuse
  BY <1>1, <1>6 DEF R
<1> QED BY <1>5, <1>6

\* The stream of a finished run, counted two ways.
LEMMA Spread ==
  ASSUME NEW x \in Nat, NEW a \in Nat, NEW b \in Nat
  PROVE  x * (a + b) = x * a + x * b /\ x * a \in Nat /\ x * b \in Nat
OBVIOUS

LEMMA Grouped ==
  ASSUME NEW x \in Nat, NEW a \in Nat, NEW b \in Nat
  PROVE  x * (a * b) = (x * a) * b /\ a * b = b * a /\ a * b \in Nat
OBVIOUS

LEMMA PublishedFollows == RunInv => PublishedExactly
<1> SUFFICES ASSUME RunInv, pc = "finished"
             PROVE  LET tasks == Len(mode_tasks(cfg.modes, cfg.sizes))
                        pages == Len(stack_modes(cfg.modes))
                        iterations == iters.overhead + iters.pilot + iters.measured + iters.cooldown
                        warmed == IF cfg.reuse
                                  THEN Cardinality(Range(cfg.modes) \cap {"pageload2", "pageload3"})
                                  ELSE 0
                    IN  /\ Len(attempts) = warmed + cfg.samples * (tasks * iterations
                                                    + pages * cfg.runs * Cardinality(up))
                        /\ \A i \in (warmed + 1)..Len(attempts) :
                             attempts[i].ok \/ attempts[i].retry = cfg.retries
  BY DEF PublishedExactly
<1> DEFINE pages == Len(stack_modes(cfg.modes))
           iterations == iters.overhead + iters.pilot + iters.measured + iters.cooldown
           warmed == IF cfg.reuse THEN Cardinality(Range(cfg.modes) \cap {"pageload2", "pageload3"}) ELSE 0
<1>1. ConfigOK /\ TypeInv /\ CountInv /\ TaskInv
  BY DEF RunInv
<1>2. /\ iters.overhead \in Nat /\ iters.pilot \in Nat /\ iters.measured \in Nat
      /\ iters.cooldown \in Nat /\ Cardinality(up) \in Nat /\ cfg.samples \in Nat /\ cfg.runs \in Nat
      /\ pages \in Nat /\ Width \in Nat /\ Len(attempts) \in Nat
      /\ DOMAIN attempts = 1..Len(attempts) /\ Warmed \in Nat
  BY <1>1, Resolved, Sizes, Numbers DEF TypeInv, Phases, Pages
<1>4. warmed = Warmed
  BY WarmUpsAre
<1>5. Owed = 0
  BY <1>1 DEF CountInv, Phases
<1>6. Len(attempts) + 0 = CooldownEnd + (cfg.samples * Breadth) * Cardinality(up)
  BY <1>1, <1>5 DEF CountInv, Late
<1>7. CooldownEnd = Warmed + (cfg.samples * Width) * iters.overhead + (cfg.samples * Width) * iters.pilot
                    + (cfg.samples * Width) * iters.measured + (cfg.samples * Width) * iters.cooldown
  BY DEF CooldownEnd, MeasuredEnd, PilotEnd, OverheadEnd, Of
<1>8. Breadth = cfg.runs * pages
  BY DEF Breadth, Pages
<1>9. cfg.samples * (Width * iterations + pages * cfg.runs * Cardinality(up))
        = (cfg.samples * Width) * iters.overhead + (cfg.samples * Width) * iters.pilot
          + (cfg.samples * Width) * iters.measured + (cfg.samples * Width) * iters.cooldown
          + (cfg.samples * Breadth) * Cardinality(up)
  <2> HIDE DEF pages
  <2>1. PICK s \in Nat, w \in Nat : s = cfg.samples /\ w = Width
    BY <1>2
  <2>2. PICK a \in Nat, b \in Nat : a = iters.overhead /\ b = iters.pilot
    BY <1>2
  <2>3. PICK c \in Nat, d \in Nat : c = iters.measured /\ d = iters.cooldown
    BY <1>2
  <2>4. PICK p \in Nat, r \in Nat, u \in Nat : p = pages /\ r = cfg.runs /\ u = Cardinality(up)
    BY <1>2
  <2>5. PICK x \in Nat : x = s * w
    BY Grouped
  <2>6. PICK i \in Nat : i = a + b + c + d
    OBVIOUS
  <2>7. PICK y \in Nat : y = r * p /\ y = p * r
    BY Grouped
  <2>8. PICK v \in Nat, e \in Nat : v = y * u /\ e = w * i
    BY Grouped
  <2>9. s * (e + v) = s * e + s * v
    BY Spread
  <2>10. s * e = x * i /\ s * v = (s * y) * u
    BY <2>5, <2>8, Grouped
  <2>11. x * i = x * a + x * b + x * c + x * d
    <3>1. PICK g \in Nat, h \in Nat : g = a + b /\ h = a + b + c
      OBVIOUS
    <3>2. x * g = x * a + x * b
      BY <3>1, Spread
    <3>3. x * h = x * g + x * c
      <4>1. h = g + c
        BY <3>1
      <4> QED BY <4>1, Spread
    <3>4. x * i = x * h + x * d
      <4>1. i = h + d
        BY <2>6, <3>1
      <4> QED BY <4>1, Spread
    <3> QED BY <3>2, <3>3, <3>4
  <2>12. s * (w * (a + b + c + d) + p * r * u)
           = (s * w) * a + (s * w) * b + (s * w) * c + (s * w) * d + (s * (r * p)) * u
    BY <2>5, <2>6, <2>7, <2>8, <2>9, <2>10, <2>11
  <2> QED BY <1>8, <2>1, <2>2, <2>3, <2>4, <2>12, Zenon
<1>10. /\ (cfg.samples * Width) * iters.overhead \in Nat /\ (cfg.samples * Width) * iters.pilot \in Nat
       /\ (cfg.samples * Width) * iters.measured \in Nat /\ (cfg.samples * Width) * iters.cooldown \in Nat
       /\ (cfg.samples * Breadth) * Cardinality(up) \in Nat
  BY <1>1, <1>2, Sizes, Product
<1>11. Len(attempts) = warmed + cfg.samples * (Width * iterations + pages * cfg.runs * Cardinality(up))
  <2>1. PICK a \in Nat, b \in Nat, c \in Nat, d \in Nat, e \in Nat :
          /\ a = (cfg.samples * Width) * iters.overhead /\ b = (cfg.samples * Width) * iters.pilot
          /\ c = (cfg.samples * Width) * iters.measured /\ d = (cfg.samples * Width) * iters.cooldown
          /\ e = (cfg.samples * Breadth) * Cardinality(up)
    BY <1>10, Zenon
  <2>8. PICK all : all = cfg.samples * (Width * iterations + pages * cfg.runs * Cardinality(up))
    OBVIOUS
  <2>2. all = a + b + c + d + e
    BY <1>9, <2>1, <2>8, Zenon
  <2>3. CooldownEnd = Warmed + a + b + c + d
    BY <1>7, <2>1, Zenon
  <2>4. Len(attempts) + 0 = CooldownEnd + e
    BY <1>6, <2>1, Zenon
  <2>5. Len(attempts) \in Nat /\ Warmed \in Nat
    BY <1>2
  <2>6. Len(attempts) = CooldownEnd + e
    BY <2>4, <2>5
  <2>7. Len(attempts) = Warmed + all
    <3>1. CooldownEnd \in Nat
      BY <2>3, <2>5
    <3> QED BY <2>2, <2>3, <2>5, <2>6, <3>1
  <2> QED BY <1>4, <2>7, <2>8, Zenon
<1> HIDE DEF warmed
<1>12. \A i \in (warmed + 1)..Len(attempts) : attempts[i].ok \/ attempts[i].retry = cfg.retries
  <2>1. ASSUME NEW i \in (warmed + 1)..Len(attempts)
        PROVE  attempts[i].ok \/ attempts[i].retry = cfg.retries
    <3>1. i \in DOMAIN attempts /\ Warmed < i
      BY <1>2, <1>4
    <3> QED BY <1>1, <3>1 DEF TaskInv, Settled
  <2> QED BY <2>1
<1>13. Width = Len(mode_tasks(cfg.modes, cfg.sizes))
  BY DEF Width, Tasks
<1> QED BY <1>11, <1>12, <1>13, Zenon DEF warmed

LEMMA ExactFollows == RunInv => AttemptsExact
<1> SUFFICES ASSUME RunInv PROVE AttemptsExact
  OBVIOUS
<1>1. ConfigOK /\ TypeInv /\ NumberInv /\ ModesIsolated
  BY DEF RunInv
<1>2. TypeOK
  <2>1. pc \in Final \cup DOMAIN iters \cup {"launch", "warm2", "warm3", "plan", "stacks"}
    <3>1. DOMAIN iters = Phases
      BY <1>1 DEF TypeInv
    <3> QED BY <1>1, <3>1 DEF TypeInv, Places, Phases, Early, Late, Final
  <2>2. ASSUME NEW t \in active
        PROVE  /\ t.mode \in Range(cfg.modes) /\ t.sample < cfg.samples
               /\ t.retry <= cfg.retries /\ t.st \in {"ready", "asking", "allowed"}
    <3>1. t \in Job /\ cfg.samples \in Nat /\ cfg.retries \in Nat
      BY <1>1, Resolved DEF TypeInv
    <3>2. /\ t.mode \in Range(cfg.modes) /\ t.sample \in 0..(cfg.samples - 1)
          /\ t.retry \in 0..cfg.retries /\ t.st \in {"ready", "asking", "allowed"}
      BY <3>1 DEF Job
    <3> QED BY <3>1, <3>2
  <2> QED BY <1>1, <2>1, <2>2 DEF TypeOK, TypeInv
<1> QED BY <1>1, <1>2, PublishedFollows DEF NumberInv, AttemptsExact

LEMMA PhasesFollow == RunInv => PhasesAgree
<1> SUFFICES ASSUME RunInv, pc = "finished", cfg.bench, up = {}, NEW i \in DOMAIN attempts
             PROVE  attempts[i].phase = PositionalPhase(i)
  BY DEF PhasesAgree
<1>1. ConfigOK /\ TypeInv /\ CountInv /\ PhaseInv
  BY DEF RunInv
<1>2. attempts[i].phase = IF cfg.phase \in SpecialPhases THEN cfg.phase ELSE LoopPhase(i)
  BY <1>1 DEF PhaseInv, benchmark_phase_tag
<1> DEFINE o == Of(iters.overhead)
           q == Of(iters.pilot)
           m == Of(iters.measured)
           c == Of(iters.cooldown)
<1>3. o \in Nat /\ q \in Nat /\ m \in Nat /\ c \in Nat /\ Warmed \in Nat /\ i \in Nat /\ i <= Len(attempts)
  <2>1. o \in Nat /\ q \in Nat /\ m \in Nat /\ c \in Nat /\ Warmed \in Nat
    BY <1>1, Numbers
  <2>2. Len(attempts) \in Nat /\ DOMAIN attempts = 1..Len(attempts)
    BY <1>1, Sizes
  <2> QED BY <2>1, <2>2
<1>4. counts.warmup = Warmed /\ counts.overhead = o /\ counts.pilot = q /\ counts.cooldown = c
  BY <1>1 DEF CountInv
<1>5. /\ OverheadEnd = Warmed + o /\ PilotEnd = Warmed + o + q /\ MeasuredEnd = Warmed + o + q + m
      /\ CooldownEnd = Warmed + o + q + m + c
  BY DEF OverheadEnd, PilotEnd, MeasuredEnd, CooldownEnd
<1> HIDE DEF o, q, m, c
<1>6. Len(attempts) = Warmed + o + q + m + c
  <2>1. Owed = 0 /\ Cardinality(up) = 0
    BY <1>1, FS_EmptySet DEF CountInv, Phases
  <2>2. cfg.samples * Breadth \in Nat /\ Len(attempts) \in Nat
    BY <1>1, Sizes
  <2>3. (cfg.samples * Breadth) * 0 = 0
    BY <2>2, OneMore
  <2>4. Len(attempts) + 0 = CooldownEnd + 0
    BY <1>1, <2>1, <2>3 DEF CountInv, Late
  <2> QED BY <1>3, <1>5, <2>2, <2>4
<1>7. LoopPhase(i) = IF i <= Warmed THEN "warmup" ELSE IF i <= Warmed + o THEN "overhead"
                     ELSE IF i <= Warmed + o + q THEN "pilot"
                     ELSE IF i <= Warmed + o + q + m THEN cfg.phase ELSE "cooldown"
  BY <1>5 DEF LoopPhase
<1>8. PositionalPhase(i) =
        IF cfg.phase \in SpecialPhases THEN cfg.phase
        ELSE CASE i <= Warmed                                         -> "warmup"
               [] i > Warmed /\ i <= Warmed + o                       -> "overhead"
               [] i > Warmed + o /\ i <= Warmed + o + q               -> "pilot"
               [] i > Warmed + o + q /\ c > 0
                                    /\ i > Len(attempts) - c          -> "cooldown"
               [] OTHER                                               -> cfg.phase
  BY <1>4 DEF PositionalPhase
<1>9. CASE cfg.phase \in SpecialPhases
  BY <1>2, <1>8, <1>9
<1>10. CASE cfg.phase \notin SpecialPhases
  <2>1. CASE i <= Warmed
    BY <1>2, <1>3, <1>7, <1>8, <1>10, <2>1
  <2>2. CASE i > Warmed /\ i <= Warmed + o
    BY <1>2, <1>3, <1>7, <1>8, <1>10, <2>2
  <2>3. CASE i > Warmed + o /\ i <= Warmed + o + q
    BY <1>2, <1>3, <1>7, <1>8, <1>10, <2>3
  <2>4. CASE i > Warmed + o + q /\ i <= Warmed + o + q + m
    BY <1>2, <1>3, <1>6, <1>7, <1>8, <1>10, <2>4
  <2>5. CASE i > Warmed + o + q + m
    BY <1>2, <1>3, <1>6, <1>7, <1>8, <1>10, <2>5
  <2> QED BY <1>3, <2>1, <2>2, <2>3, <2>4, <2>5
<1> QED BY <1>9, <1>10

\* For any invocation: every published attempt has a sequence number of its own,
\* modes do not disturb each other, and a finished run holds each attempt once,
\* its failures out of retries (run_for_target, collect_iteration,
\* run_logical_attempts_with).
THEOREM AttemptsAreExact == Spec => []AttemptsExact
BY InitInv, RunNext, ExactFollows, PTL DEF Spec

\* For any benchmark without stacks: the phases rebuilt from the counts of the
\* TestRun are the tags its attempts carry (benchmark_phase_tag,
\* resolved_attempt_phases).
THEOREM PhasesDoAgree == Spec => []PhasesAgree
BY InitInv, RunNext, PhasesFollow, PTL DEF Spec

\* For any benchmark: the measured loop stays within its plan, claims accuracy
\* only when every case has its minimum of samples, and reports an exhausted
\* budget only when the plan's last iteration is published (run_for_target,
\* benchmark_adaptive_status).
THEOREM StopsAreHonest == Spec => []StopHonest
<1>1. RunInv => StopHonest
  BY DEF RunInv, StopInv
<1> QED BY <1>1, InitInv, RunNext, PTL DEF Spec

=============================================================================
