# Grevir Peripherals in TLA+

A model of the Grevir Peripherals library (headers under
`src/grevir/peripherals/`, below written without that prefix): the modules
translate its code, TLC checks them on small instances, and TLAPS proves the
central properties for every value of the constants.

## 1. The system

A header-only C++ library for microcontrollers. Application modules are types
with static state; the framework (Grevir Core) calls `runSetup()` once or more
and then `runLoop()` in one endless loop. There are no threads, but interrupts
let the clock advance between any two statements, boards share wires with other
boards, and power can fail. The allocators run while the program is compiled
(or on the host): they are pure functions, and hard because of what they search.

| Component | Code | State | Operations | What makes it correct |
|---|---|---|---|---|
| Pollers | `time_poller.hpp` | `state`, `from` | `poll`, `setFrom`/`setNow`, `init`, `reset`, `hasFinished` | the wrapping clock cannot be noticed; no interval is lost or run twice; a finite sequence ends |
| Debounce | `gpio/debounce.hpp` | `currentLevel`, `isChanged`, `lastChangeTime` | `get`, `runSetup` | a level is accepted if and only if it was stable for longer than the interval |
| Button events | `button_events.hpp` | `inState`, `outEvent`, `last_pressed_time` | `runSetup`, `runLoop`, `get` | every event is earned, every press answered in time |
| Button application | the two above | both | both, and a consumer of `get()` | setup starts both again together; an event is not overwritten |
| Open-drain outputs | `gpio/output.hpp` | the pin's mode and latch | `runSetup`, `set`, `get` | pins on one wire never fight; the wire is a wired AND/OR |
| Plain outputs, external pins | `gpio/output.hpp` | none | forwarding | with a poller in front: the pin shows the poller's interval |
| Inputs, interfaces, modes | `gpio/input.hpp`, `gpio/interfaces.hpp`, `gpio/modes.hpp` | none | forwarding | none of its own |
| Storage regions | `storage_region.hpp` | the bytes of the store | `read`, `write` | a write stays inside its region; what a cut write leaves |
| Interrupt allocator | `timer/interrupt_allocator.hpp` | local: sorted problem, search path, budget | `solve`, `validates` | plans are valid and preferred; refusals are justified; a plan kept from earlier is accepted only while it serves, and rejected for the same problem only if the default budget is too small |
| Owner allocator | `timer/owner_allocator.hpp`, `timer/own.hpp` | local: sorted problem, units, eligibility | `demands`, `solve` | the same, for whole owners; blame falls on the right one |
| Timer requirements | `timer/requirements.hpp` | none (types) | filters and checks | conflicts are rejected |
| PWM requirements | `pwm/requirements.hpp`, `pwm/frequency_window.hpp` | `Config` while options are applied | `Apply`, `request`, `requests` | error, window, step and width do not depend on the order of options |
| PWM numbers | `pwm/numeric.hpp` | none | ratio comparison | exact, terminating, no overflow |
| PWM allocator | `pwm/allocator.hpp`, `pwm/validation.hpp`, `pwm/model.hpp` | local, as above | `solve`, `normalize_model`, `compile` | as above, with a resource tree and clock domains; the plan meets every option that was declared |
| HardwarePwm | `pwm_output.hpp` | none | scale and forward | narrowing |

**Interactions.** A poller, a debounced input and a button read a clock
(`Clock::now()`); the button calls `InPin::get()`, which is the debounce in a
real application, once per loop and before it reads the clock itself; the
application takes events with `get()`. Pins call a GPIO backend, storage calls
a byte store. `pwm::requests` hands its array of keys and Configs to
`pwm::solve`; `validates` calls the interrupt allocator's `solve` again. The
owner and PWM allocators call `grevir::allocation::search` of Grevir Core. Backend, clock, framework and Core are outside this repository and
modelled from how this code uses them.

**What is hard.** Clock arithmetic that wraps; samples that are older than the
clock value they are dated with; several thresholds expiring in one loop;
setup in the middle of everything; the single event slot; the order of two
backend calls on a live wire; power failing inside a write; searches whose
answer must not depend on the order of the input, with budgets, ties, malformed
models and three different reasons to refuse. `PROJECT.json` lists each at its
line, with the property that would notice.

## 2. The modules

Names follow the code. Each module's actions are the code's handlers; state
marked *history* exists only for the properties and never guards a code step;
the gaps, and `quiet` for the consumer of events, bound when the next call is due.
Operators introduced by "As X, ..." just before `X` are deliberately wrong
variants of `X`: nothing uses them in the specification, and replacing `X` by
one makes TLC refute the property it belongs to, which shows that the property
can fail.

| Module | Models | Correspondence |
|---|---|---|
| `WrappingTime` | `setl::Time` (external) | clock values are `0 .. Wrap-1`; `Advance` is `+=`, `Elapsed` is `-` |
| `TimePoller` | the three pollers | `CyclicPoll`, `FinitePoll` call `PollTimer` (= `Expire` or `Wait`) with the period of the state; `cyclic` tells which of the two sequence pollers it is; `SetFrom`, `InitOrigin`, `Reset`; `Tick` is the hardware |
| `IdealPoller` | nothing: the abstract poller | elapsed time is a natural number that only grows until an interval ends |
| `Blink` | the application of `tests/application_test.cpp` | a poller of either kind and an `OutputPin` in mode `Output`: `Setup`, `Loop`, `Shift` (the poller's other operations), `Pass` |
| `Debounce` | `DebounceInput` | `Get(input, d, e)`: the pin is sampled, the clock read `d` ticks later, the call over after `e`; its four branches `Cancel`, `Accept`, `Hold`, `Start` |
| `ButtonEvents` | `ButtonEventModule` | `InstanceLoop` has one disjunct per case of the switch; `TakeState` is `instanceGet` |
| `ButtonApp` | the composition | extends `ButtonEvents` and instantiates `Debounce` on the same clock; `AppLoop` is one `runLoop` of both, `AppSetup` the framework's `runSetup` of both; `quiet` is history |
| `OpenDrain` | both open-drain outputs | each backend call is a step; a running board may set up again or be reset; a board that does not care about the line is one that sets it idle |
| `StorageRegion` | `EepromReaderWriter` | `Write` is the call, `WriteByte` a round of its loop, `PowerFails` an outage inside it |
| `InterruptAllocator` | `timer::solve` of the interrupt allocator | the recursion unrolled into `row` and `choice`; `SortRequests`, `SortCandidates`, `Skip`, `Exhaust`, `Reject`, `Select`, `Backtrack`, `GiveUp`, `Diagnose`, `Succeed` |
| `InterruptValidation` | `timer::validates` | `Solve` is a step of `InterruptAllocator`; `Ask` keeps the plan and poses another problem, which is solved with `DefaultBudget` as `solve`'s default argument has it; `Decide` compares the second plan with the kept one |
| `AllocationSearch` | `grevir::allocation::search` (external) | what it answers: `Ways` and the one that `ComesFirst` |
| `OwnerAllocator` | `timer::solve` of the owner allocator | `Init` takes the uses that `demands` enumerates from the `Own` lists; `SortProblem`, `CheckDemands`, `CheckCandidates`, `Group`, `Mark` (one unit at a time), `Search` |
| `PwmValues` | what requests and allocator share | ratios as exact fractions, `FrequencyWindow`, `Config` and `fail` |
| `FractionCompare` | `fraction_at_most` | a step is a round of the loop: `Decide`, `End` or `Descend` |
| `PwmConfig` | `pwm::requests` | `CheckNames`, then for each request `Begin`, one action per specialisation of `Apply`, `Finish` |
| `PwmAllocator` | `pwm::solve`, `normalize_model` | `SortRequests`, `CheckIdentities`, `CheckRequests`, `NormalizeModel`, `CheckPins`, `Group`, `Mark`, `Search` |
| `PwmCompile` | `compile` on what `requests` returns | `Evaluate` is a step of `PwmConfig`, `Hand` passes the array on, `Compile` is a step of `PwmAllocator`; `Check` is the entry for host checks, with requests written by hand |

`MC*` modules hold instances. `*Proofs` modules hold theorems.

Abstractions worth knowing:

- Identities and names are numbers whose order matters; whether a name is
  well formed is a flag (`InterruptAllocator`) or the number 0 (`OwnerAllocator`).
- A sort is any permutation that leaves the list sorted, so ties come out in
  every order; the interrupt allocator's exchange sort and `std::sort` are both
  covered. In `InterruptAllocator` the checks that the code makes inside the
  sort are made on the sorted list, which is what the code sees too: at index i
  the first i+1 entries are in their final places.
- `grevir::allocation::search` is external. `Ways` and `ComesFirst` say what
  its two callers rely on: the first compatible selection in order of rows and
  columns, nothing if there is none, and exhaustion if the budget, here
  `ample` or not, runs out.
- A nested `For` is the set of targets around an option: each must match. Only
  options decide what `PwmConfig` does, so it takes them as records, flattened
  in the order in which the code visits them; `Million` is the code's 1'000'000
  and comparisons are exact.
- `PwmValues` compares fractions by their cross products; that the code's
  comparison, which forms none, gives the same answers is what
  `FractionCompare` is checked and proved for.
- An inner value of `PwmAllocator` that the code finds with a loop (the opener
  of a unit, the place of a member, the endpoint at a place) is defined by
  counting or by what is unique about it, so that nothing is recursive.
- The tree of timers and channels, the reservations and the endpoints of
  `PwmAllocator` are sequences as in the code, and `NormalizeModel` refuses what
  the code refuses before it sorts them.
- `InterruptValidation` compares bindings as sets: the plans of `solve` list them
  in the order of the sorted requests, whose events differ, so the code's
  comparison of arrays says the same. A plan that says `allocation_ok` has not
  exhausted its search, so that flag is left out.
- Padding and object representation are left out of `StorageRegion`: a value is
  its bytes.

## 3. The runs

| Run | Question | Instance | Properties |
|---|---|---|---|
| `timer` | does a poller of either kind behave as if the clock never wrapped, and does the pin it drives follow it? | periods 2, 4, 3, clock of 8 | `Inv`, `ImplementsIdeal`, `CycleGoesOn`, `FiniteSequenceEnds`, `Blinks` |
| `debounce` | exactly the stable levels? | interval 3, gap 3, skew 1, clock of 8 | `Inv`, `NothingOverlooked`, `AcceptedOnlyStable`, `SettledIsAccepted` |
| `button_events` | every event earned, every press answered? | thresholds 3 and 4, gap 2, skew 1, clock of 8 | `Inv`, `EventIsEarned`, `NothingOverdue`, `EveryPressAnswered` |
| `button_app` | does every event take its time, across setups too, and is none lost? | interval 1, thresholds 3 and 4, clock of 7, quiet time up to 6 | `EventsTakeTheirTime`, `UnreadNeverOverwritten` |
| `button_app_held` | is a held press always reported? (no, see 6) | the same | `HeldPressReported`, violated |
| `open_drain` | can pins fight? | three boards, both variants | `Inv`, `NoContention`, `LineIsWired` |
| `storage` | what can a read find? | regions of 3 and 2 bytes, adjacent, in 6 | `Inv` (`TypeOK`, `WrittenOrTorn`), `OthersUntouched` |
| `interrupt_small` | every outcome of the solver | 2 requests, all lists of 3 out of 10 kinds of candidate | `Inv`, `RefusalIsJustified`, `PlanIsLeast`, `Returns` |
| `interrupt_validation` | backing up over several rows; may an old plan still be used? | 3 requests, 6 candidates on 3 timers, then one of 162 later problems with the default budget, 9 | `BudgetIsExact`, `PlanIsValid`, `AcceptedPlansServe`, `SameProblemStands` |
| `owner_allocator` | every outcome, for owners | 3 uses, 2 or 3 owners, 4 of 9 candidates | `Inv`, `PlanIsSound`, `RefusalIsJustified`, `PlanIsPreferred` |
| `pwm` | from declared options to a plan | 3 targets, 2 instances; all triples of 15 numeric and of 15 selecting options, all pairs of both; 3 of 12 candidates on a tree of 2 timers; whole declarations with a backend's offers | `PhasesInv`, `PlanIsSound`, `RefusalIsJustified`, `PlanIsPreferred`, `ResultIsOfTheSet`, `AnswerIsOfTheDeclaration` |
| `fraction_compare` | is the Euclidean comparison exact, and does it end? | all operands up to 12 | `ComparesExactly`, `Returns` |

Why the bounds are enough. Every clock wraps inside intervals, at every phase
(`Init` starts it anywhere), and `Wrap` is just above the smallest width the
stated assumption admits or a tick or two more: one wider clock adds no case.
Unequal periods make a long interval's backlog meet a short one. `MaxGap` and
`MaxSkew` are the longest loop and the longest delay inside one; both are at
least a tick, so every order of sample, clock and return occurs. Ages kept for
the properties count up to `MaxAge` (in `Debounce` and `ButtonEvents`); `Inv`
shows that an age which matters never gets there, so the bound cuts off nothing
but faulty variants. Three boards are two that may fight and one
that watches. Two regions have a neighbour on each side and the end of the
store. `interrupt_small` and `owner_allocator` reach every status of the code.
Three rows in `interrupt_validation` are what a clash with a row that is not
the previous one and a second backtrack need, and its later problems differ from
the first in nothing but order, or in one field of one candidate, in the
demands, or in the catalog. Two of the problems take 9 and 10 candidates, so
their plans lie on either side of the default budget. `MaxQuiet` is the longest
of the three spacings: the history has to tell no more than that. In `pwm` two options already meet in
every way they can, and a third one finds what they left, be it a conflict; two
requests around shared options show that nothing leaks between them; the
allocator is given every order of the candidates on the free board, and one
order with reservations and defective trees; and declarations that go all the
way to a plan vary one or two options of one instance against a second instance
with two outputs. Numeric options without a `For` do not see the target, so
their triples are run for one target only. Operands up to 12 take
`FractionCompare` through up to five rounds. Beyond that, what is proved (5)
has no bounds.

No run disables the deadlock check: the systems loop for ever, and a solver
that has returned stays so (`Returned`).

## 4. Fairness

`Spec` is without fairness; `FairSpec` adds, for liveness only,

- `WF(Tick)` (in `Blink`, `WF(Pass)`): the hardware clock keeps running. Its
  steps are bounded by the polling discipline: when `gap` is used up the loop is
  due, so neither can starve the other.
- `WF` of the loop's action: the framework's endless loop calls it again. No
  fairness is put on setup, reset, `get()` or on what the input shows, except
  `WF(AppGet)` in `ButtonApp`, where a consumer that never reads is outside the
  README's "regularly call" (it makes the counterexample of 6 stronger), and
  `WF(~running /\ Setup)` in `Blink`: the framework runs the first setup.
- `WF(Next)` for the interrupt solver and the fraction comparison: a sequential
  program runs on.

`CycleGoesOn`, `FiniteSequenceEnds` and the second part of `Blinks` are
conditional on restarts ending (`<>[][~Restart]_vars`), and `SettledIsAccepted`
on the input settling: a program that resets a poller for ever, or a bouncing
input, legitimately gets nowhere.

The polling discipline itself (`GapAssumption`, `DebounceAssumption`,
`ButtonAssumption`) is what the code's comments demand: "intended to be called
in a tight loop" (`time_poller.hpp`), "Poll get() regularly" (`debounce.hpp`).
The model makes it precise: the longest interval plus one gap (and one call's
skew) must stay below the clock's width. `time_poller.hpp` asks for half of the
resolution, which the model does not need.

## 5. What is proved

Every theorem is for all constants that satisfy the named assumptions of its
module, and none bounds them. All proofs are in `*Proofs`.

**`TimePollerProofs`** (from `PeriodsAssumption`, `StateLimitAssumption`,
`GapAssumption`). `PollerInvariant`: the type invariant alone is not inductive
in the useful sense, because nothing in it stops the backlog from reaching the
clock's width; `BacklogBounded` says it is at most `MaxPeriod + gap`. A poll
removes a period that is at least the gap it resets, so the bound returns
to `MaxPeriod`. `PollerImplementsIdeal`: with the
backlog below `Wrap`, the wrapped difference is the true one, and each step
maps to a step of `IdealPoller`. The lemmas about `Elapsed` and `Advance` carry the modular
arithmetic.

**`DebounceProofs`** (from `DebounceAssumption`). The inductive invariant
relates the two fields of the code to the history: `StampTellsAge` (a pending
flag is a sample that differs, its stamp is at most one call late) and
`StampFresh` (it is never older than the interval and the gap, hence cannot
wrap). `NothingOverlooked` and the action property `AcceptedOnlyStable` follow.

**`ButtonProofs`** (of `ButtonEvents` and of `ButtonApp`; from
`ButtonAssumption`). The same argument with
`StateTellsHistory`, which says what each of the four states means in terms of
the samples. `EventIsEarned` and `NothingOverdue` follow.

Of `ButtonApp` (from `DebouncedAssumption` and `ReadAssumption` too)
`AppEventsTakeTheirTime`: the invariant `Spaced` says how far the next event can
have come. The wait of each state, and the transition pending in the debounce,
began after the last event and after the last setup, so neither is longer than
the quiet time; what they need together is the event's `Spacing`. Setup is where
this could fail: it leaves the button in `Off` and nothing pending, even if the
level it accepts is a pressed one. The argument needs no more of the wrapping
clock than that a difference grows at most as fast as the clock.
`AppNeverOverwritesUnread` follows: the consumer is due before the next event.
The actions of the application are conjunctions of the parts' actions, so what
is proved of `ButtonEvents` holds in it by construction (`AppButtonPromises`);
the one thing to show is that the sample which the button gets is a level.

**`InterruptAllocatorProofs`** (from `ProblemAssumption`). The invariant of the
search is `PrefixFits` (the rows above are a valid partial selection) and
`NoneSkipped` (no valid selection lies to the left of the path). Reject and
Skip keep it because a valid selection cannot contain the candidate they pass;
Backtrack because an exhausted row leaves no completion; Select because the
deeper row starts at its first candidate. Soundness (`AllocatorPlanIsValid`),
completeness (`AllocatorRefusalIsJustified`) and preference
(`AllocatorPlanIsLeast`, with `Sorted`) are read off it when the search ends.
`Inv` includes `OnlyWellFormedSearched`: no malformed or repeated request or
candidate gets past the sorting. `AllocatorBudgetIsExact` counts with
`VisitedCounts`: the number of nodes visited is the number of nodes the search
has left behind plus those on the path. When the search ends, these are the nodes the
definition says must be examined. Of `InterruptValidation`
(from `DefaultAssumption` too): sorting brings every listing of the same rows
into one form, and what the second search must look at is the number of
candidates (`spent`) that making the plan took. So the second search answers
the same plan if the default budget covers `spent`, and is exhausted otherwise
(`ValidationSameProblemStands`); an accepted plan equals the second one, which
is valid for the problem the caller holds (`ValidationAcceptedPlansServe`).

**`OwnerAllocatorProofs`** (from `ProblemAssumption`). The same search over
columns of owners, so most of the work is to show that what the code compares
means what the definition of a valid assignment says. In
sorted demands the column numbers of `Count` are the owners in order
(`UnitsAndOwners`). For candidates that passed the validation, `Fits` is that the
bindings serve every member, `Reserved` that the candidate's needs are
not free, `Compatible` that two choices share nothing they may not share. Hence
the complete ways of the search are exactly the valid assignments
(`WayAssigns`, `AssignmentIsWay`). `OwnerAllocatorInvariant` carries the search's
two halves and `Marked`; `OwnerPlanIsSound`, `OwnerRefusalIsJustified` and
`OwnerPlanIsPreferred` are read off it when the search ends. Where an induction
over the sorted sequence would be natural, the proof takes a least
counterexample.

**`OpenDrainProofs`**. For any set of boards: a running board's latch holds the
active level (`Preloaded`), nothing is driven before the setup is complete
(`NothingWanted`), and the mode is output exactly while active is wanted.

**`StorageRegionProofs`** (from `RegionsAssumption`). `StorageInvariant` rests
on `Disjoint`: a byte of one region is no byte of another, so writing one leaves
what the others hold, finished or torn, as it was. `StorageOthersUntouched`
follows from the bound on the index.

**`PwmProofs`** (from `MillionAssumption`, `DeclarationAssumption`,
`ProblemAssumption`, `LargestAssumption`) is about the PWM code as a whole, for
any number of instances, options, requests, candidates and resources. All
theorems of `PwmCompile` follow from one inductive invariant, `CompileInv`,
which has three parts (`PhasesArePrepared` is what the code relies on of each).

- `DeclaredInv`, of `requests()`: between two options the Config tells exactly
  those applied so far, and its error is the worst of theirs (`Follows`). Each
  specialisation of `Apply` has a lemma that adding its option to the set keeps
  this (`PinFollows`, `FrequencyFollows`, ...). Canonical form is what makes it
  inductive: of the fractions that equal a given one, only one is in lowest
  terms (`OneReducedForm`), so the least of the steps and the bounds of the
  intersected windows do not depend on the clause they come from
  (`LeastJoins`, `GreatestJoins`), and a conflict of windows is between two of
  them (`WindowJoins`). `ConfigsAreOfTheirSets` is what is left at the end. After a
  conflict of pins, timers, waveforms or sources the code keeps the last one
  applied (`merge_constraint`), so the formula says of these only that the value
  is one of those named; with the conflict as its error, nothing uses it.
- `SolveInv`, of `solve`: `Inv` and what the answer promises. The reference for
  the answer is in terms of instances, numbers and territories of hardware;
  the lemmas before it show that the code's tests mean the same. In a tree that
  passed the validation two resources overlap if and only if their territories
  meet (`OverlapIsCommon`, `CompatibleIsApart`); the units are the instances in
  the order of their names (`UnitsAreInstancesInOrder`); matching the k-th
  endpoint with the k-th member is matching by key, as both are in the order
  of the keys (`FitsIsServes`); candidates that are the same as values become
  equal when they are canonical (`SameAreEqual`), so a model is refused for a
  contradiction only; skipping a candidate that equals the one
  before loses none (`OneIsKept`). Then the ways of the search are the
  assignments, one of each value (`WayAssigns`, `WayOfValues`), and the theorems
  are read off as for the owners.
- `Handed`: what solve works on, in whatever order, is what `requests()` has
  returned.

`AnswersAreOfTheDeclaration` joins the two: a row of a plan has a Config without
error, which tells the use's active options, and what meets such a Config meets
each of these options (`OptionGranted`).

Of `FractionCompare`, `ComparesExactlyAlways`: with equal quotients the
comparison of two fractions is the reversed comparison
of the reciprocals of what the quotients leave (the lemmas up to `Remainders`,
which are about all natural numbers), so every round keeps the question
(`Tracks`). `RoundsShrink`: the denominators shrink in every round, which is why
the loop ends.

Two assumptions deserve a word. `DeclarationAssumption` types what `DeclaredBy`
flattens instead of the programs themselves, as what a fold over sequences
returns cannot be proved here; TLC evaluates it on every program of the run.
`Rearranges` says of a permutation that it is onto, which the proofs need and
the provers cannot get from the definition of `Permutations`.

Only model-checked: liveness (`CycleGoesOn`, `FiniteSequenceEnds`, the second
part of `Blinks`, `SettledIsAccepted`, `EveryPressAnswered`, both `Returns`),
which TLAPS 1.4.5 cannot prove under fairness, and the first part of `Blinks`.

## 6. A disagreement between code and documentation

The library's README says "a held press emits `LongClick` at 300 ms". When the
double-click window expires, the code stores `Click` and waits for a release
although the button is released already (`button_events.hpp:92`). A press whose
first sample comes in the next loop is taken for the one that has been
answered: it is swallowed, however long it is held. `button_app_held` shows it
with the debounce in front, where the press may have begun before the window
ended. In `ButtonEvents` a *fresh* press is therefore one that follows a
released sample in state `Off`; `EventIsEarned`, `NothingOverdue` and
`EveryPressAnswered` are about those.

## 7. Not modelled, and the plan

Not modelled, because there is nothing to check:

- input pins, interfaces, modes, `pinNo`, `ExternalPin`: stateless forwarding
  and enumerations (the raw pin is the free input of `Debounce`);
- `timer/requirements.hpp`: filters and static assertions over a list of types.
  Each is a single expression that the compiler evaluates, and they decide
  nothing at run time; a model would only repeat them;
- `HardwarePwm`: one conversion of one value, scaled by a class of Grevir Base.
  It narrows without a clamp, and nothing in the repository says what a value
  out of range should give;
- `within` of `pwm/numeric.hpp`: nothing calls it;
- the umbrella header, build files and tests.

`InterruptAllocator` takes the demand keys as a set: that they are distinct is
Grevir Core's promise.

What is left to prove is the first part of `Blinks`.

## 8. Running it

    tlc -config Blink.cfg MCBlink
    tlapm TimePollerProofs.tla

`PROJECT.json` names each run's module and configuration, and the lines of the
code every definition stands for. The largest run, `pwm`, takes about a minute
on two workers; `PwmProofs` takes `tlapm` about ten.
