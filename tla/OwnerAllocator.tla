--------------------------- MODULE OwnerAllocator ---------------------------
(***************************************************************************)
(* timer::solve of timer/owner_allocator.hpp: every owner gets one timer   *)
(* in one configuration that serves all its uses, from the candidates a    *)
(* backend offers, with no resource reserved or occupied twice.            *)
(*                                                                         *)
(* Names, identities and resources are numbers.  0 is a name that          *)
(* valid_component refuses, the default Identity{}, and no pin or role.    *)
(***************************************************************************)
EXTENDS FiniteSets, Sequences, SequencesExt, AllocationSearch, TLC

CONSTANTS
  D,                \* template parameter: number of demands
  C,                \* template parameter: number of candidates
  Applications,     \* the sequences of module instances considered
  CandidateLists,   \* the problem.candidates considered
  ReservationSets,  \* the problem.reservations considered
  Budgets           \* whether the search's budget is ample

Uses == 1 .. D
Columns == 1 .. C

Kinds == {"pwm", "period_event"}

UseDemand == [owner : Nat, local : Nat, kind : Kinds]

(***************************************************************************)
(* demands(): the uses of every instance, in the order of its Own list; an *)
(* item there that is no use is an option, which is left to the backend.   *)
(***************************************************************************)
IsUse(item) == item.kind \in Kinds

Visited(instance) ==
  LET uses == SelectSeq(instance.items, IsUse)
  IN  [i \in 1 .. Len(uses) |->
         [owner |-> instance.name, local |-> uses[i].name, kind |-> uses[i].kind]]

DemandsOf(application) ==
  FlattenSeq([i \in 1 .. Len(application) |-> Visited(application[i])])

\* A candidate's bindings and roles are its arrays up to their counts.
UseBinding ==
  [owner : Nat, local : Nat, kind : Kinds, endpoint : Nat, pin : Nat]

Candidate ==
  [owner : Nat, identity : Nat, timer : Nat, preference : Nat,
   bindings : Seq(UseBinding), roles : Seq(Nat)]

ASSUME ProblemAssumption ==
  /\ D \in Nat
  /\ C \in Nat
  /\ \A app \in Applications : DemandsOf(app) \in [Uses -> UseDemand]
  /\ CandidateLists \subseteq [Columns -> Candidate]
  /\ ReservationSets \subseteq SUBSET Nat
  /\ Budgets \subseteq BOOLEAN

VARIABLES
  demands,       \* p.demands, sorted in place
  candidates,    \* p.candidates, sorted in place
  reservations,  \* p.reservations
  ample,         \* budget: enough for any search
  pc,            \* the part of solve that runs next
  unit,          \* unit: the number of each demand's owner
  at,            \* u, the unit whose eligible candidates are marked next
  eligible,      \* eligible, as a set of candidates for each unit
  status,        \* result.diagnostic.status
  blamed,        \* the owner of result.diagnostic.use
  detail,        \* result.diagnostic.detail
  plan           \* result.candidates: an identity for each use

vars == <<demands, candidates, reservations, ample,
          pc, unit, at, eligible, status, blamed, detail, plan>>

problem == <<demands, candidates, reservations, ample>>
result == <<status, blamed, detail, plan>>

-----------------------------------------------------------------------------
KeyOf(use) == <<use.owner, use.local>>

KeyLess(a, b) == a.owner < b.owner \/ (a.owner = b.owner /\ a.local < b.local)

\* The order of the candidates.
Less(a, b) ==
  \/ a.owner < b.owner
  \/ /\ a.owner = b.owner
     /\ \/ a.preference < b.preference
        \/ /\ a.preference = b.preference
           /\ \/ a.timer < b.timer
              \/ a.timer = b.timer /\ a.identity < b.identity

\* As InOrder, leaving candidates of one timer in any order.
InOrderByTimer(list) ==
  \A c \in Columns : \A d \in 1 .. (c - 1) :
    list[c].timer = list[d].timer \/ ~Less(list[c], list[d])

InOrder(list) ==
  \A c \in Columns : \A d \in 1 .. (c - 1) : ~Less(list[c], list[d])

\* The ways to put a list into another order.  Permutations has no definition
\* that the proofs could expand, so what they need of it is said again.
Rearranges(order, places) ==
  order \in [places -> places] /\ \A i \in places : \E j \in places : order[j] = i

UseOrders == {order \in Permutations(Uses) : Rearranges(order, Uses)}

ColumnOrders == {order \in Permutations(Columns) : Rearranges(order, Columns)}

\* Binding j of a candidate is fine beside the earlier ones.
ValidBinding(c, j) ==
  LET b == c.bindings[j]
  IN  /\ b.owner = c.owner
      /\ b.local # 0
      /\ b.endpoint # 0
      /\ \E i \in Uses : KeyOf(demands[i]) = KeyOf(b) /\ demands[i].kind = b.kind
      /\ \A i \in 1 .. (j - 1) :
           /\ KeyOf(b) # KeyOf(c.bindings[i])
           /\ b.endpoint # c.bindings[i].endpoint
           /\ b.pin = 0 \/ b.pin # c.bindings[i].pin

\* valid_candidate(problem, c)
ValidCandidate(c) ==
  /\ c.owner # 0
  /\ c.identity # 0
  /\ c.timer # 0
  /\ Len(c.bindings) \in 1 .. 4
  /\ Len(c.roles) <= 8
  /\ \A j \in 1 .. Len(c.bindings) : ValidBinding(c, j)
  /\ \A j \in 1 .. Len(c.roles) :
       c.roles[j] # 0 /\ \A i \in 1 .. (j - 1) : c.roles[i] # c.roles[j]

Binds(c, use) ==
  \E j \in 1 .. Len(c.bindings) :
    KeyOf(c.bindings[j]) = KeyOf(use) /\ c.bindings[j].kind = use.kind

\* As Fits, content with a candidate that serves one of the owner's uses.
FitsSome(c, owner) ==
  /\ c.owner = owner
  /\ \E i \in Uses : demands[i].owner = owner /\ Binds(c, demands[i])

\* fits(p, c, owner)
Fits(c, owner) ==
  LET own == {i \in Uses : demands[i].owner = owner}
  IN  /\ c.owner = owner
      /\ \A i \in own : Binds(c, demands[i])
      /\ Cardinality(own) = Len(c.bindings)

\* As EachResource, without the pins.
EachResourceUnpinned(c) ==
  {c.timer}
    \cup {c.bindings[j].endpoint : j \in 1 .. Len(c.bindings)}
    \cup {c.roles[j] : j \in 1 .. Len(c.roles)}

\* What each_resource(c, f) calls f with.
EachResource(c) ==
  {c.timer}
    \cup {c.bindings[j].endpoint : j \in 1 .. Len(c.bindings)}
    \cup ({c.bindings[j].pin : j \in 1 .. Len(c.bindings)} \ {0})
    \cup {c.roles[j] : j \in 1 .. Len(c.roles)}

\* compatible(a, b)
Compatible(a, b) == EachResource(a) \cap EachResource(b) = {}

Reserved(c) == EachResource(c) \cap reservations # {}

-----------------------------------------------------------------------------
Init ==
  /\ demands \in {DemandsOf(app) : app \in Applications}
  /\ candidates \in CandidateLists
  /\ reservations \in ReservationSets
  /\ ample \in Budgets
  /\ pc = "sort"
  /\ unit = [i \in Uses |-> 0]
  /\ at = 1
  /\ eligible = [u \in Uses |-> {}]
  /\ status = "success"
  /\ blamed = 0
  /\ detail = 0
  /\ plan = [i \in Uses |-> 0]

\* fail(status, use, detail): no candidate is selected.
Fail(reason, owner, number) ==
  /\ status' = reason
  /\ blamed' = owner
  /\ detail' = number
  /\ plan' = [i \in Uses |-> 0]
  /\ pc' = "done"

Proceed(part) == pc' = part /\ UNCHANGED result

\* As SortProblem, with the demands left in the order they are declared.
SortProblemPartly ==
  /\ pc = "sort"
  /\ \E order \in ColumnOrders :
       LET list == [c \in Columns |-> candidates[order[c]]]
       IN  InOrder(list) /\ candidates' = list
  /\ Proceed("demands")
  /\ UNCHANGED <<demands, reservations, ample, unit, at, eligible>>

SortProblem ==
  /\ pc = "sort"
  /\ \E order \in UseOrders :
       /\ \A i \in Uses : \A j \in 1 .. (i - 1) :
            ~KeyLess(demands[order[i]], demands[order[j]])
       /\ demands' = [i \in Uses |-> demands[order[i]]]
  /\ \E order \in ColumnOrders :
       LET list == [c \in Columns |-> candidates[order[c]]]
       IN  InOrder(list) /\ candidates' = list
  /\ Proceed("demands")
  /\ UNCHANGED <<reservations, ample, unit, at, eligible>>

Nameless(i) == demands[i].owner = 0 \/ demands[i].local = 0

\* Looks at the neighbour only: the demands are sorted.
Doubled(i) == i # 1 /\ KeyOf(demands[i]) = KeyOf(demands[i - 1])

BadUse(i) == Nameless(i) \/ Doubled(i)

CheckDemands ==
  /\ pc = "demands"
  /\ \/ \E i \in Uses :
          /\ BadUse(i)
          /\ \A j \in 1 .. (i - 1) : ~BadUse(j)
          /\ Fail(IF Nameless(i) THEN "invalid_identity" ELSE "duplicate_identity",
                  demands[i].owner, 0)
     \/ (\A i \in Uses : ~BadUse(i)) /\ Proceed("candidates")
  /\ UNCHANGED <<problem, unit, at, eligible>>

CandidatesValid ==
  /\ \A c \in Columns : ValidCandidate(candidates[c])
  /\ \A c, d \in Columns : c # d => candidates[c].identity # candidates[d].identity

CheckCandidates ==
  /\ pc = "candidates"
  /\ \/ ~CandidatesValid /\ Fail("invalid_model", 0, 0)
     \/ CandidatesValid /\ Proceed("group")
  /\ UNCHANGED <<problem, unit, at, eligible>>

\* A demand opens a unit if its owner is not that of the demand before.
Opens(i) == i = 1 \/ demands[i].owner # demands[i - 1].owner

Group ==
  /\ pc = "group"
  /\ unit' = [i \in Uses |-> Cardinality({h \in 1 .. i : Opens(h)})]
  /\ Proceed("mark")
  /\ UNCHANGED <<problem, at, eligible>>

UnitsUsed == {unit[i] : i \in Uses}

\* demands[first[u]].key.owner
OwnerOf(u) ==
  LET first == CHOOSE i \in Uses : unit[i] = u /\ \A j \in 1 .. (i - 1) : unit[j] # u
  IN  demands[first].owner

Fitting(u) == {c \in Columns : Fits(candidates[c], OwnerOf(u))}

Open(u) == {c \in Fitting(u) : ~Reserved(candidates[c])}

\* The timer of the last fitting candidate that a reservation is in the way of.
Blocked(u) ==
  LET last == CHOOSE c \in Fitting(u) : \A d \in Fitting(u) : d <= c
  IN  candidates[last].timer

\* One round of the loop over the units.
Mark ==
  /\ pc = "mark"
  /\ at \in UnitsUsed
  /\ \/ /\ Open(at) # {}
        /\ eligible' = [eligible EXCEPT ![at] = Open(at)]
        /\ at' = at + 1
        /\ UNCHANGED <<pc, result>>
     \/ /\ Open(at) = {}
        /\ \/ Fitting(at) = {} /\ Fail("no_candidate", OwnerOf(at), 0)
           \/ Fitting(at) # {} /\ Fail("reserved", OwnerOf(at), Blocked(at))
        /\ UNCHANGED <<at, eligible>>
  /\ UNCHANGED <<problem, unit>>

\* What grevir::allocation::search is called with.
Selections ==
  Ways(UnitsUsed, Columns, eligible,
       LAMBDA c, d : Compatible(candidates[c], candidates[d]))

Search ==
  /\ pc = "mark"
  /\ at \notin UnitsUsed
  /\ \/ \E selected \in Selections :
          /\ ComesFirst(selected, Selections)
          /\ plan' = [i \in Uses |-> candidates[selected[unit[i]]].identity]
          /\ pc' = "done"
          /\ UNCHANGED <<status, blamed, detail>>
     \/ Selections = {} /\ Fail("conflict", 0, 0)
     \/ ~ample /\ Fail("exhausted", 0, 0)
  /\ UNCHANGED <<problem, unit, at, eligible>>

\* solve has returned.
Returned ==
  /\ pc = "done"
  /\ UNCHANGED vars

Next ==
  \/ SortProblem \/ CheckDemands \/ CheckCandidates
  \/ Group \/ Mark \/ Search \/ Returned

Spec == Init /\ [][Next]_vars

-----------------------------------------------------------------------------
(***************************************************************************)
(* The reference, in terms of owners and of everything a candidate uses.   *)
(***************************************************************************)
Owners == {demands[i].owner : i \in Uses}

\* Candidate c serves every use of the owner, and no other.
Serves(c, owner) ==
  LET offered == candidates[c].bindings
  IN  /\ candidates[c].owner = owner
      /\ {<<demands[i].local, demands[i].kind>> :
            i \in {k \in Uses : demands[k].owner = owner}}
           = {<<offered[j].local, offered[j].kind>> : j \in 1 .. Len(offered)}

\* Candidate c needs resource r for itself.
Needs(c, r) ==
  LET it == candidates[c]
  IN  /\ r # 0
      /\ \/ it.timer = r
         \/ \E j \in 1 .. Len(it.bindings) :
              it.bindings[j].endpoint = r \/ it.bindings[j].pin = r
         \/ \E j \in 1 .. Len(it.roles) : it.roles[j] = r

Needed(c) ==
  LET it == candidates[c]
      each == {{it.bindings[j].endpoint, it.bindings[j].pin} :
                 j \in 1 .. Len(it.bindings)}
  IN  {it.timer} \cup (UNION each) \cup {it.roles[j] : j \in 1 .. Len(it.roles)}

Free(c) == \A r \in reservations : ~Needs(c, r)

Apart(c, d) == \A r \in Needed(c) : ~Needs(d, r)

\* One candidate per owner, serving it, free, and apart from each other.
Assignments ==
  {a \in [Owners -> Columns] :
     /\ \A o \in Owners : Serves(a[o], o) /\ Free(a[o])
     /\ \A o, q \in Owners : o # q => Apart(a[o], a[q])}

Answered(reasons) == pc = "done" /\ status \in reasons

TypeOK ==
  /\ demands \in [Uses -> UseDemand]
  /\ candidates \in [Columns -> Candidate]
  /\ reservations \subseteq Nat
  /\ ample \in BOOLEAN
  /\ pc \in {"sort", "demands", "candidates", "group", "mark", "done"}
  /\ unit \in [Uses -> 0 .. D]
  /\ at \in 1 .. (D + 1)
  /\ eligible \in [Uses -> SUBSET Columns]
  /\ status \in {"success", "invalid_identity", "duplicate_identity", "invalid_model",
                 "no_candidate", "reserved", "conflict", "exhausted"}
  /\ blamed \in Nat
  /\ detail \in Nat
  /\ plan \in [Uses -> Nat]

Sorted ==
  pc # "sort" =>
    /\ \A i \in Uses : \A j \in 1 .. (i - 1) : ~KeyLess(demands[i], demands[j])
    /\ InOrder(candidates)

\* The units marked so far can all be served, by the candidates marked.
Marked ==
  pc = "mark" =>
    \A u \in UnitsUsed :
      u < at =>
        /\ eligible[u] # {}
        /\ eligible[u] = {c \in Columns : Serves(c, OwnerOf(u)) /\ Free(c)}

\* All uses of an owner form one unit and no unit mixes owners, whatever
\* order the modules declare their uses in.
UnitsAreOwners ==
  pc = "mark" =>
    \A i, j \in Uses : unit[i] = unit[j] <=> demands[i].owner = demands[j].owner

AllNamed == \A i \in Uses : demands[i].owner # 0 /\ demands[i].local # 0

AllDistinct == \A i, j \in Uses : i # j => KeyOf(demands[i]) # KeyOf(demands[j])

IdentitiesDiffer ==
  \A c, d \in Columns : c # d => candidates[c].identity # candidates[d].identity

\* What is searched has distinct well-named uses and distinct identities,
\* and every candidate in it is valid.
OnlyWellFormedSearched ==
  /\ pc \in {"candidates", "group", "mark"} => AllNamed /\ AllDistinct
  /\ pc \in {"group", "mark"} => CandidatesValid /\ IdentitiesDiffer

\* Only Group and Mark set what they own, and only a refusal the status.
Staged ==
  /\ pc \notin {"mark", "done"} => at = 1
  /\ pc = "mark" => unit = [i \in Uses |-> Cardinality({h \in 1 .. i : Opens(h)})]
  /\ pc # "done" => status = "success"

\* The sorted problem is what each part of solve takes it for.  The invariant
\* is inductive.
Inv ==
  /\ TypeOK /\ Sorted /\ OnlyWellFormedSearched
  /\ Staged /\ UnitsAreOwners /\ Marked

(***************************************************************************)
(* A plan is sound: every owner has a single candidate, that of all its    *)
(* uses, which serves them, touches nothing reserved and nothing that      *)
(* another owner's candidate needs.                                        *)
(***************************************************************************)
PlanIsSound ==
  Answered({"success"}) =>
    \E a \in Assignments :
      \A i \in Uses : plan[i] = candidates[a[demands[i].owner]].identity

(***************************************************************************)
(* A refusal is justified and blames the right owner: the first, in the    *)
(* order of names, that nothing serves or that nothing free serves; the    *)
(* blocked timer is one that serves it.  conflict and exhausted tell       *)
(* whether nothing is possible or the search has just not found it, and    *)
(* malformed problems are refused for what is wrong with them.             *)
(***************************************************************************)
RefusalIsJustified ==
  LET serving(o) == {c \in Columns : Serves(c, o)}
      free(o) == {c \in serving(o) : Free(c)}
  IN  /\ Answered({"no_candidate", "reserved"}) =>
           /\ blamed \in Owners
           /\ free(blamed) = {}
           /\ \A o \in Owners : o < blamed => free(o) # {}
           /\ status = "no_candidate" <=> serving(blamed) = {}
           /\ status = "reserved" =>
                \E c \in serving(blamed) : candidates[c].timer = detail
      /\ Answered({"conflict"}) => Assignments = {}
      /\ Answered({"conflict", "exhausted"}) => \A o \in Owners : free(o) # {}
      /\ Answered({"exhausted"}) => ~ample
      /\ Answered({"invalid_identity"}) => ~AllNamed
      /\ Answered({"duplicate_identity"}) => ~AllDistinct
      /\ Answered({"invalid_model"}) => AllNamed /\ AllDistinct

(***************************************************************************)
(* The plan is the preferred one, whatever order the backend enumerates    *)
(* its candidates in: owner by owner, no assignment that agrees on the     *)
(* owners before has a lesser candidate.                                   *)
(***************************************************************************)
PlanIsPreferred ==
  Answered({"success"}) =>
    \A a, b \in Assignments :
      (\A i \in Uses : plan[i] = candidates[a[demands[i].owner]].identity) =>
        \A o \in Owners :
          (\A q \in Owners : q < o => a[q] = b[q])
            => ~Less(candidates[b[o]], candidates[a[o]])

=============================================================================
