---------------------------- MODULE PwmAllocator ----------------------------
(***************************************************************************)
(* pwm::solve of pwm/allocator.hpp with the validation of                  *)
(* pwm/validation.hpp: every module instance gets one timer in one         *)
(* configuration that serves all its PWM requests, out of the candidates   *)
(* of a backend, on a tree of timers and channels, with pins and with      *)
(* clock domains that instances may share if they want the same setting.   *)
(*                                                                         *)
(* Identities are numbers and 0 is none; the key of a request is a pair of *)
(* names, in the order of the names.                                       *)
(***************************************************************************)
EXTENDS FiniteSets, Sequences, SequencesExt, PwmValues, AllocationSearch, TLC

CONSTANTS
  RequestLists,      \* the problem.requests considered
  CandidateLists,    \* the problem.candidates considered
  ResourceLists,     \* the problem.resources considered
  ReservationLists,  \* the problem.reservations considered
  Budgets            \* whether the search's budget is ample

Request == [key : Nat \X Nat, config : Config]

Resource == [id : Nat, parent : Nat, kind : {"timer", "channel", "pin", "domain"}]

\* An endpoint serves one request with a channel and a pin; a candidate's
\* endpoints are its array up to its count.
Endpoint == [request : Nat \X Nat, channel : Nat, pin : Nat, step : Ratio]

Candidate ==
  [key : Nat, preference : Nat, timer : Nat, counter_bits : Nat, configuration : Nat,
   frequency : Ratio, waveform : {"any", "fast", "phase_correct"},
   source : {"any", "icr", "apb", "built_in", "ocra"}, endpoints : Seq(Endpoint),
   domain : Nat, setting : Nat, independent_duties : BOOLEAN]

ASSUME ProblemAssumption ==
  /\ RequestLists \subseteq Seq(Request)
  /\ CandidateLists \subseteq Seq(Candidate)
  /\ ResourceLists \subseteq Seq(Resource)
  /\ ReservationLists \subseteq Seq(Nat)
  /\ Budgets \subseteq BOOLEAN

VARIABLES
  requests,      \* p.requests, sorted in place
  candidates,    \* p.candidates, normalised and sorted in place
  resources,     \* p.resources: the two-level tree of the hardware
  reservations,  \* p.reservations
  ample,         \* budget: enough for any search
  pc,            \* the part of solve that runs next
  unit,          \* unit: the number of each request's instance
  eligible,      \* eligible, as a set of candidates for each unit so far
  status,        \* result.diagnostic.status
  blamed,        \* result.diagnostic.request
  detail,        \* result.diagnostic.detail
  plan           \* result.candidates: a key for each request

model == <<candidates, resources, reservations, ample>>
result == <<status, blamed, detail, plan>>
vars == <<requests, model, pc, unit, eligible, result>>

Rows == DOMAIN requests
Columns == DOMAIN candidates
NoKey == <<0, 0>>

-----------------------------------------------------------------------------
\* The lexicographic order of tuples of one length.
Precedes(s, t) ==
  \E i \in DOMAIN s : s[i] < t[i] /\ \A j \in 1 .. (i - 1) : s[j] = t[j]

\* order(c)
OrderOf(c) == <<c.preference, c.timer, c.configuration>>

\* Endpoint i of a candidate, as candidate_less compares it.
Terms(c, i) ==
  LET e == c.endpoints[i]
  IN  <<e.request[1], e.request[2], e.channel, e.pin>>

Common(a, b) == DOMAIN a.endpoints \cap DOMAIN b.endpoints

\* candidate_less(a, b): by order, by the first endpoint that differs, by the
\* count and by the key.
CandidateLess(a, b) ==
  \/ Precedes(OrderOf(a), OrderOf(b))
  \/ /\ OrderOf(a) = OrderOf(b)
     /\ \/ \E i \in Common(a, b) :
              /\ Precedes(Terms(a, i), Terms(b, i))
              /\ \A j \in 1 .. (i - 1) : Terms(a, j) = Terms(b, j)
        \/ /\ \A i \in Common(a, b) : Terms(a, i) = Terms(b, i)
           /\ Precedes(<<Len(a.endpoints), a.key>>, <<Len(b.endpoints), b.key>>)

\* The ways to put a list into another order.  Permutations has no definition
\* that the proofs could expand, so what they need of it is said again.
Rearranges(order, places) ==
  order \in [places -> places] /\ \A i \in places : \E j \in places : order[j] = i

InOrder(list) ==
  \A c \in DOMAIN list : \A d \in 1 .. (c - 1) : ~CandidateLess(list[c], list[d])

Orders(places) == {order \in Permutations(places) : Rearranges(order, places)}

IsKind(id, kind) == \E r \in ToSet(resources) : r.id = id /\ r.kind = kind

\* In a tree of two levels, as the validation has made sure.
Descendant(child, ancestor) ==
  /\ child # 0
  /\ \/ child = ancestor
     \/ \E r \in ToSet(resources) : r.id = child /\ r.parent = ancestor

Overlaps(a, b) ==
  a # 0 /\ b # 0 /\ (Descendant(a, b) \/ Descendant(b, a))

-----------------------------------------------------------------------------
\* The parts of normalize_model.

TreeValid ==
  \A i \in DOMAIN resources :
    LET r == resources[i]
    IN  /\ r.id # 0
        /\ \A j \in DOMAIN resources : i # j => resources[j].id # r.id
        /\ IF r.kind = "channel" THEN IsKind(r.parent, "timer") ELSE r.parent = 0

ReservationsValid ==
  \A i \in DOMAIN reservations :
    /\ \E r \in ToSet(resources) : r.id = reservations[i]
    /\ \A j \in 1 .. (i - 1) : ~Overlaps(reservations[i], reservations[j])

EndpointValid(c, e) ==
  /\ IsKind(e.channel, "channel")
  /\ IsKind(e.pin, "pin")
  /\ Descendant(e.channel, c.timer)
  /\ FineStep(e.step)
  /\ \E i \in Rows : requests[i].key = e.request

CandidateValid(c) ==
  /\ c.key # 0 /\ c.configuration # 0 /\ c.counter_bits # 0
  /\ IsKind(c.timer, "timer")
  /\ c.frequency.n > 0 /\ c.frequency.d > 0
  /\ Len(c.endpoints) \in 1 .. 4
  /\ IF c.domain = 0
     THEN c.setting = 0
     ELSE IsKind(c.domain, "domain") /\ c.setting # 0
  /\ \A i \in DOMAIN c.endpoints :
       LET e == c.endpoints[i]
       IN  /\ EndpointValid(c, e)
           /\ \A j \in 1 .. (i - 1) :
                /\ e.request # c.endpoints[j].request
                /\ e.channel # c.endpoints[j].channel
                /\ e.pin # c.endpoints[j].pin

Earlier(e, c) == {d \in ToSet(c.endpoints) : Precedes(d.request, e.request)}

\* The endpoints of a candidate, sorted by their requests, which differ.
ByRequest(c) ==
  [i \in DOMAIN c.endpoints |->
     CHOOSE e \in ToSet(c.endpoints) : Cardinality(Earlier(e, c)) = i - 1]

\* As Canonical, with the endpoints' steps as they are written.
CanonicalSteps(c) ==
  [c EXCEPT !.frequency = Normalized(c.frequency), !.endpoints = ByRequest(c)]

\* What a valid candidate is rewritten to: fractions in lowest terms,
\* endpoints in the order of their requests.
Canonical(c) ==
  LET lowest(e) == [e EXCEPT !.step = Normalized(e.step)]
  IN  [c EXCEPT !.frequency = Normalized(c.frequency),
                !.endpoints = [i \in DOMAIN c.endpoints |-> lowest(ByRequest(c)[i])]]

\* One key names one candidate; one configuration of a timer is the same
\* setting in every candidate.
Consistent(a, b) ==
  /\ a.key = b.key => a = b
  /\ a.timer = b.timer /\ a.configuration = b.configuration =>
       /\ a.frequency = b.frequency
       /\ a.waveform = b.waveform
       /\ a.source = b.source
       /\ <<a.domain, a.setting>> = <<b.domain, b.setting>>
       /\ a.counter_bits = b.counter_bits

-----------------------------------------------------------------------------
Start ==
  /\ requests = <<>>
  /\ pc = "call"
  /\ unit = <<>>
  /\ eligible = <<>>
  /\ status = "success"
  /\ blamed = NoKey
  /\ detail = 0
  /\ plan = <<>>

Init ==
  /\ candidates \in CandidateLists
  /\ resources \in ResourceLists
  /\ reservations \in ReservationLists
  /\ ample \in Budgets
  /\ Start

\* solve is called with these requests.
Call(list) ==
  /\ pc = "call"
  /\ requests' = list
  /\ plan' = [i \in DOMAIN list |-> 0]
  /\ pc' = "sort"
  /\ UNCHANGED <<model, unit, eligible, status, blamed, detail>>

\* fail(status, key, detail): no candidate is selected.
Fail(reason, key, number) ==
  /\ status' = reason
  /\ blamed' = key
  /\ detail' = number
  /\ plan' = [i \in Rows |-> 0]
  /\ pc' = "done"

Proceed(part) == pc' = part /\ UNCHANGED result

SortRequests ==
  /\ pc = "sort"
  /\ \E order \in Orders(Rows) :
       /\ \A i \in Rows : \A j \in 1 .. (i - 1) :
            ~Precedes(requests[order[i]].key, requests[order[j]].key)
       /\ requests' = [i \in Rows |-> requests[order[i]]]
  /\ Proceed("identities")
  /\ UNCHANGED <<model, unit, eligible>>

Nameless(i) == 0 \in {requests[i].key[1], requests[i].key[2]}

Occurrences(i) == Cardinality({j \in Rows : requests[j].key = requests[i].key})

BadIdentity(i) == Nameless(i) \/ Occurrences(i) > 1

IsFirst(i, Bad(_)) == Bad(i) /\ \A j \in 1 .. (i - 1) : ~Bad(j)

CheckIdentities ==
  /\ pc = "identities"
  /\ \/ \E i \in Rows :
          /\ IsFirst(i, BadIdentity)
          /\ IF Nameless(i)
             THEN Fail("invalid_identity", requests[i].key, 0)
             ELSE Fail("duplicate_identity", requests[i].key, Occurrences(i))
     \/ (\A i \in Rows : ~BadIdentity(i)) /\ Proceed("requests")
  /\ UNCHANGED <<requests, model, unit, eligible>>

Unfinished(c) == ~(WindowValid(c.frequency) /\ FineStep(c.step) /\ c.pin # 0)

BadRequest(i) ==
  LET c == requests[i].config
  IN  c.error # "none" \/ Unfinished(c) \/ Empty(c.frequency)

FaultOf(c) ==
  IF c.error # "none" THEN Rank[c.error]
  ELSE IF Unfinished(c) THEN 0 ELSE Rank["conflict"]

CheckRequests ==
  /\ pc = "requests"
  /\ \/ \E i \in Rows :
          /\ IsFirst(i, BadRequest)
          /\ Fail("invalid_request", requests[i].key, FaultOf(requests[i].config))
     \/ (\A i \in Rows : ~BadRequest(i)) /\ Proceed("model")
  /\ UNCHANGED <<requests, model, unit, eligible>>

PartsValid ==
  /\ TreeValid
  /\ ReservationsValid
  /\ \A c \in Columns : CandidateValid(candidates[c])

CanonicalModel == [c \in Columns |-> Canonical(candidates[c])]

ModelValid ==
  PartsValid /\ \A c, d \in Columns : Consistent(CanonicalModel[c], CanonicalModel[d])

\* As NormalizeModel, leaving the candidates in the order they are offered.
NormalizeUnsorted ==
  /\ pc = "model"
  /\ \/ ModelValid /\ candidates' = CanonicalModel /\ Proceed("pins")
     \/ ~ModelValid /\ Fail("model_error", NoKey, 0) /\ UNCHANGED candidates
  /\ UNCHANGED <<requests, resources, reservations, ample, unit, eligible>>

NormalizeModel ==
  /\ pc = "model"
  /\ \/ /\ ModelValid
        /\ \E order \in Orders(Columns) :
             LET list == [c \in Columns |-> CanonicalModel[order[c]]]
             IN  InOrder(list) /\ candidates' = list
        /\ Proceed("pins")
     \/ ~ModelValid /\ Fail("model_error", NoKey, 0) /\ UNCHANGED candidates
  /\ UNCHANGED <<requests, resources, reservations, ample, unit, eligible>>

NotOnPin(i) == ~IsKind(requests[i].config.pin, "pin")

CheckPins ==
  /\ pc = "pins"
  /\ \/ \E i \in Rows :
          IsFirst(i, NotOnPin) /\ Fail("model_error", requests[i].key, 0)
     \/ (\A i \in Rows : ~NotOnPin(i)) /\ Proceed("group")
  /\ UNCHANGED <<requests, model, unit, eligible>>

\* As SameUnit, taking a request for a unit of its own.
SameRequest(i, j) == requests[i].key = requests[j].key

SameUnit(i, j) == requests[i].key[1] = requests[j].key[1]

\* A request opens a unit if it is the first of its instance, and joins that
\* of the first of its instance otherwise.
Opens(i) == \A j \in 1 .. (i - 1) : ~SameUnit(i, j)

OpenerOf(i) == CHOOSE j \in 1 .. i : SameUnit(i, j) /\ Opens(j)

Count(i) == Cardinality({h \in 1 .. OpenerOf(i) : Opens(h)})

Group ==
  /\ pc = "group"
  /\ unit' = [i \in Rows |-> Count(i)]
  /\ Proceed("mark")
  /\ UNCHANGED <<requests, model, eligible>>

UnitsUsed == {unit[i] : i \in Rows}

MembersOf(u) == {i \in Rows : unit[i] = u}

KeyOfUnit(u) ==
  LET first == CHOOSE i \in MembersOf(u) : \A j \in MembersOf(u) : i <= j
  IN  requests[first].key

\* As Meets, with a preference for a source only.
MeetsAnySource(c, e, r) ==
  /\ e.request = r.key
  /\ e.pin = r.config.pin
  /\ InWindow(r.config.frequency, c.frequency)
  /\ AtMost(e.step, r.config.step)
  /\ r.config.required_timer \in {0, c.timer}
  /\ r.config.counter_bits_at_least <= c.counter_bits
  /\ r.config.waveform \in {"any", c.waveform}

Meets(c, e, r) ==
  /\ e.request = r.key
  /\ e.pin = r.config.pin
  /\ InWindow(r.config.frequency, c.frequency)
  /\ AtMost(e.step, r.config.step)
  /\ r.config.required_timer \in {0, c.timer}
  /\ r.config.counter_bits_at_least <= c.counter_bits
  /\ r.config.waveform \in {"any", c.waveform}
  /\ r.config.source \in {"any", c.source}

\* Which member of the unit request i is.
PlaceOf(i, u) == Cardinality({j \in MembersOf(u) : j <= i})

\* fits(c, u): endpoint k is for the k-th member of the unit.
Fits(c, u) ==
  /\ Cardinality(MembersOf(u)) = Len(c.endpoints)
  /\ \A i \in MembersOf(u) : Meets(c, c.endpoints[PlaceOf(i, u)], requests[i])
  /\ Cardinality(MembersOf(u)) = 1 \/ c.independent_duties

Occupies(c) ==
  {c.timer, c.domain} \cup {e.pin : e \in ToSet(c.endpoints)}
    \cup {e.channel : e \in ToSet(c.endpoints)}

\* The reservations in the way of a candidate; reserved_by answers the least.
Blockers(c) ==
  {r \in ToSet(reservations) : \E x \in Occupies(c) : Overlaps(r, x)}

\* As Compatible, without the setting of a shared domain.
CompatibleAnyDomain(a, b) ==
  /\ ~Overlaps(a.timer, b.timer)
  /\ \A d \in ToSet(a.endpoints), e \in ToSet(b.endpoints) :
       ~Overlaps(d.pin, e.pin) /\ ~Overlaps(d.channel, e.channel)

\* compatible(p, a, b)
Compatible(a, b) ==
  /\ ~Overlaps(a.timer, b.timer)
  /\ ~(a.domain # 0 /\ a.domain = b.domain /\ a.setting # b.setting)
  /\ \A d \in ToSet(a.endpoints), e \in ToSet(b.endpoints) :
       ~Overlaps(d.pin, e.pin) /\ ~Overlaps(d.channel, e.channel)

Repeated(c) == c # 1 /\ candidates[c] = candidates[c - 1]

Fitting(u) == {c \in Columns : ~Repeated(c) /\ Fits(candidates[c], u)}

Open(u) == {c \in Fitting(u) : Blockers(candidates[c]) = {}}

Blocker(u) ==
  LET all == UNION {Blockers(candidates[c]) : c \in Fitting(u)}
  IN  CHOOSE r \in all : \A s \in all : r <= s

\* One round of the loop over the units.
Mark ==
  /\ pc = "mark"
  /\ LET u == Len(eligible) + 1
     IN  /\ u \in UnitsUsed
         /\ \/ /\ Open(u) # {}
               /\ eligible' = Append(eligible, Open(u))
               /\ UNCHANGED <<pc, result>>
            \/ /\ Open(u) = {}
               /\ IF Fitting(u) = {}
                  THEN Fail("no_candidate", KeyOfUnit(u), 0)
                  ELSE Fail("reserved", KeyOfUnit(u), Blocker(u))
               /\ UNCHANGED eligible
  /\ UNCHANGED <<requests, model, unit>>

\* What grevir::allocation::search is called with.
Selections ==
  Ways(UnitsUsed, Columns, eligible,
       LAMBDA c, d : Compatible(candidates[c], candidates[d]))

Search ==
  /\ pc = "mark"
  /\ Len(eligible) + 1 \notin UnitsUsed
  /\ \/ \E selected \in Selections :
          /\ ComesFirst(selected, Selections)
          /\ plan' = [i \in Rows |-> candidates[selected[unit[i]]].key]
          /\ pc' = "done"
          /\ UNCHANGED <<status, blamed, detail>>
     \/ Selections = {} /\ Fail("conflict", NoKey, 0)
     \/ ~ample /\ Fail("exhausted", NoKey, 0)
  /\ UNCHANGED <<requests, model, unit, eligible>>

\* solve, once it has been called.
Solve ==
  \/ SortRequests \/ CheckIdentities \/ CheckRequests \/ NormalizeModel
  \/ CheckPins \/ Group \/ Mark \/ Search

Returned ==
  /\ pc = "done"
  /\ UNCHANGED vars

Next == (\E list \in RequestLists : Call(list)) \/ Solve \/ Returned

Spec == Init /\ [][Next]_vars

-----------------------------------------------------------------------------
(***************************************************************************)
(* The reference, in terms of instances, of the numbers that fractions     *)
(* stand for, and of the territory of hardware that a resource covers.     *)
(***************************************************************************)
Instances == {requests[i].key[1] : i \in Rows}

RequestsOf(inst) == {r \in ToSet(requests) : r.key[1] = inst}

\* Candidate c has exactly one endpoint for each request of the instance and
\* meets all that the requests ask for.
Serves(c, inst) ==
  LET it == candidates[c]
      asked == RequestsOf(inst)
      rate == [n |-> it.frequency.n * Million, d |-> it.frequency.d]
  IN  /\ {e.request : e \in ToSet(it.endpoints)} = {r.key : r \in asked}
      /\ Len(it.endpoints) = Cardinality(asked)
      /\ Cardinality(asked) > 1 => it.independent_duties
      /\ \A r \in asked, e \in ToSet(it.endpoints) :
           e.request = r.key =>
             /\ e.pin = r.config.pin
             /\ AtMost(r.config.frequency.lower, rate)
             /\ AtMost(rate, r.config.frequency.upper)
             /\ AtMost(e.step, r.config.step)
             /\ it.counter_bits >= r.config.counter_bits_at_least
             /\ r.config.required_timer # 0 => it.timer = r.config.required_timer
             /\ r.config.waveform # "any" => it.waveform = r.config.waveform
             /\ r.config.source # "any" => it.source = r.config.source

\* What is taken with a resource: itself, and the channels of a timer.
Territory(taken) ==
  LET roots == taken \ {0}
  IN  roots \cup {r.id : r \in {s \in ToSet(resources) : s.parent \in roots}}

Hardware(c) == Territory(Occupies(candidates[c]) \ {candidates[c].domain})

Blocks(r, c) == Territory({r}) \cap Territory(Occupies(candidates[c])) # {}

Free(c) == \A r \in ToSet(reservations) : ~Blocks(r, c)

Serving(o) == {c \in Columns : Serves(c, o)}

Able(o) == {c \in Serving(o) : Free(c)}

InTheWay(o) == {r \in ToSet(reservations) : \E c \in Serving(o) : Blocks(r, c)}

Apart(c, d) ==
  LET a == candidates[c]
      b == candidates[d]
  IN  /\ Hardware(c) \cap Hardware(d) = {}
      /\ a.domain = b.domain => a.setting = b.setting

\* One candidate per instance, serving it, free, and apart from each other.
Assignments ==
  {a \in [Instances -> Columns] :
     /\ \A o \in Instances : Serves(a[o], o) /\ Free(a[o])
     /\ \A o, q \in Instances : o # q => Apart(a[o], a[q])}

Answered(reasons) == pc = "done" /\ status \in reasons

Reached(parts) == pc \in parts \/ Answered({"success", "conflict", "exhausted"})

\* Two candidates are the same as values, however they are written.
SameEndpoint(d, e) ==
  SameFraction(d.step, e.step) /\ [d EXCEPT !.step = e.step] = e

SameCandidate(a, b) ==
  /\ SameFraction(a.frequency, b.frequency)
  /\ [a EXCEPT !.frequency = b.frequency, !.endpoints = b.endpoints] = b
  /\ Len(a.endpoints) = Len(b.endpoints)
  /\ \A d \in ToSet(a.endpoints) : \E e \in ToSet(b.endpoints) : SameEndpoint(d, e)

SameSetting(a, b) ==
  /\ SameFraction(a.frequency, b.frequency)
  /\ \A field \in {"waveform", "source", "domain", "setting", "counter_bits"} :
       a[field] = b[field]

Contradiction ==
  \E a, b \in ToSet(candidates) :
    \/ a.key = b.key /\ ~SameCandidate(a, b)
    \/ <<a.timer, a.configuration>> = <<b.timer, b.configuration>> /\ ~SameSetting(a, b)

TypeOK ==
  /\ requests \in Seq(Request)
  /\ candidates \in Seq(Candidate)
  /\ resources \in Seq(Resource)
  /\ reservations \in Seq(Nat)
  /\ ample \in BOOLEAN
  /\ pc \in {"call", "sort", "identities", "requests", "model", "pins", "group",
             "mark", "done"}
  /\ unit \in Seq(Nat)
  /\ eligible \in Seq(SUBSET Columns)
  /\ status \in {"success", "invalid_identity", "duplicate_identity", "invalid_request",
                 "model_error", "no_candidate", "reserved", "conflict", "exhausted"}
  /\ blamed \in Nat \X Nat
  /\ detail \in Nat
  /\ plan \in [Rows -> Nat]

Sorted ==
  /\ Reached({"identities", "requests", "model", "pins", "group", "mark"}) =>
       \A i, j \in Rows : i < j => ~Precedes(requests[j].key, requests[i].key)
  /\ Reached({"pins", "group", "mark"}) => InOrder(candidates)

\* Nothing is searched that contradicts itself.
OnlyConsistentSearched ==
  Reached({"pins", "group", "mark"}) =>
    /\ ~Contradiction
    /\ \A i, j \in Rows : i # j => requests[i].key # requests[j].key

\* The endpoints of a candidate stand in the order of their requests.
Arranged(c) ==
  \A i \in DOMAIN c.endpoints : Cardinality(Earlier(c.endpoints[i], c)) = i - 1

\* Every part of solve has what the parts before it have checked, and so has
\* the answer.
OnlyCheckedSearched ==
  /\ Answered({"invalid_identity", "duplicate_identity"})
       \/ pc \in {"call", "sort", "identities"}
       \/ \A i \in Rows : ~BadIdentity(i)
  /\ Reached({"model", "pins", "group", "mark"}) => \A i \in Rows : ~BadRequest(i)
  /\ Reached({"pins", "group", "mark"}) =>
       /\ PartsValid
       /\ \A c \in Columns : Arranged(candidates[c])
       /\ \A c, d \in Columns : Consistent(candidates[c], candidates[d])

\* Only Group and Mark set what they own, and only a refusal the status.
Staged ==
  /\ pc \notin {"mark", "done"} => eligible = <<>>
  /\ pc = "mark" => unit = [i \in Rows |-> Count(i)]
  /\ pc # "done" => status = "success"

\* All requests of an instance form one unit and no unit mixes instances.
UnitsAreInstances ==
  pc = "mark" =>
    \A i, j \in Rows : unit[i] = unit[j] <=> requests[i].key[1] = requests[j].key[1]

\* The units marked so far can be served, by one of each of the different
\* candidates marked.
Marked ==
  pc = "mark" =>
    \A o \in Instances, i \in Rows :
      requests[i].key[1] = o /\ unit[i] \in DOMAIN eligible =>
        LET marked == eligible[unit[i]]
        IN  /\ marked # {} /\ marked \subseteq Able(o)
            /\ {candidates[c] : c \in marked} = {candidates[c] : c \in Able(o)}

\* The problem is what each part of solve takes it for.  The invariant is
\* inductive.
Inv ==
  /\ TypeOK /\ Sorted /\ OnlyConsistentSearched /\ OnlyCheckedSearched
  /\ Staged /\ UnitsAreInstances /\ Marked

(***************************************************************************)
(* A plan is sound: every instance has a single candidate, that of all its *)
(* requests, which meets them, touches no reserved hardware and none that  *)
(* another instance's candidate takes; and candidates that share a clock   *)
(* domain want the same setting of it.                                     *)
(***************************************************************************)
PlanIsSound ==
  Answered({"success"}) =>
    \E a \in Assignments :
      \A i \in Rows : plan[i] = candidates[a[requests[i].key[1]]].key

(***************************************************************************)
(* A refusal is justified and blames the right one: the first instance, in *)
(* the order of names, that nothing serves or that nothing free serves,    *)
(* with the least reservation in the way of any candidate that serves it;  *)
(* conflict and exhausted tell whether nothing is possible or the search   *)
(* has just not found it.  A model is refused only for what it says: equal *)
(* numbers may be written differently.                                     *)
(***************************************************************************)
RefusalIsJustified ==
  LET accused == {r \in ToSet(requests) : r.key = blamed}
      broken == {r \in ToSet(requests) : r.config.error # "none"}
  IN  /\ Answered({"no_candidate", "reserved"}) =>
           \E o \in Instances :
             /\ blamed \in {r.key : r \in RequestsOf(o)}
             /\ \A r \in RequestsOf(o) : ~Precedes(r.key, blamed)
             /\ Able(o) = {} /\ \A q \in Instances : q < o => Able(q) # {}
             /\ status = "no_candidate" <=> Serving(o) = {}
             /\ status = "reserved" =>
                  detail \in InTheWay(o) /\ \A r \in InTheWay(o) : detail <= r
      /\ Answered({"conflict"}) => Assignments = {}
      /\ Answered({"conflict", "exhausted"}) => \A o \in Instances : Able(o) # {}
      /\ Answered({"exhausted"}) => ~ample
      /\ Answered({"invalid_identity"}) => 0 \in {blamed[1], blamed[2]}
      /\ Answered({"duplicate_identity"}) =>
           detail = Cardinality({i \in Rows : requests[i].key = blamed}) /\ detail > 1
      /\ Answered({"invalid_request"}) =>
           \E r \in accused :
             \/ r \in broken /\ detail = Rank[r.config.error]
             \/ r \notin broken /\ Unfinished(r.config) /\ detail = 0
             \/ r \notin broken /\ Empty(r.config.frequency) /\ detail = Rank["conflict"]
      /\ Answered({"model_error"}) =>
           IF blamed = NoKey
           THEN ~PartsValid \/ Contradiction
           ELSE \E r \in accused : ~IsKind(r.config.pin, "pin")

(***************************************************************************)
(* The plan is the preferred one, whatever order the backend enumerates    *)
(* its candidates, their endpoints and the requests in: instance by        *)
(* instance, no assignment that agrees on the instances before has a       *)
(* lesser candidate.                                                       *)
(***************************************************************************)
PlanIsPreferred ==
  Answered({"success"}) =>
    \A a, b \in Assignments :
      (\A i \in Rows : plan[i] = candidates[a[requests[i].key[1]]].key) =>
        \A o \in Instances :
          (\A q \in Instances : q < o => candidates[a[q]] = candidates[b[q]])
            => ~CandidateLess(candidates[b[o]], candidates[a[o]])

=============================================================================
