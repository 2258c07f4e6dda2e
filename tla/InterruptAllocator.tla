------------------------- MODULE InterruptAllocator -------------------------
(***************************************************************************)
(* timer::solve of timer/interrupt_allocator.hpp: every request gets one   *)
(* of its candidate configurations, no two on one timer, and no two        *)
(* demanded ones with one interrupt source or entry.  The requests and the *)
(* candidates are sorted and checked, then a depth-first search with a     *)
(* budget of examined candidates looks for the first selection that fits.  *)
(*                                                                         *)
(* The recursion of the search is unrolled: row is its depth, choice[k]    *)
(* for k < row is selected[k], and choice[row] is the candidate that the   *)
(* loop of the innermost call looks at next.                               *)
(***************************************************************************)
EXTENDS Integers, FiniteSets, TLC

CONSTANTS
  R,               \* template parameter: number of requests
  C,               \* template parameter: number of candidates
  RequestLists,    \* the problem.requests considered
  CandidateLists,  \* the problem.candidates considered
  DemandSets,      \* the demands.keys considered
  Budgets          \* the budgets considered

Rows == 1 .. R
Columns == 1 .. C

(***************************************************************************)
(* Identities and names are numbers, of which only the order matters.      *)
(* named and routed tell whether the name components every candidate needs *)
(* and those a period event needs are valid_component's.                   *)
(***************************************************************************)
Request == [event : Nat, pwmRequired : BOOLEAN]

Candidate ==
  [request : Nat, preference : Nat, timer : Nat, configuration : Nat,
   source : Nat, entry : Nat, pwm : BOOLEAN, periodEvent : BOOLEAN,
   reserved : BOOLEAN, named : BOOLEAN, routed : BOOLEAN]

ASSUME ProblemAssumption ==
  /\ R \in Nat
  /\ C \in Nat
  /\ RequestLists \subseteq [Rows -> Request]
  /\ CandidateLists \subseteq [Columns -> Candidate]
  /\ DemandSets \subseteq SUBSET Nat
  /\ Budgets \subseteq Nat

VARIABLES
  requests,        \* problem.requests, sorted in place
  candidates,      \* problem.candidates, sorted in place
  demands,         \* demands.keys
  budget,          \* budget
  pc,              \* the part of solve that runs next
  row, choice,     \* the search, see above
  visited,         \* result.visited
  error,           \* result.error
  bindings,        \* result.interrupts.bindings: <<event, candidate>> pairs
  configurations   \* result.configurations

vars == <<requests, candidates, demands, budget,
          pc, row, choice, visited, error, bindings, configurations>>

input == <<requests, candidates, demands, budget>>
result == <<error, bindings, configurations>>

-----------------------------------------------------------------------------
\* less(a, b)
Less(a, b) ==
  \/ a.request < b.request
  \/ /\ a.request = b.request
     /\ \/ a.preference < b.preference
        \/ /\ a.preference = b.preference
           /\ \/ a.timer < b.timer
              \/ a.timer = b.timer /\ a.configuration < b.configuration

\* The ways to put a list into another order.  Permutations has no definition
\* that the proofs could expand, so what they need of it is said again.
Rearranges(order, places) ==
  order \in [places -> places] /\ \A i \in places : \E j \in places : order[j] = i

RowOrders == {order \in Permutations(Rows) : Rearranges(order, Rows)}

ColumnOrders == {order \in Permutations(Columns) : Rearranges(order, Columns)}

DuplicateRequest == \E i, j \in Rows : i < j /\ requests[i].event = requests[j].event

Invalid(candidate) ==
  ~candidate.named \/ (candidate.periodEvent /\ ~candidate.routed)

\* As Repeats, looking at the candidate just before only.
RepeatsPrevious(list, i) ==
  /\ i > 1
  /\ list[i - 1].request = list[i].request
  /\ list[i - 1].configuration = list[i].configuration

\* Candidate i repeats a configuration that an earlier one offers its request.
Repeats(list, i) ==
  \E j \in 1 .. (i - 1) :
    /\ list[j].request = list[i].request
    /\ list[j].configuration = list[i].configuration

Bad(list, i) == Invalid(list[i]) \/ Repeats(list, i)

\* The index at which the pass over the sorted candidates stops.
FirstBad(list, i) == Bad(list, i) /\ \A j \in 1 .. (i - 1) : ~Bad(list, j)

-----------------------------------------------------------------------------
Demanded(r) == requests[r].event \in demands

\* The tests of search and of the diagnosis after it.
Eligible(r, c) ==
  /\ candidates[c].request = requests[r].event
  /\ ~candidates[c].reserved
  /\ requests[r].pwmRequired => candidates[c].pwm
  /\ Demanded(r) => candidates[c].periodEvent

\* Candidate c in row r against candidate used in an earlier row.
Clash(earlier, used, r, c) ==
  \/ candidates[used].timer = candidates[c].timer
  \/ /\ Demanded(r)
     /\ Demanded(earlier)
     /\ \/ candidates[used].source = candidates[c].source
        \/ candidates[used].entry = candidates[c].entry

\* As Fits, comparing with the row just before only.
FitsPrevious(c) ==
  \A earlier \in 1 .. (row - 1) :
    earlier = row - 1 => ~Clash(earlier, choice[earlier], row, c)

Fits(c) == \A earlier \in 1 .. (row - 1) : ~Clash(earlier, choice[earlier], row, c)

-----------------------------------------------------------------------------
Init ==
  /\ requests \in RequestLists
  /\ candidates \in CandidateLists
  /\ demands \in DemandSets
  /\ budget \in Budgets
  /\ pc = "requests"
  /\ row = 1
  /\ choice = [r \in Rows |-> 1]
  /\ visited = 0
  /\ error = "none"
  /\ bindings = {}
  /\ configurations = [r \in Rows |-> 0]

\* fail(error): the interrupts are cleared.
Fail(reason) ==
  /\ error' = reason
  /\ bindings' = {}
  /\ pc' = "done"
  /\ UNCHANGED configurations

Proceed(part) ==
  /\ pc' = part
  /\ UNCHANGED result

SortRequests ==
  /\ pc = "requests"
  /\ \E order \in RowOrders :
       /\ \A i \in Rows : \A j \in 1 .. (i - 1) :
            requests[order[j]].event <= requests[order[i]].event
       /\ requests' = [i \in Rows |-> requests[order[i]]]
  /\ IF DuplicateRequest' THEN Fail("duplicate_request") ELSE Proceed("candidates")
  /\ UNCHANGED <<candidates, demands, budget, row, choice, visited>>

\* As SortCandidates, with the candidates left in the order they are given.
SortCandidatesNot ==
  /\ pc = "candidates"
  /\ IF \E i \in Columns : Bad(candidates, i)
     THEN \E i \in Columns :
            /\ FirstBad(candidates, i)
            /\ Fail(IF Invalid(candidates[i])
                    THEN "invalid_model" ELSE "duplicate_candidate")
     ELSE Proceed("search")
  /\ UNCHANGED <<candidates, requests, demands, budget, row, choice, visited>>

SortCandidates ==
  /\ pc = "candidates"
  /\ \E order \in ColumnOrders :
       /\ \A i \in Columns : \A j \in 1 .. (i - 1) :
            ~Less(candidates[order[i]], candidates[order[j]])
       /\ candidates' = [i \in Columns |-> candidates[order[i]]]
  /\ \/ \E i \in Columns :
          /\ FirstBad(candidates', i)
          /\ Fail(IF Invalid(candidates'[i])
                  THEN "invalid_model" ELSE "duplicate_candidate")
     \/ /\ \A i \in Columns : ~Bad(candidates', i)
        /\ Proceed("search")
  /\ UNCHANGED <<requests, demands, budget, row, choice, visited>>

-----------------------------------------------------------------------------
Searching == pc = "search" /\ row <= R

\* The loop of the innermost call looks at candidate c.
Looking(c) == Searching /\ c \in Columns /\ c = choice[row]

Advanced(r) == [choice EXCEPT ![r] = @ + 1]

\* As Skip, going on without moving to the next candidate.
SkipInPlace ==
  /\ \E c \in Columns : Looking(c) /\ ~Eligible(row, c)
  /\ UNCHANGED <<input, pc, row, choice, visited, result>>

Skip ==
  /\ \E c \in Columns : Looking(c) /\ ~Eligible(row, c)
  /\ choice' = Advanced(row)
  /\ UNCHANGED <<input, pc, row, visited, result>>

Exhaust ==
  /\ \E c \in Columns : Looking(c) /\ Eligible(row, c)
  /\ visited = budget
  /\ Fail("exhausted")
  /\ UNCHANGED <<input, row, choice, visited>>

Visit(c) ==
  /\ Looking(c)
  /\ Eligible(row, c)
  /\ visited # budget
  /\ visited' = visited + 1

Reject ==
  /\ \E c \in Columns : Visit(c) /\ ~Fits(c)
  /\ choice' = Advanced(row)
  /\ UNCHANGED <<input, pc, row, result>>

\* As Select, with the deeper loop going on where it was left before.
SelectKeepingDeeper ==
  /\ \E c \in Columns : Visit(c) /\ Fits(c)
  /\ row' = row + 1
  /\ UNCHANGED <<input, pc, choice, result>>

Select ==
  /\ \E c \in Columns : Visit(c) /\ Fits(c)
  /\ row' = row + 1
  /\ choice' = IF row < R THEN [choice EXCEPT ![row + 1] = 1] ELSE choice
  /\ UNCHANGED <<input, pc, result>>

\* The loop has run out of candidates: return false to the earlier row.
Backtrack ==
  /\ Searching
  /\ choice[row] = C + 1
  /\ row > 1
  /\ row' = row - 1
  /\ choice' = Advanced(row - 1)
  /\ UNCHANGED <<input, pc, visited, result>>

GiveUp ==
  /\ Searching
  /\ choice[row] = C + 1
  /\ row = 1
  /\ Proceed("diagnose")
  /\ UNCHANGED <<input, row, choice, visited>>

\* As Succeed, binding the requests that nobody demands too.
SucceedUndemanded ==
  /\ pc = "search"
  /\ row = R + 1
  /\ pc' = "done"
  /\ configurations' = [r \in Rows |-> candidates[choice[r]].configuration]
  /\ bindings' = {<<requests[r].event, choice[r]>> : r \in Rows}
  /\ UNCHANGED <<input, row, choice, visited, error>>

\* All rows are selected: the result is written.
Succeed ==
  /\ pc = "search"
  /\ row = R + 1
  /\ pc' = "done"
  /\ configurations' = [r \in Rows |-> candidates[choice[r]].configuration]
  /\ bindings' =
       {<<requests[r].event, choice[r]>> : r \in {k \in Rows : Demanded(k)}}
  /\ UNCHANGED <<input, row, choice, visited, error>>

\* As Diagnose, content with a row's candidates being there.
DiagnoseConflictFirst ==
  /\ pc = "diagnose"
  /\ Fail(IF \A r \in Rows : \E c \in Columns : candidates[c].request = requests[r].event
          THEN "conflict" ELSE "no_candidate")
  /\ UNCHANGED <<input, row, choice, visited>>

Diagnose ==
  /\ pc = "diagnose"
  /\ Fail(IF \A r \in Rows : \E c \in Columns : Eligible(r, c)
          THEN "conflict" ELSE "no_candidate")
  /\ UNCHANGED <<input, row, choice, visited>>

Search == Skip \/ Exhaust \/ Reject \/ Select \/ Backtrack \/ GiveUp

\* solve has returned.
Returned ==
  /\ pc = "done"
  /\ UNCHANGED vars

Next ==
  SortRequests \/ SortCandidates \/ Search \/ Succeed \/ Diagnose \/ Returned

Spec == Init /\ [][Next]_vars

\* A sequential computation: it runs on until it returns.
FairSpec == Spec /\ WF_vars(Next)

-----------------------------------------------------------------------------
(***************************************************************************)
(* The reference: a selection is valid if every row's candidate is         *)
(* eligible and no two rows clash.                                         *)
(***************************************************************************)
Valid(a) ==
  /\ \A r \in Rows : Eligible(r, a[r])
  /\ \A r \in Rows : \A s \in 1 .. (r - 1) : ~Clash(s, a[s], r, a[r])

Selections == [Rows -> Columns]

TypeOK ==
  /\ requests \in [Rows -> Request]
  /\ candidates \in [Columns -> Candidate]
  /\ demands \in SUBSET Nat
  /\ budget \in Nat
  /\ pc \in {"requests", "candidates", "search", "diagnose", "done"}
  /\ row \in 1 .. (R + 1)
  /\ choice \in [Rows -> 1 .. (C + 1)]
  /\ visited \in 0 .. budget
  /\ error \in {"none", "invalid_model", "duplicate_request",
                "duplicate_candidate", "no_candidate", "conflict", "exhausted"}
  /\ bindings \subseteq (Nat \X Columns)
  /\ configurations \in [Rows -> Nat]

Answered(reasons) == pc = "done" /\ error \in reasons

\* An error is never followed by more work.
ErrorIsFinal == pc # "done" => error = "none"

\* The search starts from the first candidate of the first row.
NothingSelected ==
  pc \in {"requests", "candidates"} => row = 1 /\ choice = [r \in Rows |-> 1]

\* The search goes through distinct requests and sorted candidates.
EventsDistinct ==
  pc \in {"candidates", "search"} =>
    \A i, j \in Rows : i # j => requests[i].event # requests[j].event

Sorted ==
  pc = "search" \/ Answered({"none"}) =>
    \A i \in Columns : \A j \in 1 .. (i - 1) : ~Less(candidates[i], candidates[j])

\* The selections of the rows above the current one fit together.
PrefixFits ==
  pc = "search" =>
    \A r \in 1 .. (row - 1) :
      /\ choice[r] \in Columns
      /\ Eligible(r, choice[r])
      /\ \A s \in 1 .. (r - 1) : ~Clash(s, choice[s], r, choice[r])

AgreesBefore(a, k) == \A j \in 1 .. (k - 1) : a[j] = choice[j]

\* No valid selection lies to the left of the path the search is on.
NoneSkipped ==
  /\ pc = "search" =>
       \A a \in Selections, k \in Rows :
         k <= row /\ Valid(a) /\ AgreesBefore(a, k) => choice[k] <= a[k]
  /\ pc = "diagnose" => \A a \in Selections : ~Valid(a)

\* Where the search is.
SearchInv ==
  /\ TypeOK
  /\ ErrorIsFinal
  /\ NothingSelected
  /\ EventsDistinct
  /\ Sorted
  /\ PrefixFits
  /\ NoneSkipped

\* Malformed problems never reach the search, well-formed ones always do.
OnlyWellFormedSearched ==
  /\ pc = "search" =>
       /\ \A i \in Columns : ~Invalid(candidates[i])
       /\ \A i, j \in Columns :
            i # j => \/ candidates[i].request # candidates[j].request
                     \/ candidates[i].configuration # candidates[j].configuration
  /\ Answered({"invalid_model"}) => \E i \in Columns : Invalid(candidates[i])
  /\ Answered({"duplicate_request"}) => DuplicateRequest
  /\ Answered({"duplicate_candidate"}) =>
       \E i \in Columns : Repeats(candidates, i)

Inv == SearchInv /\ OnlyWellFormedSearched

-----------------------------------------------------------------------------
(***************************************************************************)
(* A plan is sound: each request's configuration is that of an eligible    *)
(* candidate, no two share a timer, no two demanded ones a source or an    *)
(* entry, and exactly the demanded requests are bound, to the candidates   *)
(* their configurations come from.                                         *)
(***************************************************************************)
PlanIsValid ==
  Answered({"none"}) =>
    /\ choice \in Selections
    /\ Valid(choice)
    /\ \A r \in Rows : configurations[r] = candidates[choice[r]].configuration
    /\ \A r \in Rows, c \in Columns :
         <<requests[r].event, c>> \in bindings <=> Demanded(r) /\ c = choice[r]

(***************************************************************************)
(* A refusal is justified: conflict and no_candidate are answered only if  *)
(* there is no valid selection, and no_candidate only if some request has  *)
(* no candidate at all that it could use.                                  *)
(***************************************************************************)
RefusalIsJustified ==
  /\ Answered({"conflict", "no_candidate"}) =>
       \A a \in Selections : ~Valid(a)
  /\ Answered({"conflict", "no_candidate"}) =>
       (error = "no_candidate"
          <=> \E r \in Rows : \A c \in Columns : ~Eligible(r, c))

(***************************************************************************)
(* The plan is the preferred one, whatever order the candidates were       *)
(* listed in: among the valid selections that agree on the earlier         *)
(* requests, none has a lesser candidate for the next.                     *)
(***************************************************************************)
PlanIsLeast ==
  Answered({"none"}) =>
    \A a \in Selections, k \in Rows :
      Valid(a) /\ AgreesBefore(a, k)
        => ~Less(candidates[a[k]], candidates[choice[k]])

(***************************************************************************)
(* The nodes of the search tree: selections for the first n rows of which  *)
(* the earlier ones fit together and the last is eligible.                 *)
(***************************************************************************)
Node(n, a) ==
  /\ \A r \in 1 .. n : Eligible(r, a[r])
  /\ \A r \in 1 .. (n - 1) : \A s \in 1 .. (r - 1) : ~Clash(s, a[s], r, a[r])

Nodes(n) == {a \in [1 .. n -> Columns] : Node(n, a)}

\* On the first n rows, a does not come after b.
NotAfter(n, a, b) ==
  \A k \in 1 .. n : (\A j \in 1 .. (k - 1) : a[j] = b[j]) => a[k] <= b[k]

\* The nodes a depth-first search examines up to the first valid selection.
Examined ==
  LET valid == {a \in Selections : Valid(a)}
  IN  UNION {{a \in Nodes(n) : \A b \in valid : NotAfter(n, a, b)} : n \in Rows}

(***************************************************************************)
(* The budget is exact: the search gives up for want of budget exactly     *)
(* when deciding takes more candidates than the budget, never when it      *)
(* could have answered, and visited counts each examined candidate once.   *)
(***************************************************************************)
BudgetIsExact ==
  Answered({"none", "conflict", "no_candidate", "exhausted"}) =>
    LET needed == Cardinality(Examined)
    IN  /\ error = "exhausted" <=> budget < needed
        /\ visited = IF budget < needed THEN budget ELSE needed

\* The search ends, whatever the problem.
Returns == <>(pc = "done")

=============================================================================
