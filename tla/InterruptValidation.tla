------------------------ MODULE InterruptValidation ------------------------
(***************************************************************************)
(* timer::validates of timer/interrupt_allocator.hpp: a plan that solve    *)
(* made for one problem is kept, the problem is listed in another order or *)
(* changes, and validates tells whether the plan still stands.  It checks  *)
(* the requests against the event catalog, solves the problem again and    *)
(* compares the two plans.  Both calls of solve are those of               *)
(* InterruptAllocator: the first with any budget, the second with the      *)
(* default one, whatever the plan was made with.                           *)
(***************************************************************************)
EXTENDS InterruptAllocator, Sequences

CONSTANTS
  Catalog,       \* interrupt::EventCatalog<Spec>::keys
  Later,         \* the problems validates is asked about
  DefaultBudget  \* the default argument of solve, 100000 in the code

ASSUME DefaultAssumption == DefaultBudget \in Nat

ASSUME LaterAssumption ==
  Later \subseteq [requests : [Rows -> Request], candidates : [Columns -> Candidate],
                   demands : SUBSET Nat]

VARIABLES
  plan,     \* the plan that is kept: allocation_ok and the bindings
  same,     \* history: the plan was made for the problem now asked about
  spent,    \* history: the candidates that solve visited to make the plan
  answer    \* what validates has answered

validationVars == <<vars, plan, same, spent, answer>>

\* What of a candidate is written into the plan.
Binding(event, candidate) ==
  [event |-> event, configuration |-> candidate.configuration,
   source |-> candidate.source, entry |-> candidate.entry]

Solved ==
  [allocation_ok |-> error = "none",
   bindings |-> {Binding(b[1], candidates[b[2]]) : b \in bindings}]

\* The problem apart from the order in which it is listed.
Posed ==
  [requests |-> {requests[r] : r \in Rows},
   candidates |-> {candidates[c] : c \in Columns},
   demands |-> demands]

-----------------------------------------------------------------------------
ValidationInit ==
  /\ Init
  /\ plan = [allocation_ok |-> FALSE, bindings |-> {}]
  /\ same = FALSE
  /\ spent = 0
  /\ answer = "unasked"

Solve ==
  /\ answer # "rejected"
  /\ SortRequests \/ SortCandidates \/ Search \/ Succeed \/ Diagnose
  /\ UNCHANGED <<plan, same, spent, answer>>

\* Each event of the catalog is asked for exactly once.
InCatalog(list) ==
  /\ R = Len(Catalog)
  /\ \A i \in Rows : Cardinality({j \in Rows : list[j].event = Catalog[i]}) = 1

\* As ValidationBudget, taking over the budget that the plan was made with.
PlanBudget == budget

\* solve(problem, demands): the budget is left to its default.
ValidationBudget == DefaultBudget

\* A later problem comes up, and validates is called with the plan just made.
Ask ==
  /\ pc = "done"
  /\ answer = "unasked"
  /\ plan' = Solved
  /\ \E later \in Later :
       /\ requests' = later.requests
       /\ candidates' = later.candidates
       /\ demands' = later.demands
  /\ same' = (Posed' = Posed)
  /\ spent' = visited
  /\ answer' = IF InCatalog(requests') THEN "asked" ELSE "rejected"
  /\ budget' = ValidationBudget
  /\ pc' = "requests"
  /\ row' = 1
  /\ choice' = [r \in Rows |-> 1]
  /\ visited' = 0
  /\ error' = "none"
  /\ bindings' = {}
  /\ configurations' = [r \in Rows |-> 0]

\* As Agrees, comparing the bindings the plan has without their number.
AgreesSoFar ==
  /\ error = "none"
  /\ plan.allocation_ok
  /\ plan.bindings \subseteq Solved.bindings

Agrees ==
  /\ error = "none"
  /\ plan = Solved

Decide ==
  /\ pc = "done"
  /\ answer = "asked"
  /\ answer' = IF Agrees THEN "accepted" ELSE "rejected"
  /\ UNCHANGED <<vars, plan, same, spent>>

Answer ==
  /\ answer \in {"accepted", "rejected"}
  /\ UNCHANGED validationVars

ValidationNext == Solve \/ Ask \/ Decide \/ Answer

ValidationSpec == ValidationInit /\ [][ValidationNext]_validationVars

-----------------------------------------------------------------------------
(***************************************************************************)
(* An accepted plan serves the problem as it is now: it binds every        *)
(* request that is demanded now, nothing else, and to candidates that are  *)
(* offered and free now, no two on one source or entry.                    *)
(***************************************************************************)
AcceptedPlansServe ==
  answer = "accepted" =>
    /\ \A r \in Rows : Demanded(r) =>
         \E c \in Columns :
           /\ Eligible(r, c)
           /\ Binding(requests[r].event, candidates[c]) \in plan.bindings
    /\ \A b \in plan.bindings : b.event \in demands
    /\ \A a, b \in plan.bindings :
         a # b => a.event # b.event /\ a.source # b.source /\ a.entry # b.entry

(***************************************************************************)
(* A plan that was made for the same problem, in whatever order its        *)
(* requests and candidates were listed then, is accepted exactly if making *)
(* it took no more candidates than the default budget: one that was only   *)
(* found with a larger budget is rejected.                                 *)
(***************************************************************************)
SameProblemStands ==
  plan.allocation_ok /\ same /\ InCatalog(requests) =>
    /\ answer = "accepted" => spent <= DefaultBudget
    /\ answer = "rejected" => DefaultBudget < spent

=============================================================================
