---------------------- MODULE InterruptAllocatorProofs ----------------------
(***************************************************************************)
(* Proofs about InterruptAllocator and InterruptValidation for any number  *)
(* of requests and candidates: a plan is valid, a refusal is justified,    *)
(* the plan is the preferred one, the budget is counted exactly, and       *)
(* validates accepts a plan if and only if it still serves.                *)
(*                                                                         *)
(* The invariant of the search says how far it has got: the selections     *)
(* above the current row fit together, no valid selection lies to the left *)
(* of the path the search is on, and visited is the number of nodes behind *)
(* that path.  That of validates says what problem the kept plan is for,   *)
(* and that sorting brings any listing of that problem into one form.      *)
(***************************************************************************)
EXTENDS InterruptValidation, FiniteSetTheorems, FunctionTheorems,
        WellFoundedInduction, TLAPS

\* What the assumption says of the template parameters.
LEMMA Sizes ==
  /\ R \in Nat /\ C \in Nat
  /\ \A r \in Rows : r \in Nat /\ 1 <= r /\ r <= R
  /\ \A r \in Nat : 1 <= r /\ r <= R => r \in Rows
  /\ \A c \in Columns : c \in Nat /\ 1 <= c /\ c <= C
BY ProblemAssumption DEF Rows, Columns

Problem == <<requests, candidates, demands>>

\* Eligibility and validity are a matter of the problem alone.
LEMMA SameEligible ==
  ASSUME UNCHANGED Problem, NEW r, NEW c
  PROVE  Eligible(r, c)' <=> Eligible(r, c)
BY DEF Problem, Eligible, Demanded

\* What is valid depends on the problem alone.
LEMMA SameValid ==
  ASSUME UNCHANGED Problem, NEW a
  PROVE  Valid(a)' <=> Valid(a)
BY DEF Problem, Valid, Eligible, Clash, Demanded

\* The order of the candidates survives a step within the search.
LEMMA SameSorted ==
  ASSUME Sorted, pc = "search", UNCHANGED Problem
  PROVE  Sorted'
BY DEF Problem, Sorted, Less, Answered

\* The parts of the invariant about the problem survive too.
LEMMA SameEvents ==
  ASSUME EventsDistinct, pc = "search", UNCHANGED Problem
  PROVE  EventsDistinct'
BY DEF Problem, EventsDistinct

-----------------------------------------------------------------------------
(* The invariant. *)

\* A call begins with an empty search.
LEMMA InitInv == Init => SearchInv
<1> SUFFICES ASSUME Init PROVE SearchInv
  OBVIOUS
<1>1. TypeOK
  <2>1. /\ requests \in [Rows -> Request] /\ candidates \in [Columns -> Candidate]
        /\ demands \in SUBSET Nat /\ budget \in Nat
    BY ProblemAssumption DEF Init
  <2>2. row \in 1 .. (R + 1) /\ visited \in 0 .. budget
    BY <2>1, Sizes DEF Init
  <2>3. choice \in [Rows -> 1 .. (C + 1)] /\ configurations \in [Rows -> Nat]
    BY Sizes DEF Init
  <2> QED BY <2>1, <2>2, <2>3 DEF Init, TypeOK
<1> QED BY <1>1 DEF Init, SearchInv, ErrorIsFinal, NothingSelected,
                    EventsDistinct, Sorted, Answered,
                    PrefixFits, NoneSkipped

\* A refusal leaves a typed state in which nothing more is claimed.
LEMMA FailInv ==
  ASSUME SearchInv, NEW reason, Fail(reason),
         reason \in {"invalid_model", "duplicate_request", "duplicate_candidate",
                     "no_candidate", "conflict", "exhausted"},
         requests' \in [Rows -> Request], candidates' \in [Columns -> Candidate],
         UNCHANGED <<demands, budget, row, choice, visited>>
  PROVE  SearchInv'
<1>1. pc' = "done" /\ error' = reason /\ bindings' = {}
      /\ configurations' = configurations
  BY DEF Fail
<1>2. TypeOK'
  BY <1>1 DEF SearchInv, TypeOK
<1> QED BY <1>1, <1>2 DEF SearchInv, ErrorIsFinal, NothingSelected,
                    EventsDistinct, Sorted, Answered,
                          PrefixFits, NoneSkipped

\* Sorting the requests keeps the invariant.
LEMMA SortRequestsInv == ASSUME SearchInv, SortRequests PROVE SearchInv'
<1>1. /\ pc = "requests" /\ error = "none"
      /\ UNCHANGED <<candidates, demands, budget, row, choice, visited>>
  BY DEF SortRequests, SearchInv, ErrorIsFinal
<1>2. requests' \in [Rows -> Request]
  BY DEF SortRequests, RowOrders, Rearranges, SearchInv, TypeOK
<1>3. CASE DuplicateRequest' /\ Fail("duplicate_request")
  BY <1>1, <1>2, <1>3, FailInv DEF SearchInv, TypeOK
<1>4. CASE ~DuplicateRequest' /\ Proceed("candidates")
  <2>1. pc' = "candidates" /\ UNCHANGED result
    BY <1>4 DEF Proceed
  <2>2. TypeOK'
    BY <1>1, <1>2, <2>1 DEF SearchInv, TypeOK, result
  <2>3. EventsDistinct'
    <3>1. \A i, j \in Rows : i < j => requests'[i].event # requests'[j].event
      BY <1>4 DEF DuplicateRequest
    <3>2. \A i, j \in Rows : i # j => i < j \/ j < i
      BY Sizes
    <3> QED BY <3>1, <3>2 DEF EventsDistinct
  <2> QED BY <1>1, <2>1, <2>2, <2>3
          DEF SearchInv, ErrorIsFinal, NothingSelected, Sorted, Answered,
              PrefixFits, NoneSkipped, result
<1> QED BY <1>3, <1>4 DEF SortRequests

\* Sorting the candidates lets only well-formed problems through.
LEMMA SortCandidatesInv == ASSUME SearchInv, SortCandidates PROVE SearchInv'
<1>1. /\ pc = "candidates" /\ error = "none"
      /\ UNCHANGED <<requests, demands, budget, row, choice, visited>>
  BY DEF SortCandidates, SearchInv, ErrorIsFinal
<1>2. /\ candidates' \in [Columns -> Candidate]
      /\ \A i \in Columns : \A j \in 1 .. (i - 1) :
           ~Less(candidates'[i], candidates'[j])
  <2> PICK order \in ColumnOrders :
        /\ \A i \in Columns : \A j \in 1 .. (i - 1) :
             ~Less(candidates[order[i]], candidates[order[j]])
        /\ candidates' = [i \in Columns |-> candidates[order[i]]]
    BY DEF SortCandidates
  <2>1. order \in [Columns -> Columns]
    BY DEF ColumnOrders, Rearranges
  <2>2. \A i \in Columns : \A j \in 1 .. (i - 1) : j \in Columns
    BY Sizes DEF Columns
  <2> QED BY <2>1, <2>2 DEF SearchInv, TypeOK
<1>3. ASSUME NEW i \in Columns,
             Fail(IF Invalid(candidates'[i])
                  THEN "invalid_model" ELSE "duplicate_candidate")
      PROVE  SearchInv'
  <2>1. CASE Invalid(candidates'[i])
    BY <1>1, <1>2, <1>3, <2>1, FailInv DEF SearchInv, TypeOK
  <2>2. CASE ~Invalid(candidates'[i])
    BY <1>1, <1>2, <1>3, <2>2, FailInv DEF SearchInv, TypeOK
  <2> QED BY <2>1, <2>2
<1>4. CASE Proceed("search")
  <2>1. pc' = "search" /\ UNCHANGED result
    BY <1>4 DEF Proceed
  <2>2. TypeOK'
    BY <1>1, <1>2, <2>1 DEF SearchInv, TypeOK, result
  <2>3. EventsDistinct' /\ Sorted' /\ ErrorIsFinal' /\ NothingSelected'
    BY <1>1, <1>2, <2>1
       DEF SearchInv, EventsDistinct, Sorted, ErrorIsFinal, NothingSelected, result
  <2>4. row' = 1 /\ choice' = [r \in Rows |-> 1]
    BY <1>1 DEF SearchInv, NothingSelected
  <2>5. PrefixFits'
    BY <2>4 DEF PrefixFits
  <2>6. NoneSkipped'
    BY <2>1, <2>4, Sizes DEF NoneSkipped, Selections
  <2> QED BY <2>2, <2>3, <2>5, <2>6 DEF SearchInv
<1> QED BY <1>3, <1>4 DEF SortCandidates

-----------------------------------------------------------------------------
(* The steps of the search. *)

\* What a step within the search leaves alone.
Within ==
  /\ pc = "search" /\ pc' = "search"
  /\ UNCHANGED <<input, result>>

\* It is enough to look at the search itself.
LEMMA WithinInv ==
  ASSUME SearchInv, Within, row' \in 1 .. (R + 1), choice' \in [Rows -> 1 .. (C + 1)],
         visited' \in 0 .. budget,
         \A r \in 1 .. (row' - 1) :
           /\ choice'[r] \in Columns
           /\ Eligible(r, choice'[r])
           /\ \A s \in 1 .. (r - 1) : ~Clash(s, choice'[s], r, choice'[r]),
         \A a \in Selections, k \in Rows :
           /\ k <= row'
           /\ Valid(a)
           /\ \A j \in 1 .. (k - 1) : a[j] = choice'[j]
           => choice'[k] <= a[k]
  PROVE  SearchInv'
<1>1. UNCHANGED Problem /\ budget' = budget /\ UNCHANGED result
  BY DEF Within, input, Problem
<1>2. TypeOK'
  BY <1>1 DEF Within, SearchInv, TypeOK, Problem, result
<1>3. ErrorIsFinal' /\ NothingSelected'
  BY <1>1 DEF Within, SearchInv, ErrorIsFinal, NothingSelected, result
<1>4. EventsDistinct' /\ Sorted'
  BY <1>1, SameEvents, SameSorted DEF Within, SearchInv
<1>5. PrefixFits'
  BY <1>1 DEF PrefixFits, Problem, Eligible, Clash, Demanded
<1>6. NoneSkipped'
  <2>1. \A a : Valid(a)' <=> Valid(a)
    BY <1>1, SameValid
  <2> QED BY <2>1 DEF Within, NoneSkipped, AgreesBefore
<1> QED BY <1>2, <1>3, <1>4, <1>5, <1>6 DEF SearchInv

\* The innermost loop passes over a candidate that no valid selection with
\* the rows above can use.
LEMMA PassOverInv ==
  ASSUME SearchInv, Within, NEW c \in Columns, Looking(c),
         row' = row, choice' = Advanced(row), visited' \in 0 .. budget,
         \A a \in Selections : Valid(a) /\ AgreesBefore(a, row) => a[row] # c
  PROVE  SearchInv'
<1>1. row \in Rows /\ choice[row] = c /\ row <= R
  BY Sizes DEF Looking, Searching, SearchInv, TypeOK
<1>2. choice' \in [Rows -> 1 .. (C + 1)] /\ choice'[row] = c + 1
  BY <1>1, Sizes DEF Advanced, SearchInv, TypeOK
<1>3. \A r \in Rows : r # row => choice'[r] = choice[r]
  BY <1>1 DEF Advanced, SearchInv, TypeOK
<1>4. \A r \in 1 .. (row - 1) : r \in Rows /\ choice'[r] = choice[r]
  BY <1>1, <1>3, Sizes
<1>5. \A r \in 1 .. (row' - 1) :
        /\ choice'[r] \in Columns
        /\ Eligible(r, choice'[r])
        /\ \A s \in 1 .. (r - 1) : ~Clash(s, choice'[s], r, choice'[r])
  <2>1. \A r \in 1 .. (row - 1) :
          /\ choice[r] \in Columns
          /\ Eligible(r, choice[r])
          /\ \A s \in 1 .. (r - 1) : ~Clash(s, choice[s], r, choice[r])
    BY DEF Within, SearchInv, PrefixFits
  <2>2. \A r \in 1 .. (row - 1) : \A s \in 1 .. (r - 1) : s \in 1 .. (row - 1)
    BY <1>1, Sizes
  <2> QED BY <1>4, <2>1, <2>2
<1>6. ASSUME NEW a \in Selections, NEW k \in Rows, k <= row', Valid(a),
             \A j \in 1 .. (k - 1) : a[j] = choice'[j]
      PROVE  choice'[k] <= a[k]
  <2>1. AgreesBefore(a, k)
    <3>1. \A j \in 1 .. (k - 1) : j \in 1 .. (row - 1)
      BY <1>1, <1>6, Sizes
    <3> QED BY <1>4, <1>6, <3>1 DEF AgreesBefore
  <2>2. choice[k] <= a[k]
    BY <1>6, <2>1 DEF Within, SearchInv, NoneSkipped
  <2>3. CASE k # row
    BY <1>3, <2>2, <2>3
  <2>4. CASE k = row
    <3>1. a[row] # c /\ a[row] \in Columns
      BY <1>1, <1>6, <2>1, <2>4 DEF Selections
    <3> QED BY <1>1, <1>2, <2>2, <2>4, <3>1, Sizes
  <2> QED BY <2>3, <2>4
<1>7. row' \in 1 .. (R + 1)
  BY DEF SearchInv, TypeOK
<1> QED BY <1>2, <1>5, <1>6, <1>7, WithinInv

\* A candidate that is not eligible is in no valid selection.
LEMMA SkipInv == ASSUME SearchInv, Skip PROVE SearchInv'
<1> PICK c \in Columns : Looking(c) /\ ~Eligible(row, c)
  BY DEF Skip
<1>1. Within /\ row' = row /\ visited' = visited
  BY DEF Skip, Within, Looking, Searching
<1>2. row \in Rows
  BY Sizes DEF Looking, Searching, SearchInv, TypeOK
<1>3. \A a \in Selections : Valid(a) => a[row] # c
  BY <1>2 DEF Valid
<1>4. visited' \in 0 .. budget
  BY <1>1 DEF SearchInv, TypeOK
<1>5. choice' = Advanced(row)
  BY DEF Skip
<1> QED BY <1>1, <1>3, <1>4, <1>5, PassOverInv

\* A candidate that clashes with a selected one is in no valid selection that
\* agrees with the rows above.
LEMMA RejectInv == ASSUME SearchInv, Reject PROVE SearchInv'
<1> PICK c \in Columns : Visit(c) /\ ~Fits(c)
  BY DEF Reject
<1>1. Within /\ row' = row /\ Looking(c)
  BY DEF Reject, Within, Visit, Looking, Searching
<1>2. row \in Rows
  BY <1>1, Sizes DEF Looking, Searching, SearchInv, TypeOK
<1>3. \A a \in Selections : Valid(a) /\ AgreesBefore(a, row) => a[row] # c
  BY <1>2 DEF Valid, AgreesBefore, Fits
<1>4. visited' \in 0 .. budget
  BY DEF Visit, SearchInv, TypeOK
<1>5. choice' = Advanced(row)
  BY DEF Reject
<1> QED BY <1>1, <1>3, <1>4, <1>5, PassOverInv

\* Going one row deeper, the loop of that row starts at the first candidate.
LEMMA SelectInv == ASSUME SearchInv, Select PROVE SearchInv'
<1> PICK c \in Columns : Visit(c) /\ Fits(c)
  BY DEF Select
<1>1. /\ Within /\ row' = row + 1 /\ Looking(c) /\ Eligible(row, c)
      /\ choice' = IF row < R THEN [choice EXCEPT ![row + 1] = 1] ELSE choice
  BY DEF Select, Within, Visit, Looking, Searching
<1>2. row \in Rows /\ row <= R /\ row \in Nat /\ 1 <= row /\ choice[row] = c
  BY <1>1, Sizes DEF Looking, Searching, SearchInv, TypeOK
<1>3. choice' \in [Rows -> 1 .. (C + 1)]
  BY <1>1, <1>2, Sizes DEF SearchInv, TypeOK
<1>4. \A r \in Rows : r # row + 1 => choice'[r] = choice[r]
  BY <1>1, <1>2 DEF SearchInv, TypeOK
<1>5. \A r \in 1 .. row : r \in Rows /\ choice'[r] = choice[r]
  BY <1>2, <1>4, Sizes
<1>6. \A r \in 1 .. row : \A s \in 1 .. (r - 1) : s \in 1 .. row
  BY <1>2
<1>7. ASSUME NEW r \in 1 .. (row' - 1)
      PROVE  /\ choice'[r] \in Columns
             /\ Eligible(r, choice'[r])
             /\ \A s \in 1 .. (r - 1) : ~Clash(s, choice'[s], r, choice'[r])
  <2>1. r \in 1 .. row
    BY <1>1, <1>2
  <2>2. CASE r = row
    <3>1. \A s \in 1 .. (r - 1) : ~Clash(s, choice[s], r, c)
      BY <2>2 DEF Fits
    <3> QED BY <1>1, <1>2, <1>5, <1>6, <2>1, <2>2, <3>1
  <2>3. CASE r # row
    <3>1. r \in 1 .. (row - 1)
      BY <1>2, <2>1, <2>3
    <3>2. /\ choice[r] \in Columns
          /\ Eligible(r, choice[r])
          /\ \A s \in 1 .. (r - 1) : ~Clash(s, choice[s], r, choice[r])
      BY <1>1, <3>1 DEF Within, SearchInv, PrefixFits
    <3> QED BY <1>5, <1>6, <2>1, <3>2
  <2> QED BY <2>2, <2>3
<1>8. ASSUME NEW a \in Selections, NEW k \in Rows, k <= row', Valid(a),
             \A j \in 1 .. (k - 1) : a[j] = choice'[j]
      PROVE  choice'[k] <= a[k]
  <2>1. CASE k = row + 1
    <3>1. choice'[k] = 1
      BY <1>1, <1>2, <2>1, Sizes DEF SearchInv, TypeOK
    <3>2. a[k] \in Columns
      BY DEF Selections
    <3> QED BY <3>1, <3>2, Sizes
  <2>2. CASE k # row + 1
    <3>1. k <= row /\ \A j \in 1 .. (k - 1) : j \in 1 .. row
      BY <1>1, <1>2, <1>8, <2>2, Sizes
    <3>2. AgreesBefore(a, k)
      BY <1>5, <1>8, <3>1 DEF AgreesBefore
    <3>3. choice[k] <= a[k]
      BY <1>1, <1>8, <3>1, <3>2 DEF Within, SearchInv, NoneSkipped
    <3> QED BY <1>4, <2>2, <3>3
  <2> QED BY <2>1, <2>2
<1>9. row' \in 1 .. (R + 1) /\ visited' \in 0 .. budget
  BY <1>1, <1>2, Sizes DEF Visit, SearchInv, TypeOK
<1> QED BY <1>1, <1>3, <1>7, <1>8, <1>9, WithinInv

\* A row that has run out of candidates has no valid selection left that
\* agrees with the rows above.
LEMMA RunOut ==
  ASSUME SearchInv, Searching, choice[row] = C + 1
  PROVE  \A a \in Selections : Valid(a) => ~AgreesBefore(a, row)
<1>1. row \in Rows
  BY Sizes DEF Searching, SearchInv, TypeOK
<1> SUFFICES ASSUME NEW a \in Selections, Valid(a), AgreesBefore(a, row)
             PROVE  FALSE
  OBVIOUS
<1>2. C + 1 <= a[row]
  <2>1. row <= row
    BY <1>1, Sizes
  <2> QED BY <1>1, <2>1 DEF Searching, SearchInv, NoneSkipped
<1>3. a[row] \in Columns
  BY <1>1 DEF Selections
<1> QED BY <1>2, <1>3, Sizes

\* A row without a candidate left rules out the selection above it.
LEMMA BacktrackInv == ASSUME SearchInv, Backtrack PROVE SearchInv'
<1> DEFINE up == row - 1
<1>1. /\ Within /\ Searching /\ choice[row] = C + 1 /\ row' = up
      /\ choice' = Advanced(up) /\ visited' = visited /\ row > 1
  BY DEF Backtrack, Within, Searching
<1>2. /\ row \in Rows /\ row \in Nat /\ row <= R
      /\ up \in Rows /\ up \in Nat /\ row = up + 1 /\ 1 <= up
  BY <1>1, Sizes DEF Searching, SearchInv, TypeOK
<1>3. \A r \in 1 .. up :
        /\ choice[r] \in Columns
        /\ Eligible(r, choice[r])
        /\ \A s \in 1 .. (r - 1) : ~Clash(s, choice[s], r, choice[r])
  BY <1>1 DEF Within, SearchInv, PrefixFits
<1>4. choice' \in [Rows -> 1 .. (C + 1)] /\ choice'[up] = choice[up] + 1
  <2>1. choice[up] \in Columns
    BY <1>2, <1>3
  <2> QED BY <1>1, <1>2, <2>1, Sizes DEF Advanced, SearchInv, TypeOK
<1>5. \A r \in Rows : r # up => choice'[r] = choice[r]
  BY <1>1, <1>2 DEF Advanced, SearchInv, TypeOK
<1>6. \A r \in 1 .. (up - 1) : r \in Rows /\ r \in 1 .. up /\ choice'[r] = choice[r]
  BY <1>2, <1>5, Sizes
<1>7. \A r \in 1 .. (row' - 1) :
        /\ choice'[r] \in Columns
        /\ Eligible(r, choice'[r])
        /\ \A s \in 1 .. (r - 1) : ~Clash(s, choice'[s], r, choice'[r])
  <2>1. \A r \in 1 .. (up - 1) : \A s \in 1 .. (r - 1) : s \in 1 .. (up - 1)
    BY <1>2
  <2> QED BY <1>1, <1>3, <1>6, <2>1
<1>8. ASSUME NEW a \in Selections, NEW k \in Rows, k <= row', Valid(a),
             \A j \in 1 .. (k - 1) : a[j] = choice'[j]
      PROVE  choice'[k] <= a[k]
  <2>1. \A j \in 1 .. (k - 1) : j \in 1 .. (up - 1)
    BY <1>1, <1>2, <1>8, Sizes
  <2>2. AgreesBefore(a, k)
    BY <1>6, <1>8, <2>1 DEF AgreesBefore
  <2>3. choice[k] <= a[k]
    <3>1. k <= row
      BY <1>1, <1>2, <1>8, Sizes
    <3> QED BY <1>1, <1>8, <2>2, <3>1 DEF Within, SearchInv, NoneSkipped
  <2>4. CASE k # up
    BY <1>5, <2>3, <2>4
  <2>5. CASE k = up
    <3>1. ~AgreesBefore(a, row)
      BY <1>1, <1>8, RunOut
    <3>2. a[up] # choice[up]
      <4>1. \A j \in 1 .. (row - 1) : j \in 1 .. (up - 1) \/ j = up
        BY <1>2
      <4> QED BY <2>2, <2>5, <3>1, <4>1 DEF AgreesBefore
    <3>3. a[up] \in Columns /\ choice[up] \in Columns
      BY <1>2, <1>3 DEF Selections
    <3> QED BY <1>4, <2>3, <2>5, <3>2, <3>3, Sizes
  <2> QED BY <2>4, <2>5
<1>9. row' \in 1 .. (R + 1) /\ visited' \in 0 .. budget
  BY <1>1, <1>2, Sizes DEF SearchInv, TypeOK
<1> QED BY <1>1, <1>4, <1>7, <1>8, <1>9, WithinInv

\* When the first row runs out there is no valid selection at all.
LEMMA GiveUpInv == ASSUME SearchInv, GiveUp PROVE SearchInv'
<1>1. /\ pc = "search" /\ pc' = "diagnose" /\ row = 1
      /\ UNCHANGED <<input, row, choice, visited, result>>
  BY DEF GiveUp, Proceed, Searching
<1>2. \A a \in Selections : ~Valid(a)
  <2>1. \A a : AgreesBefore(a, 1)
    BY DEF AgreesBefore
  <2> QED BY <1>1, <2>1, RunOut DEF GiveUp
<1>3. UNCHANGED Problem
  BY <1>1 DEF input, Problem
<1>4. TypeOK' /\ ErrorIsFinal'
  BY <1>1 DEF SearchInv, TypeOK, ErrorIsFinal, input, result
<1>5. NoneSkipped'
  <2>1. \A a : Valid(a)' <=> Valid(a)
    BY <1>3, SameValid
  <2> QED BY <1>1, <1>2, <2>1 DEF NoneSkipped
<1> QED BY <1>1, <1>4, <1>5
        DEF SearchInv, NothingSelected, EventsDistinct, Sorted, Answered, PrefixFits

\* Running out of budget ends the search.
LEMMA ExhaustInv == ASSUME SearchInv, Exhaust PROVE SearchInv'
<1>1. Fail("exhausted") /\ UNCHANGED <<input, row, choice, visited>>
  BY DEF Exhaust
<1> QED BY <1>1, FailInv DEF input, SearchInv, TypeOK

\* Telling why there is no plan changes nothing else.
LEMMA DiagnoseInv == ASSUME SearchInv, Diagnose PROVE SearchInv'
<1>1. \/ Fail("conflict") /\ UNCHANGED <<input, row, choice, visited>>
      \/ Fail("no_candidate") /\ UNCHANGED <<input, row, choice, visited>>
  BY DEF Diagnose
<1> QED BY <1>1, FailInv DEF input, SearchInv, TypeOK

\* When every row is selected, the selections are a valid one.
LEMMA FoundValid ==
  ASSUME SearchInv, pc = "search", row = R + 1
  PROVE  choice \in Selections /\ Valid(choice)
<1>1. \A r \in Rows : r \in 1 .. (row - 1)
  BY Sizes
<1>2. \A r \in Rows :
        /\ choice[r] \in Columns
        /\ Eligible(r, choice[r])
        /\ \A s \in 1 .. (r - 1) : ~Clash(s, choice[s], r, choice[r])
  BY <1>1 DEF SearchInv, PrefixFits
<1> QED BY <1>2 DEF SearchInv, TypeOK, Selections, Valid

\* A full path becomes the plan.
LEMMA SucceedInv == ASSUME SearchInv, Succeed PROVE SearchInv'
<1>1. /\ pc = "search" /\ pc' = "done" /\ row = R + 1
      /\ UNCHANGED <<input, row, choice, visited, error>>
      /\ configurations' = [r \in Rows |-> candidates[choice[r]].configuration]
      /\ bindings' =
           {<<requests[r].event, choice[r]>> : r \in {k \in Rows : Demanded(k)}}
  BY DEF Succeed
<1>2. choice \in [Rows -> Columns]
  BY <1>1, FoundValid DEF Selections
<1>3. configurations' \in [Rows -> Nat]
  BY <1>1, <1>2 DEF SearchInv, TypeOK, Candidate
<1>4. bindings' \subseteq (Nat \X Columns)
  BY <1>1, <1>2 DEF SearchInv, TypeOK, Request
<1>5. TypeOK'
  BY <1>1, <1>3, <1>4 DEF SearchInv, TypeOK, input
<1>6. Sorted'
  BY <1>1 DEF SearchInv, Sorted, input
<1> QED BY <1>1, <1>5, <1>6
        DEF SearchInv, ErrorIsFinal, NothingSelected, EventsDistinct, PrefixFits,
            NoneSkipped

\* Every step keeps the invariant.
LEMMA NextInv == SearchInv /\ [Next]_vars => SearchInv'
<1> SUFFICES ASSUME SearchInv, [Next]_vars PROVE SearchInv'
  OBVIOUS
<1>1. CASE SortRequests
  BY <1>1, SortRequestsInv
<1>2. CASE SortCandidates
  BY <1>2, SortCandidatesInv
<1>3. CASE Search
  BY <1>3, SkipInv, ExhaustInv, RejectInv, SelectInv, BacktrackInv, GiveUpInv
     DEF Search
<1>4. CASE Succeed
  BY <1>4, SucceedInv
<1>5. CASE Diagnose
  BY <1>5, DiagnoseInv
<1>6. CASE UNCHANGED vars
  <2>1. UNCHANGED Problem
    BY <1>6 DEF vars, Problem
  <2>2. \A a : Valid(a)' <=> Valid(a)
    BY <2>1, SameValid
  <2>3. TypeOK' /\ ErrorIsFinal' /\ NothingSelected' /\ EventsDistinct'
    BY <1>6 DEF vars, SearchInv, TypeOK, ErrorIsFinal, NothingSelected, EventsDistinct
  <2>4. Sorted'
    BY <1>6 DEF vars, SearchInv, Sorted, Answered
  <2>5. PrefixFits'
    BY <1>6 DEF vars, SearchInv, PrefixFits, Eligible, Clash, Demanded
  <2>6. NoneSkipped'
    BY <1>6, <2>2 DEF vars, SearchInv, NoneSkipped, AgreesBefore
  <2> QED BY <2>3, <2>4, <2>5, <2>6 DEF SearchInv
<1> QED BY <1>1, <1>2, <1>3, <1>4, <1>5, <1>6 DEF Next, Returned

\* The invariant of the search holds in every state.
LEMMA SearchInvariant == Spec => []SearchInv
<1>1. Init => SearchInv
  BY InitInv
<1>2. SearchInv /\ [Next]_vars => SearchInv'
  BY NextInv
<1> QED BY <1>1, <1>2, PTL DEF Spec

\* What the checks before the search find is there, and what they let pass
\* is well-formed.
LEMMA NextWellFormed ==
  SearchInv /\ OnlyWellFormedSearched /\ [Next]_vars => OnlyWellFormedSearched'
<1> SUFFICES ASSUME SearchInv, OnlyWellFormedSearched, [Next]_vars
             PROVE  OnlyWellFormedSearched'
  OBVIOUS
<1>1. CASE SortRequests
  BY <1>1 DEF SortRequests, Fail, Proceed, OnlyWellFormedSearched, Answered
<1>2. CASE SortCandidates
  <2>1. ASSUME NEW i \in Columns,
               FirstBad(candidates', i),
               Fail(IF Invalid(candidates'[i])
                    THEN "invalid_model" ELSE "duplicate_candidate")
        PROVE  OnlyWellFormedSearched'
    <3>1. pc' = "done" /\ (Invalid(candidates'[i]) \/ Repeats(candidates', i))
      BY <2>1 DEF Fail, FirstBad, Bad
    <3>2. CASE Invalid(candidates'[i])
      <4>1. error' = "invalid_model"
        BY <2>1, <3>2 DEF Fail
      <4> QED BY <3>1, <3>2, <4>1 DEF OnlyWellFormedSearched, Answered, Invalid
    <3>3. CASE ~Invalid(candidates'[i])
      <4>1. error' = "duplicate_candidate" /\ Repeats(candidates', i)
        BY <2>1, <3>1, <3>3 DEF Fail
      <4> QED BY <3>1, <4>1 DEF OnlyWellFormedSearched, Answered, Repeats
    <3> QED BY <3>2, <3>3
  <2>2. CASE (\A i \in Columns : ~Bad(candidates', i)) /\ Proceed("search")
    <3>1. pc' = "search"
      BY <2>2 DEF Proceed
    <3>2. \A i \in Columns : ~Invalid(candidates'[i])
      BY <2>2 DEF Bad
    <3>3. ASSUME NEW i \in Columns, NEW j \in Columns, j < i
          PROVE  \/ candidates'[i].request # candidates'[j].request
                 \/ candidates'[i].configuration # candidates'[j].configuration
      <4>1. j \in 1 .. (i - 1)
        BY <3>3, Sizes
      <4> QED BY <2>2, <4>1 DEF Bad, Repeats
    <3>4. \A i, j \in Columns : i # j => i < j \/ j < i
      BY Sizes
    <3> QED BY <3>1, <3>2, <3>3, <3>4 DEF OnlyWellFormedSearched, Answered, Invalid
  <2> QED BY <1>2, <2>1, <2>2 DEF SortCandidates
<1>3. CASE Search \/ Succeed \/ Diagnose
  <2>1. candidates' = candidates /\ pc \in {"search", "diagnose"}
    BY <1>3 DEF Search, Skip, Exhaust, Reject, Select, Backtrack, GiveUp, Succeed,
                Diagnose, Visit, Looking, Searching, input
  <2>2. pc' = "search" => pc = "search"
    BY <1>3 DEF Search, Skip, Exhaust, Reject, Select, Backtrack, GiveUp, Succeed,
                Diagnose, Visit, Looking, Searching, Fail, Proceed
  <2>3. pc' = "done" => error' \in {"none", "exhausted", "conflict", "no_candidate"}
    BY <1>3 DEF Search, Skip, Exhaust, Reject, Select, Backtrack, GiveUp, Succeed,
                Diagnose, Visit, Looking, Searching, Fail, Proceed, SearchInv,
                ErrorIsFinal
  <2> QED BY <2>1, <2>2, <2>3 DEF OnlyWellFormedSearched, Answered, Invalid
<1>4. CASE UNCHANGED vars
  BY <1>4 DEF vars, OnlyWellFormedSearched, Answered, Invalid, DuplicateRequest, Repeats
<1> QED BY <1>1, <1>2, <1>3, <1>4 DEF Next, Returned

(***************************************************************************)
(* The types, the sortedness of the problem, how far the search has got    *)
(* (the path fits together and nothing valid lies to its left), and that   *)
(* malformed problems are refused for what is wrong with them and never    *)
(* searched (solve, its checks and its recursive search).                  *)
(***************************************************************************)
THEOREM AllocatorInvariant == Spec => []Inv
<1>1. Init => OnlyWellFormedSearched
  BY DEF Init, OnlyWellFormedSearched, Answered
<1>2. SearchInv /\ OnlyWellFormedSearched /\ [Next]_vars => OnlyWellFormedSearched'
  BY NextWellFormed
<1>3. SearchInv /\ OnlyWellFormedSearched => Inv
  BY DEF Inv
<1> QED BY <1>1, <1>2, <1>3, SearchInvariant, PTL DEF Spec

-----------------------------------------------------------------------------
(* The answers. *)

Answers == PlanIsValid /\ RefusalIsJustified /\ PlanIsLeast

\* Until the search has answered, nothing is claimed.
LEMMA Unanswered ==
  ASSUME \/ pc' # "done"
         \/ error' \in {"invalid_model", "duplicate_request",
                        "duplicate_candidate", "exhausted"}
  PROVE  Answers'
BY DEF Answers, PlanIsValid, RefusalIsJustified, PlanIsLeast, Answered

\* Sorting the requests may only refuse duplicates.
LEMMA SortRequestsAnswers == ASSUME SearchInv, SortRequests PROVE Answers'
<1>1. pc' # "done" \/ error' = "duplicate_request"
  BY DEF SortRequests, Fail, Proceed
<1> QED BY <1>1, Unanswered

\* Sorting the candidates may only refuse a malformed problem.
LEMMA SortCandidatesAnswers == ASSUME SearchInv, SortCandidates PROVE Answers'
<1>1. pc' # "done" \/ error' \in {"invalid_model", "duplicate_candidate"}
  BY DEF SortCandidates, Fail, Proceed
<1> QED BY <1>1, Unanswered

\* A step of the search does not answer, unless the budget is exhausted.
LEMMA SearchAnswers == ASSUME SearchInv, Search PROVE Answers'
<1>1. CASE Exhaust
  BY <1>1, Unanswered DEF Exhaust, Fail
<1>2. CASE Skip \/ Reject \/ Select \/ Backtrack
  <2>1. pc' = "search"
    BY <1>2 DEF Skip, Reject, Select, Backtrack, Visit, Looking, Searching
  <2> QED BY <2>1, Unanswered
<1>3. CASE GiveUp
  BY <1>3, Unanswered DEF GiveUp, Proceed
<1> QED BY <1>1, <1>2, <1>3 DEF Search

\* The preferred plan: no candidate of a later position is lesser.
LEMMA FoundLeast ==
  ASSUME SearchInv, pc = "search", row = R + 1,
         NEW a \in Selections, NEW k \in Rows, Valid(a), AgreesBefore(a, k)
  PROVE  ~Less(candidates[a[k]], candidates[choice[k]])
<1>1. k <= row
  BY Sizes
<1>2. choice[k] <= a[k]
  BY <1>1 DEF SearchInv, NoneSkipped
<1>3. a[k] \in Columns /\ choice[k] \in Columns
  BY FoundValid DEF Selections
<1>4. CASE choice[k] = a[k]
  BY <1>3, <1>4 DEF SearchInv, TypeOK, Candidate, Less
<1>5. CASE choice[k] # a[k]
  <2>1. choice[k] \in 1 .. (a[k] - 1)
    BY <1>2, <1>3, <1>5, Sizes
  <2> QED BY <1>3, <2>1 DEF SearchInv, Sorted
<1> QED BY <1>4, <1>5

\* The plan of a full path is valid and the least one.
LEMMA SucceedAnswers == ASSUME SearchInv, Succeed PROVE Answers'
<1>1. /\ pc = "search" /\ pc' = "done" /\ row = R + 1 /\ error = "none"
      /\ UNCHANGED <<input, row, choice, visited, error>>
      /\ configurations' = [r \in Rows |-> candidates[choice[r]].configuration]
      /\ bindings' =
           {<<requests[r].event, choice[r]>> : r \in {k \in Rows : Demanded(k)}}
  BY DEF Succeed, SearchInv, ErrorIsFinal
<1>2. UNCHANGED Problem
  BY <1>1 DEF input, Problem
<1>3. \A b : Valid(b)' <=> Valid(b)
  BY <1>2, SameValid
<1>4. choice \in Selections /\ Valid(choice)
  BY <1>1, FoundValid
<1>5. PlanIsValid'
  <2>1. choice' \in Selections /\ Valid(choice)'
    BY <1>1, <1>3, <1>4
  <2>3. \A r \in Rows : configurations'[r] = candidates'[choice'[r]].configuration
    BY <1>1 DEF input
  <2>4. ASSUME NEW r \in Rows, NEW c \in Columns
        PROVE  <<requests[r].event, c>> \in bindings'
                 <=> Demanded(r) /\ c = choice[r]
    <3>1. ASSUME NEW k \in Rows, requests[k].event = requests[r].event
          PROVE  k = r
      BY <1>1, <3>1 DEF SearchInv, EventsDistinct
    <3>2. <<requests[r].event, c>> \in bindings'
            <=> \E k \in Rows : /\ Demanded(k)
                                /\ <<requests[r].event, c>>
                                     = <<requests[k].event, choice[k]>>
      BY <1>1
    <3> QED BY <3>1, <3>2
  <2>5. \A r \in Rows, c \in Columns :
          <<requests'[r].event, c>> \in bindings'
            <=> Demanded(r)' /\ c = choice'[r]
    BY <1>1, <2>4 DEF input, Demanded
  <2> QED BY <2>1, <2>3, <2>5 DEF PlanIsValid
<1>6. RefusalIsJustified'
  BY <1>1 DEF RefusalIsJustified, Answered
<1>7. PlanIsLeast'
  <2>1. \A b, k : AgreesBefore(b, k)' <=> AgreesBefore(b, k)
    BY <1>1 DEF AgreesBefore
  <2>2. \A b \in Selections, k \in Rows :
          Valid(b) /\ AgreesBefore(b, k)
            => ~Less(candidates[b[k]], candidates[choice[k]])
    BY <1>1, FoundLeast
  <2>3. \A b \in Selections, k \in Rows :
          Less(candidates[b[k]], candidates[choice[k]])'
            <=> Less(candidates[b[k]], candidates[choice[k]])
    BY <1>1 DEF input, Less
  <2> QED BY <1>3, <2>1, <2>2, <2>3 DEF PlanIsLeast
<1> QED BY <1>5, <1>6, <1>7 DEF Answers

\* A refusal after the search is justified.
LEMMA DiagnoseAnswers == ASSUME SearchInv, Diagnose PROVE Answers'
<1>1. /\ pc = "diagnose" /\ pc' = "done"
      /\ UNCHANGED <<input, row, choice, visited>>
      /\ error' = IF \A r \in Rows : \E c \in Columns : Eligible(r, c)
                  THEN "conflict" ELSE "no_candidate"
  BY DEF Diagnose, Fail
<1>2. UNCHANGED Problem
  BY <1>1 DEF input, Problem
<1>3. \A b \in Selections : ~Valid(b)'
  <2>1. \A b : Valid(b)' <=> Valid(b)
    BY <1>2, SameValid
  <2> QED BY <1>1, <2>1 DEF SearchInv, NoneSkipped
<1>4. error' = "no_candidate"
        <=> \E r \in Rows : \A c \in Columns : ~Eligible(r, c)'
  <2>1. \A r, c : Eligible(r, c)' <=> Eligible(r, c)
    BY <1>2, SameEligible
  <2> QED BY <1>1, <2>1
<1>5. RefusalIsJustified'
  BY <1>3, <1>4 DEF RefusalIsJustified
<1> QED BY <1>1, <1>5 DEF Answers, PlanIsValid, PlanIsLeast, Answered

\* A returned solve changes nothing.
LEMMA StutterAnswers == ASSUME Answers, UNCHANGED vars PROVE Answers'
<1>1. UNCHANGED Problem
  BY DEF vars, Problem
<1>2. \A b : Valid(b)' <=> Valid(b)
  BY <1>1, SameValid
<1>3. PlanIsValid'
  <2>1. Valid(choice)' <=> Valid(choice)
    BY DEF vars, Valid, Eligible, Clash, Demanded
  <2> QED BY <2>1 DEF Answers, PlanIsValid, Answered, vars, Demanded
<1>4. RefusalIsJustified'
  <2>1. \A r, c : Eligible(r, c)' <=> Eligible(r, c)
    BY <1>1, SameEligible
  <2> QED BY <1>2, <2>1 DEF Answers, RefusalIsJustified, Answered, vars
<1>5. PlanIsLeast'
  <2>1. \A b, k : AgreesBefore(b, k)' <=> AgreesBefore(b, k)
    BY DEF vars, AgreesBefore
  <2>2. \A b, k : Less(candidates[b[k]], candidates[choice[k]])'
                    <=> Less(candidates[b[k]], candidates[choice[k]])
    BY DEF vars, Less
  <2> QED BY <1>2, <2>1, <2>2 DEF Answers, PlanIsLeast, Answered, vars
<1> QED BY <1>3, <1>4, <1>5 DEF Answers

\* Every answer is right.
LEMMA SpecAnswers == Spec => []Answers
<1>1. Init => Answers
  BY DEF Init, Answers, PlanIsValid, RefusalIsJustified, PlanIsLeast, Answered
<1>2. SearchInv /\ Answers /\ [Next]_vars => Answers'
  BY SortRequestsAnswers, SortCandidatesAnswers, SearchAnswers,
     SucceedAnswers, DiagnoseAnswers, StutterAnswers DEF Next, Returned
<1> QED BY <1>1, <1>2, SearchInvariant, PTL DEF Spec

(***************************************************************************)
(* A plan is valid: eligible candidates, no shared timer, no two demanded  *)
(* ones on one source or entry, exactly the demanded requests bound        *)
(* (solve, its result; what validates checks again).                       *)
(***************************************************************************)
THEOREM AllocatorPlanIsValid == Spec => []PlanIsValid
BY SpecAnswers, PTL DEF Answers

(***************************************************************************)
(* conflict and no_candidate are answered only if nothing is valid, and    *)
(* told apart by whether some request has no candidate (the diagnosis).    *)
(***************************************************************************)
THEOREM AllocatorRefusalIsJustified == Spec => []RefusalIsJustified
BY SpecAnswers, PTL DEF Answers

(***************************************************************************)
(* The plan is the preferred one, so it does not depend on the order the   *)
(* candidates were listed in (less, solve).                                *)
(***************************************************************************)
THEOREM AllocatorPlanIsLeast == Spec => []PlanIsLeast
BY SpecAnswers, PTL DEF Answers

-----------------------------------------------------------------------------
(* The budget: general facts about numbers and lists first. *)

\* Every set of numbers has a least one.
LEMMA LeastOf ==
  ASSUME NEW S, S \subseteq Nat, S # {}
  PROVE  \E m \in S : \A n \in S : m <= n
<1> DEFINE Lesser == {p \in Nat \X Nat : p[1] < p[2]}
<1>1. IsWellFoundedOn(Lesser, Nat)
  BY NatLessThanWellFounded DEF OpToRel
<1>2. \A n, m \in Nat : n < m => <<n, m>> \in Lesser
  OBVIOUS
<1> HIDE DEF Lesser
<1>3. PICK m \in S : \A n \in S : <<n, m>> \notin Lesser
  BY <1>1, WFMin
<1>4. ASSUME NEW n \in S PROVE m <= n
  <2>1. n \in Nat /\ m \in Nat
    OBVIOUS
  <2>2. ~(n < m)
    BY <1>2, <1>3, <2>1
  <2> QED BY <2>1, <2>2
<1> QED BY <1>4

\* Two lists that differ differ somewhere for the first time.
LEMMA FirstDifference ==
  ASSUME NEW n \in Nat, NEW a, NEW b, \E k \in 1 .. n : a[k] # b[k]
  PROVE  \E k \in 1 .. n : a[k] # b[k] /\ \A j \in 1 .. (k - 1) : a[j] = b[j]
<1> DEFINE S == {k \in 1 .. n : a[k] # b[k]}
<1>1. S \subseteq Nat /\ S # {}
  OBVIOUS
<1>2. PICK k \in S : \A j \in S : k <= j
  BY <1>1, LeastOf
<1>3. k \in 1 .. n /\ a[k] # b[k]
  BY <1>2
<1>4. ASSUME NEW j \in 1 .. (k - 1) PROVE a[j] = b[j]
  <2>1. j \in 1 .. n /\ ~(k <= j)
    BY <1>3
  <2> QED BY <1>2, <2>1
<1> QED BY <1>3, <1>4

\* There are finitely many lists of columns.
LEMMA FiniteLists ==
  ASSUME NEW n \in Nat
  PROVE  IsFiniteSet([1 .. n -> Columns])
<1> DEFINE Lists == [1 .. n -> Columns]
           Graphs == SUBSET ((1 .. n) \X Columns)
           graph == [a \in Lists |-> {<<i, a[i]>> : i \in 1 .. n}]
<1>1. IsFiniteSet(1 .. n) /\ IsFiniteSet(Columns)
  BY FS_Interval, Sizes DEF Columns
<1>2. IsFiniteSet(Graphs)
  BY <1>1, FS_Product, FS_SUBSET
<1>3. graph \in [Lists -> Graphs]
  OBVIOUS
<1>4. ASSUME NEW a \in Lists, NEW b \in Lists, graph[a] = graph[b]
      PROVE  a = b
  <2>1. ASSUME NEW i \in 1 .. n PROVE a[i] = b[i]
    <3>1. <<i, a[i]>> \in graph[a]
      OBVIOUS
    <3>2. <<i, a[i]>> \in {<<j, b[j]>> : j \in 1 .. n}
      BY <1>4, <3>1
    <3> QED BY <3>2
  <2> QED BY <2>1
<1>5. graph \in Injection(Lists, Graphs)
  BY <1>3, <1>4, Fun_IsInj
<1> QED BY <1>2, <1>5, FS_Injection

AllLists == UNION {[1 .. n -> Columns] : n \in Rows}

\* So there are finitely many nodes.
LEMMA FiniteNodes == IsFiniteSet(AllLists)
<1> DEFINE Each == {[1 .. n -> Columns] : n \in Rows}
           each == [n \in Rows |-> [1 .. n -> Columns]]
<1>1. IsFiniteSet(Rows)
  BY FS_Interval, Sizes DEF Rows
<1>2. each \in Surjection(Rows, Each)
  BY Fun_IsSurj
<1>3. IsFiniteSet(Each)
  BY <1>1, <1>2, FS_Surjection
<1>4. \A lists \in Each : IsFiniteSet(lists)
  BY FiniteLists, Sizes
<1> QED BY <1>3, <1>4, FS_UNION DEF AllLists
(***************************************************************************)
(* The nodes the search has examined: those to the left of the path it is  *)
(* on, and those on the path above the current row.                        *)
(***************************************************************************)
LeftOfPath(n, a) ==
  \E m \in 1 .. n :
    /\ m <= row
    /\ \A j \in 1 .. (m - 1) : a[j] = choice[j]
    /\ a[m] < choice[m]

OnPath(n, a) == \A j \in 1 .. n : a[j] = choice[j]

Passed(n, a) == LeftOfPath(n, a) \/ (n < row /\ OnPath(n, a))

Behind == UNION {{a \in Nodes(n) : Passed(n, a)} : n \in Rows}

\* visited counts the nodes behind, and in the end those there are to examine.
VisitedCounts ==
  /\ pc \in {"requests", "candidates"} => visited = 0
  /\ pc = "search" => visited = Cardinality(Behind)
  /\ pc = "diagnose" => visited = Cardinality(Examined)
  /\ BudgetIsExact

-----------------------------------------------------------------------------
\* What belongs to a node, and to the nodes behind.
LEMMA NodeFacts ==
  ASSUME NEW n \in Rows, NEW a \in Nodes(n)
  PROVE  /\ n \in Nat /\ 1 <= n /\ n <= R
         /\ a \in [1 .. n -> Columns]
         /\ \A r \in 1 .. n : a[r] \in Nat /\ 1 <= a[r] /\ a[r] <= C
         /\ \A r \in 1 .. n : Eligible(r, a[r])
         /\ \A r \in 1 .. (n - 1) : \A s \in 1 .. (r - 1) : ~Clash(s, a[s], r, a[r])
BY Sizes DEF Nodes, Node

\* The nodes behind can be counted.
LEMMA BehindFinite == IsFiniteSet(Behind) /\ Cardinality(Behind) \in Nat
<1>1. Behind \subseteq AllLists
  BY DEF Behind, AllLists, Nodes
<1> QED BY <1>1, FiniteNodes, FS_Subset, FS_CardinalityType

\* So can those there are to examine.
LEMMA ExaminedFinite == IsFiniteSet(Examined) /\ Cardinality(Examined) \in Nat
<1>1. Examined \subseteq AllLists
  BY DEF Examined, AllLists, Nodes
<1> QED BY <1>1, FiniteNodes, FS_Subset, FS_CardinalityType

\* Nodes are a matter of the problem alone.
LEMMA SameNodes ==
  ASSUME UNCHANGED Problem
  PROVE  /\ \A n : Nodes(n)' = Nodes(n)
         /\ Examined' = Examined
<1>1. \A r, c : Eligible(r, c)' <=> Eligible(r, c)
  BY SameEligible
<1>2. \A a : Valid(a)' <=> Valid(a)
  BY SameValid
<1>3. \A n, a : Node(n, a)' <=> Node(n, a)
  <2>1. \A e, u, r, c : Clash(e, u, r, c)' <=> Clash(e, u, r, c)
    BY DEF Problem, Clash, Demanded
  <2> QED BY <1>1, <2>1 DEF Node
<1>4. \A n : Nodes(n)' = Nodes(n)
  BY <1>3 DEF Nodes
<1> QED BY <1>2, <1>4 DEF Examined

\* The node that the loop of the innermost call is at.
Here == [r \in 1 .. row |-> choice[r]]

\* Where the search is, in terms of numbers.
LEMMA SearchFacts ==
  ASSUME SearchInv
  PROVE  /\ row \in Nat /\ 1 <= row /\ row <= R + 1
         /\ choice \in [Rows -> 1 .. (C + 1)]
         /\ \A r \in Rows : choice[r] \in Nat /\ 1 <= choice[r] /\ choice[r] <= C + 1
BY Sizes DEF SearchInv, TypeOK

\* The node at the loop's candidate, if that is eligible, is a new one.
LEMMA HereIsNode ==
  ASSUME SearchInv, NEW c \in Columns, Looking(c), Eligible(row, c)
  PROVE  /\ row \in Rows
         /\ Here \in Nodes(row)
         /\ Here \notin Behind
<1>1. row \in Rows /\ choice[row] = c /\ pc = "search"
  BY Sizes DEF Looking, Searching, SearchInv, TypeOK
<1>2. \A r \in 1 .. row : Here[r] = choice[r]
  BY DEF Here
<1>3. \A r \in 1 .. (row - 1) :
        /\ choice[r] \in Columns
        /\ Eligible(r, choice[r])
        /\ \A s \in 1 .. (r - 1) : ~Clash(s, choice[s], r, choice[r])
  BY <1>1 DEF SearchInv, PrefixFits
<1>4. Here \in Nodes(row)
  <2>1. \A r \in 1 .. row : r \in 1 .. (row - 1) \/ r = row
    BY <1>1, Sizes
  <2>2. Here \in [1 .. row -> Columns]
    BY <1>1, <1>3, <2>1 DEF Here
  <2>3. \A r \in 1 .. row : Eligible(r, Here[r])
    BY <1>1, <1>2, <1>3, <2>1
  <2>4. \A r \in 1 .. (row - 1) : \A s \in 1 .. (r - 1) : s \in 1 .. row /\ r \in 1 .. row
    BY <1>1, Sizes
  <2>5. \A r \in 1 .. (row - 1) : \A s \in 1 .. (r - 1) : ~Clash(s, Here[s], r, Here[r])
    BY <1>2, <1>3, <2>4
  <2> QED BY <2>2, <2>3, <2>5 DEF Nodes, Node
<1>5. ASSUME NEW n \in Rows, Here \in Nodes(n), Passed(n, Here)
      PROVE  FALSE
  <2>1. n = row
    <3>1. DOMAIN Here = 1 .. n
      BY <1>5 DEF Nodes
    <3>2. DOMAIN Here = 1 .. row
      BY DEF Here
    <3>3. n \in Nat /\ row \in Nat /\ 1 <= n /\ 1 <= row
      BY <1>1, Sizes
    <3>4. n \in 1 .. row /\ row \in 1 .. n
      BY <3>1, <3>2, <3>3
    <3> QED BY <3>3, <3>4
  <2>2. LeftOfPath(row, Here)
    BY <1>1, <1>5, <2>1, Sizes DEF Passed
  <2>3. PICK m \in 1 .. row : Here[m] < choice[m]
    BY <2>2 DEF LeftOfPath
  <2>4. choice[m] \in Nat
    BY <1>1, <2>3, SearchFacts, Sizes
  <2> QED BY <1>2, <2>3, <2>4
<1> QED BY <1>1, <1>4, <1>5 DEF Behind

\* A step over the problem as it is changes what is behind only by the nodes
\* for which Passed changes.
LEMMA SameBehind ==
  ASSUME UNCHANGED Problem,
         \A n \in Rows : \A a \in Nodes(n) : Passed(n, a)' <=> Passed(n, a)
  PROVE  Behind' = Behind
BY SameNodes DEF Behind

\* A step may put the node it is at behind.
LEMMA OneMoreBehind ==
  ASSUME UNCHANGED Problem, row \in Rows, Here \in Nodes(row),
         \A n \in Rows : \A a \in Nodes(n) :
           Passed(n, a)' <=> Passed(n, a) \/ (n = row /\ OnPath(n, a))
  PROVE  Behind' = Behind \cup {Here}
<1>1. \A n : Nodes(n)' = Nodes(n)
  BY SameNodes
<1>2. \A a \in Nodes(row) : OnPath(row, a) <=> a = Here
  <2>1. \A a \in Nodes(row) : a \in [1 .. row -> Columns]
    BY DEF Nodes
  <2>2. Here \in [1 .. row -> Columns]
    BY DEF Nodes
  <2> QED BY <2>1, <2>2 DEF OnPath, Here
<1> QED BY <1>1, <1>2 DEF Behind

\* A candidate that is not eligible is in no node.
LEMMA SkipBehind == ASSUME SearchInv, Skip PROVE Behind' = Behind
<1> PICK c \in Columns : Looking(c) /\ ~Eligible(row, c)
  BY DEF Skip
<1>1. /\ row \in Rows /\ choice[row] = c /\ row' = row
      /\ choice' = [choice EXCEPT ![row] = c + 1]
      /\ UNCHANGED Problem
  BY Sizes DEF Skip, Advanced, Looking, Searching, SearchInv, TypeOK, input, Problem
<1>2. /\ choice'[row] = c + 1
      /\ \A r \in Rows : r # row => choice'[r] = choice[r]
  BY <1>1 DEF SearchInv, TypeOK
<1>3. ASSUME NEW n \in Rows, NEW a \in Nodes(n)
      PROVE  Passed(n, a)' <=> Passed(n, a)
  <2>1. \A m \in 1 .. n : a[m] \in Nat /\ Eligible(m, a[m])
    BY NodeFacts
  <2>2. \A m \in 1 .. n : m = row => (a[m] < c + 1 <=> a[m] < c)
    BY <2>1, Sizes
  <2>3. \A m \in 1 .. n : m \in Rows
    BY Sizes
  <2>4. \A m \in 1 .. n : m <= row => \A j \in 1 .. (m - 1) : choice'[j] = choice[j]
    BY <1>1, <1>2, <2>3, Sizes
  <2>5. LeftOfPath(n, a)' <=> LeftOfPath(n, a)
    BY <1>1, <1>2, <2>2, <2>3, <2>4 DEF LeftOfPath
  <2>6. n < row => (OnPath(n, a)' <=> OnPath(n, a))
    BY <1>1, <1>2, <2>3, Sizes DEF OnPath
  <2> QED BY <1>1, <2>5, <2>6 DEF Passed
<1> QED BY <1>1, <1>3, SameBehind

\* A candidate that clashes ends its node: no longer one goes on from it.
LEMMA RejectBehind ==
  ASSUME SearchInv, Reject
  PROVE  /\ Behind' = Behind \cup {Here}
         /\ Here \notin Behind
<1> PICK c \in Columns : Visit(c) /\ ~Fits(c)
  BY DEF Reject
<1>1. /\ row \in Rows /\ choice[row] = c /\ row' = row
      /\ Looking(c) /\ Eligible(row, c)
      /\ choice' = [choice EXCEPT ![row] = c + 1]
      /\ UNCHANGED Problem
  BY Sizes
     DEF Reject, Visit, Advanced, Looking, Searching, SearchInv, TypeOK, input, Problem
<1>2. /\ choice'[row] = c + 1
      /\ \A r \in Rows : r # row => choice'[r] = choice[r]
  BY <1>1 DEF SearchInv, TypeOK
<1>3. ASSUME NEW n \in Rows, NEW a \in Nodes(n)
      PROVE  Passed(n, a)' <=> Passed(n, a) \/ (n = row /\ OnPath(n, a))
  <2>1. /\ \A m \in 1 .. n : a[m] \in Nat
        /\ n \in Nat /\ row \in Nat /\ 1 <= row
        /\ \A r \in 1 .. (n - 1) : \A s \in 1 .. (r - 1) : ~Clash(s, a[s], r, a[r])
    BY <1>1, NodeFacts, Sizes
  <2>2. \A m \in 1 .. n : a[m] < c + 1 <=> a[m] < c \/ a[m] = c
    BY <2>1, Sizes
  <2>3. \A m \in 1 .. n : m \in Rows
    BY Sizes
  <2>4. \A m \in 1 .. n : m <= row => \A j \in 1 .. (m - 1) : choice'[j] = choice[j]
    BY <1>1, <1>2, <2>3, Sizes
  <2>5. ASSUME row < n, \A j \in 1 .. (row - 1) : a[j] = choice[j], a[row] = c
        PROVE  FALSE
    <3>1. \A s \in 1 .. (row - 1) : ~Clash(s, choice[s], row, c)
      <4>1. row \in 1 .. (n - 1)
        BY <2>1, <2>5
      <4> QED BY <2>1, <2>5, <4>1
    <3> QED BY <3>1 DEF Fits
  <2>6. (row <= n /\ (\A j \in 1 .. (row - 1) : a[j] = choice[j]) /\ a[row] = c)
          <=> n = row /\ OnPath(n, a)
    <3>1. \A j \in 1 .. row : j \in 1 .. (row - 1) \/ j = row
      BY <2>1
    <3>2. \A j \in 1 .. (row - 1) : j \in 1 .. row
      BY <2>1
    <3>3. row \in 1 .. row
      BY <2>1
    <3> QED BY <1>1, <2>1, <2>5, <3>1, <3>2, <3>3 DEF OnPath
  <2>7. LeftOfPath(n, a)'
          <=> \/ LeftOfPath(n, a)
              \/ row <= n /\ (\A j \in 1 .. (row - 1) : a[j] = choice[j]) /\ a[row] = c
    <3>1. row <= n => row \in 1 .. n
      BY <2>1
    <3>2. LeftOfPath(n, a)' <=>
            \E m \in 1 .. n :
              /\ m <= row
              /\ \A j \in 1 .. (m - 1) : a[j] = choice[j]
              /\ a[m] < choice[m] \/ (m = row /\ a[m] = c)
      BY <1>1, <1>2, <2>2, <2>3, <2>4 DEF LeftOfPath
    <3> QED BY <2>1, <3>1, <3>2 DEF LeftOfPath
  <2>8. n < row => (OnPath(n, a)' <=> OnPath(n, a))
    BY <1>1, <1>2, <2>3, Sizes DEF OnPath
  <2> QED BY <1>1, <2>6, <2>7, <2>8 DEF Passed
<1>4. Here \in Nodes(row) /\ Here \notin Behind
  BY <1>1, HereIsNode
<1> QED BY <1>1, <1>3, <1>4, OneMoreBehind

\* A candidate that fits goes onto the path.
LEMMA SelectBehind ==
  ASSUME SearchInv, Select
  PROVE  /\ Behind' = Behind \cup {Here}
         /\ Here \notin Behind
<1> PICK c \in Columns : Visit(c) /\ Fits(c)
  BY DEF Select
<1>1. /\ row \in Rows /\ choice[row] = c /\ row' = row + 1
      /\ Looking(c) /\ Eligible(row, c)
      /\ choice' = IF row < R THEN [choice EXCEPT ![row + 1] = 1] ELSE choice
      /\ UNCHANGED Problem
  BY Sizes
     DEF Select, Visit, Looking, Searching, SearchInv, TypeOK, input, Problem
<1>2. /\ row + 1 \in Rows => choice'[row + 1] = 1
      /\ \A r \in Rows : r <= row => choice'[r] = choice[r]
  BY <1>1, Sizes DEF SearchInv, TypeOK
<1>3. ASSUME NEW n \in Rows, NEW a \in Nodes(n)
      PROVE  Passed(n, a)' <=> Passed(n, a) \/ (n = row /\ OnPath(n, a))
  <2>1. /\ \A m \in 1 .. n : a[m] \in Nat /\ 1 <= a[m]
        /\ n \in Nat /\ row \in Nat /\ 1 <= row
    BY <1>1, NodeFacts, Sizes
  <2>2. \A m \in 1 .. n : m \in Rows /\ m \in Nat
    BY Sizes
  <2>3. \A m \in 1 .. n : m <= row + 1 => \A j \in 1 .. (m - 1) : choice'[j] = choice[j]
    BY <1>2, <2>1, <2>2
  <2>4. \A m \in 1 .. n : m = row + 1 => ~(a[m] < choice'[m])
    BY <1>2, <2>1, <2>2
  <2>5. \A m \in 1 .. n : m <= row + 1 <=> m <= row \/ m = row + 1
    BY <2>1, <2>2
  <2>6. LeftOfPath(n, a)' <=> LeftOfPath(n, a)
    BY <1>1, <1>2, <2>2, <2>3, <2>4, <2>5 DEF LeftOfPath
  <2>7. n <= row => (OnPath(n, a)' <=> OnPath(n, a))
    BY <1>2, <2>1, <2>2 DEF OnPath
  <2>8. n < row + 1 <=> n < row \/ n = row
    BY <2>1
  <2> QED BY <1>1, <2>1, <2>6, <2>7, <2>8 DEF Passed
<1>4. Here \in Nodes(row) /\ Here \notin Behind
  BY <1>1, HereIsNode
<1> QED BY <1>1, <1>3, <1>4, OneMoreBehind

\* Backing up finds the nodes of the row above, and those below it, behind.
LEMMA BacktrackBehind == ASSUME SearchInv, Backtrack PROVE Behind' = Behind
<1> DEFINE up == row - 1
<1>1. /\ row \in Rows /\ choice[row] = C + 1 /\ row > 1 /\ row' = up
      /\ choice' = [choice EXCEPT ![up] = choice[up] + 1]
      /\ UNCHANGED Problem
  BY Sizes DEF Backtrack, Searching, Advanced, SearchInv, TypeOK, input, Problem
<1>2. up \in Rows /\ up \in Nat /\ row = up + 1 /\ 1 <= up
  BY <1>1, Sizes
<1>3. /\ choice'[up] = choice[up] + 1 /\ choice[up] \in Nat
      /\ \A r \in Rows : r # up => choice'[r] = choice[r]
  BY <1>1, <1>2, SearchFacts
<1> HIDE DEF up
<1>4. ASSUME NEW n \in Rows, NEW a \in Nodes(n)
      PROVE  Passed(n, a)' <=> Passed(n, a)
  <2> DEFINE Agree(k) == \A j \in 1 .. (k - 1) : a[j] = choice[j]
  <2>1. /\ \A m \in 1 .. n : a[m] \in Nat /\ a[m] < C + 1
        /\ n \in Nat /\ 1 <= n
    BY NodeFacts, Sizes
  <2>2. \A m \in 1 .. n : m \in Rows /\ m \in Nat /\ 1 <= m
    BY Sizes
  <2>3. \A m \in 1 .. n : m <= up => \A j \in 1 .. (m - 1) : choice'[j] = choice[j]
    BY <1>2, <1>3, <2>2
  <2>4. LeftOfPath(n, a)'
          <=> \E m \in 1 .. n : /\ m <= up
                                /\ Agree(m)
                                /\ a[m] < choice[m] \/ (m = up /\ a[m] = choice[m])
    <3>1. \A m \in 1 .. n :
            m = up => (a[m] < choice[m] + 1 <=> a[m] < choice[m] \/ a[m] = choice[m])
      BY <1>3, <2>1
    <3> QED BY <1>1, <1>3, <2>2, <2>3, <3>1 DEF LeftOfPath
  <2>5. LeftOfPath(n, a)
          <=> \E m \in 1 .. n : /\ m <= row
                                /\ Agree(m)
                                /\ a[m] < choice[m]
    BY DEF LeftOfPath
  <2>6. n < up => (OnPath(n, a)' <=> OnPath(n, a))
    BY <1>2, <1>3, <2>2 DEF OnPath
  <2>7. ASSUME up <= n
        PROVE  Agree(up) /\ a[up] = choice[up] <=> Agree(row)
    <3>1. \A j \in 1 .. (row - 1) : j \in 1 .. (up - 1) \/ j = up
      BY <1>2
    <3>2. up \in 1 .. (row - 1) /\ \A j \in 1 .. (up - 1) : j \in 1 .. (row - 1)
      BY <1>2
    <3> QED BY <3>1, <3>2
  <2>8. ASSUME Passed(n, a)' PROVE Passed(n, a)
    <3>1. CASE LeftOfPath(n, a)'
      <4>1. PICK m \in 1 .. n : /\ m <= up
                                /\ Agree(m)
                                /\ a[m] < choice[m] \/ (m = up /\ a[m] = choice[m])
        BY <2>4, <3>1
      <4>2. CASE a[m] < choice[m]
        BY <1>2, <2>2, <2>5, <4>1, <4>2 DEF Passed
      <4>3. CASE m = up /\ a[m] = choice[m]
        <5>1. Agree(row) /\ up <= n
          BY <2>2, <2>7, <4>1, <4>3
        <5>2. CASE n = up
          BY <1>2, <5>1, <5>2 DEF Passed, OnPath
        <5>3. CASE n # up
          <6>1. row \in 1 .. n /\ a[row] < choice[row]
            BY <1>1, <1>2, <2>1, <5>1, <5>3
          <6> QED BY <1>2, <2>5, <5>1, <6>1 DEF Passed
        <5> QED BY <5>2, <5>3
      <4> QED BY <4>1, <4>2, <4>3
    <3>2. CASE n < up /\ OnPath(n, a)'
      BY <1>2, <2>1, <2>6, <3>2 DEF Passed
    <3> QED BY <1>1, <2>8, <3>1, <3>2 DEF Passed
  <2>9. ASSUME Passed(n, a) PROVE Passed(n, a)'
    <3>1. CASE LeftOfPath(n, a)
      <4>1. PICK m \in 1 .. n : m <= row /\ Agree(m) /\ a[m] < choice[m]
        BY <2>5, <3>1
      <4>2. CASE m <= up
        BY <2>4, <4>1, <4>2 DEF Passed
      <4>3. CASE m = row
        <5>1. up \in 1 .. n /\ Agree(up) /\ a[up] = choice[up]
          BY <1>2, <2>7, <4>1, <4>3
        <5> QED BY <1>2, <2>4, <5>1 DEF Passed
      <4> QED BY <1>2, <2>2, <4>1, <4>2, <4>3
    <3>2. CASE n < row /\ OnPath(n, a)
      <4>1. CASE n = up
        <5>1. up \in 1 .. n /\ Agree(up) /\ a[up] = choice[up]
          BY <1>2, <3>2, <4>1 DEF OnPath
        <5> QED BY <1>2, <2>4, <5>1 DEF Passed
      <4>2. CASE n < up
        BY <1>1, <2>6, <3>2, <4>2 DEF Passed
      <4> QED BY <1>2, <2>1, <3>2, <4>1, <4>2
    <3> QED BY <2>9, <3>1, <3>2 DEF Passed
  <2> QED BY <2>8, <2>9
<1> QED BY <1>1, <1>4, SameBehind

\* What the search has examined, and what it is about to, comes before every
\* valid selection.
LEMMA BeforeValid ==
  ASSUME SearchInv, pc = "search", NEW n \in Rows, NEW a \in Nodes(n),
         Passed(n, a) \/ (n <= row /\ OnPath(n, a)),
         NEW b \in Selections, Valid(b)
  PROVE  NotAfter(n, a, b)
<1> SUFFICES ASSUME NEW k \in 1 .. n, \A j \in 1 .. (k - 1) : a[j] = b[j]
             PROVE  a[k] <= b[k]
  BY DEF NotAfter
<1>1. /\ n \in Nat /\ k \in Nat /\ 1 <= k /\ k <= n /\ k \in Rows /\ row \in Nat
      /\ a[k] \in Nat /\ b[k] \in Nat /\ choice[k] \in Nat
  BY NodeFacts, SearchFacts, Sizes DEF Selections
<1>2. ASSUME NEW m \in 1 .. k, m <= row, \A j \in 1 .. (m - 1) : a[j] = choice[j]
      PROVE  choice[m] <= b[m]
  <2>1. \A j \in 1 .. (m - 1) : j \in 1 .. (k - 1)
    BY <1>1
  <2>2. AgreesBefore(b, m)
    BY <1>2, <2>1 DEF AgreesBefore
  <2>3. m \in Rows
    BY <1>1, Sizes
  <2> QED BY <1>2, <2>2, <2>3 DEF SearchInv, NoneSkipped
<1>3. CASE LeftOfPath(n, a)
  <2>1. PICK m \in 1 .. n : /\ m <= row
                            /\ \A j \in 1 .. (m - 1) : a[j] = choice[j]
                            /\ a[m] < choice[m]
    BY <1>3 DEF LeftOfPath
  <2>2. m \in Rows /\ choice[m] \in Nat /\ b[m] \in Nat /\ a[m] \in Nat
    BY NodeFacts, SearchFacts, Sizes DEF Selections
  <2>3. CASE k < m
    <3>1. a[k] = choice[k] /\ k <= row /\ k \in 1 .. k
      BY <1>1, <2>1, <2>3
    <3>2. \A j \in 1 .. (k - 1) : a[j] = choice[j]
      <4>1. \A j \in 1 .. (k - 1) : j \in 1 .. (m - 1)
        BY <1>1, <2>3
      <4> QED BY <2>1, <4>1
    <3> QED BY <1>1, <1>2, <3>1, <3>2
  <2>4. CASE m <= k
    <3>1. m \in 1 .. k
      BY <2>4
    <3>2. choice[m] <= b[m]
      BY <1>2, <2>1, <3>1
    <3>3. a[m] < b[m]
      BY <2>1, <2>2, <3>2
    <3>4. CASE m = k
      BY <1>1, <3>3, <3>4
    <3>5. CASE m # k
      <4>1. m \in 1 .. (k - 1)
        BY <1>1, <2>4, <3>5
      <4>2. a[m] = b[m]
        BY <4>1
      <4> QED BY <2>2, <3>3, <4>2
    <3> QED BY <3>4, <3>5
  <2> QED BY <1>1, <2>3, <2>4
<1>4. CASE n <= row /\ OnPath(n, a)
  <2>1. \A j \in 1 .. k : a[j] = choice[j]
    BY <1>1, <1>4 DEF OnPath
  <2>2. k \in 1 .. k /\ k <= row /\ \A j \in 1 .. (k - 1) : j \in 1 .. k
    BY <1>1, <1>4
  <2> QED BY <1>2, <2>1, <2>2
<1> QED BY <1>1, <1>3, <1>4 DEF Passed

\* Until the answer everything behind had to be examined.
LEMMA BehindNeeded == ASSUME SearchInv, pc = "search" PROVE Behind \subseteq Examined
BY BeforeValid DEF Behind, Examined

\* With a full path nothing else had to be.
LEMMA FoundExamined ==
  ASSUME SearchInv, pc = "search", row = R + 1
  PROVE  Behind = Examined
<1>1. choice \in Selections /\ Valid(choice)
  BY FoundValid
<1>2. ASSUME NEW n \in Rows, NEW a \in Nodes(n), NotAfter(n, a, choice)
      PROVE  Passed(n, a)
  <2>1. CASE OnPath(n, a)
    BY <2>1, Sizes DEF Passed
  <2>2. CASE ~OnPath(n, a)
    <3>0. n \in Nat /\ \E m \in 1 .. n : a[m] # choice[m]
      BY <2>2, Sizes DEF OnPath
    <3>1. PICK m \in 1 .. n : a[m] # choice[m] /\ \A j \in 1 .. (m - 1) : a[j] = choice[j]
      BY <3>0, FirstDifference
    <3>2. a[m] <= choice[m]
      BY <1>2, <3>1 DEF NotAfter
    <3>3. a[m] \in Nat /\ choice[m] \in Nat /\ m <= row
      BY NodeFacts, SearchFacts, Sizes
    <3>4. a[m] < choice[m]
      BY <3>1, <3>2, <3>3
    <3> QED BY <3>1, <3>3, <3>4 DEF Passed, LeftOfPath
  <2> QED BY <2>1, <2>2
<1>3. Examined \subseteq Behind
  BY <1>1, <1>2 DEF Behind, Examined
<1> QED BY <1>3, BehindNeeded

\* When the first row runs out everything has been examined, and had to be.
LEMMA GivenUpExamined ==
  ASSUME SearchInv, Searching, choice[row] = C + 1, row = 1
  PROVE  Behind = Examined
<1>1. \A b \in Selections : ~Valid(b)
  <2>1. \A b : AgreesBefore(b, 1)
    BY DEF AgreesBefore
  <2> QED BY <2>1, RunOut
<1>2. ASSUME NEW n \in Rows, NEW a \in Nodes(n)
      PROVE  Passed(n, a)
  <2>1. n \in Nat /\ 1 <= n /\ \A r \in 1 .. n : a[r] \in Nat /\ a[r] <= C
    BY NodeFacts
  <2>2. 1 \in 1 .. n
    BY <2>1
  <2>3. a[1] < choice[1]
    BY <2>1, <2>2, Sizes
  <2> QED BY <2>2, <2>3 DEF Passed, LeftOfPath
<1> QED BY <1>1, <1>2 DEF Behind, Examined

\* Without budget for the next eligible candidate the answer is out of reach.
LEMMA ExhaustedNeeds ==
  ASSUME SearchInv, NEW c \in Columns, Looking(c), Eligible(row, c)
  PROVE  Cardinality(Behind) < Cardinality(Examined)
<1>1. row \in Rows /\ Here \in Nodes(row) /\ Here \notin Behind /\ pc = "search"
  BY HereIsNode DEF Looking, Searching
<1>2. Here \in Examined
  <2>1. row <= row /\ OnPath(row, Here)
    BY <1>1, Sizes DEF OnPath, Here
  <2>2. \A b \in Selections : Valid(b) => NotAfter(row, Here, b)
    BY <1>1, <2>1, BeforeValid
  <2> QED BY <1>1, <2>2 DEF Examined
<1>3. Behind \cup {Here} \subseteq Examined
  BY <1>1, <1>2, BehindNeeded
<1>4. Cardinality(Behind \cup {Here}) = Cardinality(Behind) + 1
  BY <1>1, BehindFinite, FS_AddElement
<1>5. Cardinality(Behind \cup {Here}) <= Cardinality(Examined)
  BY <1>3, ExaminedFinite, FS_Subset
<1> QED BY <1>4, <1>5, BehindFinite, ExaminedFinite

\* A refusal before the search says nothing about the budget.
LEMMA EarlyRefusalCounts ==
  ASSUME \/ pc' = "done" /\ error' \in {"invalid_model", "duplicate_request",
                                        "duplicate_candidate"}
         \/ pc' = "candidates" /\ visited' = 0
  PROVE  VisitedCounts'
BY DEF VisitedCounts, BudgetIsExact, Answered

\* The search begins with nothing behind.
LEMMA BeginCounts ==
  ASSUME pc' = "search", visited' = 0, row' = 1, choice' = [r \in Rows |-> 1]
  PROVE  VisitedCounts'
<1>1. ASSUME NEW n \in Rows, NEW a, a \in Nodes(n)', Passed(n, a)'
      PROVE  FALSE
  <2>1. n \in Nat /\ 1 <= n /\ \A m \in 1 .. n : m \in Rows
    BY Sizes
  <2>2. \A m \in 1 .. n : a[m] \in Nat /\ 1 <= a[m]
    BY <1>1, <2>1, Sizes DEF Nodes
  <2>3. LeftOfPath(n, a)'
    BY <1>1, <2>1 DEF Passed
  <2>4. PICK m \in 1 .. n : a[m] < choice'[m]
    BY <2>3 DEF LeftOfPath
  <2> QED BY <2>1, <2>2, <2>4
<1>2. Behind' = {}
  BY <1>1 DEF Behind
<1>3. Cardinality(Behind') = 0
  BY <1>2, FS_EmptySet
<1> QED BY <1>3 DEF VisitedCounts, BudgetIsExact, Answered

\* A step within the search counts the node it puts behind.
LEMMA WithinCounts ==
  ASSUME SearchInv, VisitedCounts, pc = "search", pc' = "search",
         \/ Behind' = Behind /\ visited' = visited
         \/ Behind' = Behind \cup {Here} /\ Here \notin Behind /\ visited' = visited + 1
  PROVE  VisitedCounts'
<1>1. visited = Cardinality(Behind)
  BY DEF VisitedCounts
<1>2. Here \notin Behind => Cardinality(Behind \cup {Here}) = Cardinality(Behind) + 1
  BY BehindFinite, FS_AddElement
<1>3. visited' = Cardinality(Behind')
  BY <1>1, <1>2
<1> QED BY <1>3 DEF VisitedCounts, BudgetIsExact, Answered

\* What visited and the budget are.
LEMMA VisitedWithin ==
  ASSUME SearchInv
  PROVE  visited \in Nat /\ budget \in Nat /\ visited <= budget
BY DEF SearchInv, TypeOK

\* Every step keeps the count.
LEMMA NextCounts ==
  ASSUME SearchInv, VisitedCounts, [Next]_vars
  PROVE  VisitedCounts'
<1>1. CASE SortRequests
  <2>1. visited' = visited /\ visited = 0
    BY <1>1 DEF SortRequests, VisitedCounts
  <2> QED BY <1>1, <2>1, EarlyRefusalCounts DEF SortRequests, Fail, Proceed
<1>2. CASE SortCandidates
  <2>1. /\ visited' = 0 /\ row' = 1 /\ choice' = [r \in Rows |-> 1]
    BY <1>2 DEF SortCandidates, VisitedCounts, SearchInv, NothingSelected
  <2>2. \/ pc' = "done" /\ error' \in {"invalid_model", "duplicate_candidate"}
        \/ pc' = "search"
    BY <1>2 DEF SortCandidates, Fail, Proceed
  <2> QED BY <2>1, <2>2, BeginCounts, EarlyRefusalCounts
<1>3. CASE Skip
  <2>1. pc = "search" /\ pc' = "search" /\ visited' = visited
    BY <1>3 DEF Skip, Looking, Searching
  <2> QED BY <1>3, <2>1, SkipBehind, WithinCounts
<1>4. CASE Reject
  <2>1. pc = "search" /\ pc' = "search" /\ visited' = visited + 1
    BY <1>4 DEF Reject, Visit, Looking, Searching
  <2> QED BY <1>4, <2>1, RejectBehind, WithinCounts
<1>5. CASE Select
  <2>1. pc = "search" /\ pc' = "search" /\ visited' = visited + 1
    BY <1>5 DEF Select, Visit, Looking, Searching
  <2> QED BY <1>5, <2>1, SelectBehind, WithinCounts
<1>6. CASE Backtrack
  <2>1. pc = "search" /\ pc' = "search" /\ visited' = visited
    BY <1>6 DEF Backtrack, Searching
  <2> QED BY <1>6, <2>1, BacktrackBehind, WithinCounts
<1>7. CASE Exhaust
  <2>1. /\ pc = "search" /\ pc' = "done" /\ error' = "exhausted"
        /\ UNCHANGED <<input, visited>> /\ visited = budget
    BY <1>7 DEF Exhaust, Fail, Looking, Searching
  <2>2. Cardinality(Behind) < Cardinality(Examined)
    BY <1>7, ExhaustedNeeds DEF Exhaust
  <2>3. Examined' = Examined
    BY <2>1, SameNodes DEF input, Problem
  <2>4. visited = Cardinality(Behind)
    BY <2>1 DEF VisitedCounts
  <2>5. budget' = budget
    BY <2>1 DEF input
  <2> QED BY <2>1, <2>2, <2>3, <2>4, <2>5 DEF VisitedCounts, BudgetIsExact, Answered
<1>8. CASE GiveUp
  <2>1. /\ pc = "search" /\ pc' = "diagnose" /\ UNCHANGED <<input, visited>>
    BY <1>8 DEF GiveUp, Proceed, Searching
  <2>2. Behind = Examined
    BY <1>8, GivenUpExamined DEF GiveUp
  <2>3. Examined' = Examined
    BY <2>1, SameNodes DEF input, Problem
  <2> QED BY <2>1, <2>2, <2>3 DEF VisitedCounts, BudgetIsExact, Answered
<1>9. ASSUME Succeed \/ Diagnose
      PROVE  VisitedCounts'
  <2>1. /\ pc' = "done" /\ UNCHANGED <<input, visited>>
        /\ error' \in {"none", "conflict", "no_candidate"}
    BY <1>9 DEF Succeed, Diagnose, Fail, SearchInv, ErrorIsFinal
  <2>2. visited = Cardinality(Examined)
    <3>1. CASE Succeed
      BY <3>1, FoundExamined DEF Succeed, VisitedCounts
    <3>2. CASE Diagnose
      BY <3>2 DEF Diagnose, VisitedCounts
    <3> QED BY <1>9, <3>1, <3>2
  <2>3. Examined' = Examined
    BY <2>1, SameNodes DEF input, Problem
  <2>4. budget' = budget /\ ~(budget < visited)
    BY <2>1, VisitedWithin DEF input
  <2> QED BY <2>1, <2>2, <2>3, <2>4 DEF VisitedCounts, BudgetIsExact, Answered
<1>10. CASE UNCHANGED vars
  <2>1. UNCHANGED Problem
    BY <1>10 DEF vars, Problem
  <2>2. Examined' = Examined
    BY <2>1, SameNodes
  <2>3. Behind' = Behind
    BY <1>10, <2>1, SameBehind DEF vars, Passed, LeftOfPath, OnPath
  <2>4. pc' = pc /\ visited' = visited /\ budget' = budget /\ error' = error
    BY <1>10 DEF vars
  <2> QED BY <2>2, <2>3, <2>4 DEF VisitedCounts, BudgetIsExact, Answered
<1> QED BY <1>1, <1>2, <1>3, <1>4, <1>5, <1>6, <1>7, <1>8, <1>9, <1>10
        DEF Next, Search, Returned

(***************************************************************************)
(* The search gives up for want of budget exactly when deciding takes more *)
(* candidates than the budget, and visited counts each examined candidate  *)
(* once (the budget of search).                                            *)
(***************************************************************************)
THEOREM AllocatorBudgetIsExact == Spec => []BudgetIsExact
<1>1. Init => VisitedCounts
  BY DEF Init, VisitedCounts, BudgetIsExact, Answered
<1>2. SearchInv /\ VisitedCounts /\ [Next]_vars => VisitedCounts'
  BY NextCounts
<1>3. VisitedCounts => BudgetIsExact
  BY DEF VisitedCounts
<1> QED BY <1>1, <1>2, <1>3, SearchInvariant, PTL DEF Spec

-----------------------------------------------------------------------------
(* validates: general facts about lists in order first. *)

\* Two lists hold the same things, in whatever order.
SameThings(n, f, g) ==
  /\ \A i \in 1 .. n : \E j \in 1 .. n : f[i] = g[j]
  /\ \A i \in 1 .. n : \E j \in 1 .. n : g[i] = f[j]

Strict(Before) == \A x, y : <<x, y>> \in Before => <<y, x>> \notin Before

InTheOrder(n, f, Before) ==
  \A i \in 1 .. n : \A j \in 1 .. (i - 1) : <<f[j], f[i]>> \in Before

\* Two lists of the same things, both in one strict order, are the same list.
LEMMA OneOrder ==
  ASSUME NEW n \in Nat, NEW Before, NEW f, NEW g,
         Strict(Before), InTheOrder(n, f, Before), InTheOrder(n, g, Before),
         SameThings(n, f, g)
  PROVE  \A i \in 1 .. n : f[i] = g[i]
<1> SUFFICES ASSUME \E i \in 1 .. n : f[i] # g[i] PROVE FALSE
  OBVIOUS
<1>1. PICK k \in 1 .. n : f[k] # g[k] /\ \A j \in 1 .. (k - 1) : f[j] = g[j]
  BY FirstDifference
<1>2. PICK m \in 1 .. n : g[m] = f[k]
  BY DEF SameThings
<1>3. PICK l \in 1 .. n : f[l] = g[k]
  BY DEF SameThings
<1>4. <<g[k], f[k]>> \in Before
  <2>1. ASSUME m < k PROVE FALSE
    <3>1. m \in 1 .. (k - 1)
      BY <2>1
    <3>2. <<f[m], f[k]>> \in Before /\ f[m] = f[k]
      BY <1>1, <1>2, <3>1 DEF InTheOrder
    <3> QED BY <3>2 DEF Strict
  <2>2. k < m
    BY <1>1, <1>2, <2>1
  <2>3. k \in 1 .. (m - 1)
    BY <2>2
  <2> QED BY <1>2, <2>3 DEF InTheOrder
<1>5. <<f[k], g[k]>> \in Before
  <2>1. ASSUME l < k PROVE FALSE
    <3>1. l \in 1 .. (k - 1)
      BY <2>1
    <3>2. <<g[l], g[k]>> \in Before /\ g[l] = g[k]
      BY <1>1, <1>3, <3>1 DEF InTheOrder
    <3> QED BY <3>2 DEF Strict
  <2>2. k < l
    BY <1>1, <1>3, <2>1
  <2>3. k \in 1 .. (l - 1)
    BY <2>2
  <2> QED BY <1>3, <2>3 DEF InTheOrder
<1> QED BY <1>4, <1>5 DEF Strict

\* A list of as many things as another, without repetitions, has none either.
LEMMA NoneTwice ==
  ASSUME NEW n \in Nat, NEW f, NEW g,
         \A i, j \in 1 .. n : f[i] = f[j] => i = j,
         SameThings(n, f, g)
  PROVE  \A i, j \in 1 .. n : g[i] = g[j] => i = j
<1> DEFINE T == {f[i] : i \in 1 .. n}
           F == [i \in 1 .. n |-> f[i]]
           G == [i \in 1 .. n |-> g[i]]
<1>1. IsFiniteSet(1 .. n)
  BY FS_Interval
<1>2. F \in [1 .. n -> T] /\ \A t \in T : \E i \in 1 .. n : F[i] = t
  OBVIOUS
<1>3. G \in [1 .. n -> T] /\ \A t \in T : \E i \in 1 .. n : G[i] = t
  <2>1. \A i \in 1 .. n : g[i] \in T
    BY DEF SameThings
  <2>2. \A t \in T : \E i \in 1 .. n : g[i] = t
    BY DEF SameThings
  <2> QED BY <2>1, <2>2
<1>4. \A i, j \in 1 .. n : F[i] = F[j] => i = j
  OBVIOUS
<1>5. \A i, j \in 1 .. n : G[i] = G[j] <=> g[i] = g[j]
  OBVIOUS
<1> HIDE DEF T, F, G
<1>6. F \in Surjection(1 .. n, T) /\ G \in Surjection(1 .. n, T)
  BY <1>2, <1>3, Fun_IsSurj
<1>7. F \in Injection(1 .. n, T)
  BY <1>2, <1>4, Fun_IsInj
<1>8. Cardinality(T) = Cardinality(1 .. n)
  BY <1>1, <1>6, <1>7, FS_Surjection
<1>9. G \in Injection(1 .. n, T)
  BY <1>1, <1>6, <1>8, FS_SurjSameCardinalityImpliesInj
<1> QED BY <1>5, <1>9 DEF Injection, IsInjective

\* A list put into another order holds the same things.
LEMMA Reordered ==
  ASSUME NEW n \in Nat, NEW f, NEW order, Rearranges(order, 1 .. n)
  PROVE  {f[order[i]] : i \in 1 .. n} = {f[i] : i \in 1 .. n}
BY DEF Rearranges

-----------------------------------------------------------------------------
(* The calls of solve. *)

Correct == SearchInv /\ OnlyWellFormedSearched /\ VisitedCounts /\ Answers

\* The two calls of solve are the allocator's steps.
LEMMA SolveIsNext == Solve => Next
BY DEF Solve, Next, Search

\* Between its calls validates leaves the solver alone.
LEMMA StepCases ==
  ASSUME [ValidationNext]_validationVars
  PROVE  [Next]_vars \/ Ask
BY SolveIsNext DEF ValidationNext, Decide, Answer, validationVars

\* The second call begins as the first one did.
LEMMA AskCorrect == ASSUME Correct, Ask PROVE Correct'
<1>1. /\ pc' = "requests" /\ row' = 1 /\ choice' = [r \in Rows |-> 1]
      /\ visited' = 0 /\ error' = "none" /\ bindings' = {}
      /\ budget' = DefaultBudget
      /\ configurations' = [r \in Rows |-> 0]
  BY DEF Ask, ValidationBudget
<1>2. /\ requests' \in [Rows -> Request] /\ candidates' \in [Columns -> Candidate]
      /\ demands' \in SUBSET Nat
  <2> PICK later \in Later : /\ requests' = later.requests
                             /\ candidates' = later.candidates
                             /\ demands' = later.demands
    BY DEF Ask
  <2> QED BY LaterAssumption
<1>3. TypeOK'
  <2>1. DefaultBudget \in Nat
    BY DefaultAssumption
  <2>2. row' \in 1 .. (R + 1) /\ visited' \in 0 .. budget'
    BY <1>1, <2>1, Sizes
  <2>3. choice' \in [Rows -> 1 .. (C + 1)] /\ configurations' \in [Rows -> Nat]
    BY <1>1, Sizes
  <2> QED BY <1>1, <1>2, <2>1, <2>2, <2>3 DEF TypeOK
<1>4. SearchInv'
  BY <1>1, <1>3 DEF SearchInv, ErrorIsFinal, NothingSelected, EventsDistinct, Sorted,
                    Answered, PrefixFits, NoneSkipped
<1>5. OnlyWellFormedSearched'
  BY <1>1 DEF OnlyWellFormedSearched, Answered
<1>6. VisitedCounts'
  BY <1>1 DEF VisitedCounts, BudgetIsExact, Answered
<1>7. Answers'
  BY <1>1, Unanswered
<1> QED BY <1>4, <1>5, <1>6, <1>7 DEF Correct

\* The solver's own steps keep what is known of it.
LEMMA StepCorrect ==
  ASSUME Correct, [Next]_vars
  PROVE  Correct'
<1>1. SearchInv'
  BY NextInv DEF Correct
<1>2. OnlyWellFormedSearched'
  BY NextWellFormed DEF Correct
<1>3. VisitedCounts'
  BY NextCounts DEF Correct
<1>4. Answers'
  BY SortRequestsAnswers, SortCandidatesAnswers, SearchAnswers,
     SucceedAnswers, DiagnoseAnswers, StutterAnswers DEF Next, Returned, Correct
<1> QED BY <1>1, <1>2, <1>3, <1>4 DEF Correct

\* The first call begins right.
LEMMA InitCorrect == Init => Correct
BY InitInv DEF Init, Correct, OnlyWellFormedSearched, VisitedCounts, BudgetIsExact,
               Answers, PlanIsValid, RefusalIsJustified, PlanIsLeast, Answered

(***************************************************************************)
(* Within validates, too, solve gives up exactly when the budget does not  *)
(* reach, whichever of the two problems it works on.                       *)
(***************************************************************************)
THEOREM ValidationBudgetIsExact == ValidationSpec => []BudgetIsExact
<1>1. ValidationInit => Correct
  BY InitCorrect DEF ValidationInit
<1>2. Correct /\ [ValidationNext]_validationVars => Correct'
  BY StepCases, StepCorrect, AskCorrect
<1>3. Correct => BudgetIsExact
  BY DEF Correct, VisitedCounts
<1> QED BY <1>1, <1>2, <1>3, PTL DEF ValidationSpec

-----------------------------------------------------------------------------
(* The plan that is kept, and the plan made again. *)

\* The solver's operators for the requests and the candidates of another list.
Listed(rq, cd) == INSTANCE InterruptAllocator WITH requests <- rq, candidates <- cd

RequestsInOrder(rq) ==
  \A i \in Rows : \A j \in 1 .. (i - 1) : rq[j].event < rq[i].event

CandidatesInOrder(cd) ==
  /\ \A i \in Columns : ~Invalid(cd[i])
  /\ \A i \in Columns : \A j \in 1 .. (i - 1) :
       /\ ~Less(cd[i], cd[j])
       /\ \/ cd[i].request # cd[j].request
          \/ cd[i].configuration # cd[j].configuration

\* What has passed the sorting and the checks is in order from then on.
WellOrdered ==
  /\ \/ pc \in {"candidates", "search", "diagnose"}
     \/ Answered({"none", "invalid_model", "duplicate_candidate",
                  "no_candidate", "conflict", "exhausted"})
     => RequestsInOrder(requests)
  /\ \/ pc \in {"search", "diagnose"}
     \/ Answered({"none", "no_candidate", "conflict", "exhausted"})
     => CandidatesInOrder(candidates)

\* A plan is the leftmost valid selection, and binds what is demanded.
FoundFirst ==
  Answered({"none"}) =>
    /\ bindings = {<<requests[r].event, choice[r]>> : r \in {k \in Rows : Demanded(k)}}
    /\ \A a \in Selections, k \in Rows :
         Valid(a) /\ AgreesBefore(a, k) => choice[k] <= a[k]

\* a is the leftmost valid selection for the problem listed as rq and cd.
First(rq, cd, a) ==
  /\ a \in Selections
  /\ Listed(rq, cd)!Valid(a)
  /\ \A b \in Selections, k \in Rows :
       Listed(rq, cd)!Valid(b) /\ (\A j \in 1 .. (k - 1) : b[j] = a[j]) => a[k] <= b[k]

\* The plan that is kept is the one for the problem as it was listed in order.
MadeFrom(rq, cd) ==
  /\ rq \in [Rows -> Request] /\ cd \in [Columns -> Candidate]
  /\ {rq[r] : r \in Rows} = {requests[r] : r \in Rows}
  /\ {cd[c] : c \in Columns} = {candidates[c] : c \in Columns}
  /\ RequestsInOrder(rq) /\ CandidatesInOrder(cd)
  /\ Cardinality(Listed(rq, cd)!Examined) = spent
  /\ \E a : /\ First(rq, cd, a)
            /\ plan.bindings = {Binding(rq[r].event, cd[a[r]]) :
                                  r \in {k \in Rows : rq[k].event \in demands}}

Kept ==
  answer = "asked" /\ same /\ plan.allocation_ok => \E rq, cd : MadeFrom(rq, cd)

Standing == answer = "accepted" => pc = "done" /\ error = "none" /\ plan = Solved

-----------------------------------------------------------------------------
\* Listed as it is, the problem is the problem.
LEMMA ListedAsIs ==
  /\ \A a : Listed(requests, candidates)!Valid(a) <=> Valid(a)
  /\ Listed(requests, candidates)!Examined = Examined
<1>1. \A r : Listed(requests, candidates)!Demanded(r) <=> Demanded(r)
  BY DEF Demanded, Listed!Demanded
<1>2. \A r, c : Listed(requests, candidates)!Eligible(r, c) <=> Eligible(r, c)
  BY <1>1 DEF Eligible, Listed!Eligible
<1>3. \A e, u, r, c : Listed(requests, candidates)!Clash(e, u, r, c) <=> Clash(e, u, r, c)
  BY <1>1 DEF Clash, Listed!Clash
<1>4. \A a : Listed(requests, candidates)!Valid(a) <=> Valid(a)
  BY <1>2, <1>3 DEF Valid, Listed!Valid, Rows, Listed!Rows
<1>5. \A n, a : Listed(requests, candidates)!Node(n, a) <=> Node(n, a)
  BY <1>2, <1>3 DEF Node, Listed!Node
<1>6. \A n : Listed(requests, candidates)!Nodes(n) = Nodes(n)
  BY <1>5 DEF Nodes, Listed!Nodes, Columns, Listed!Columns
<1>7. \A n, a, b : Listed(requests, candidates)!NotAfter(n, a, b) <=> NotAfter(n, a, b)
  BY DEF NotAfter, Listed!NotAfter
<1>8. Listed(requests, candidates)!Selections = Selections
  BY DEF Selections, Listed!Selections, Rows, Listed!Rows, Columns, Listed!Columns
<1>9. Listed(requests, candidates)!Rows = Rows
  BY DEF Rows, Listed!Rows
<1>10. Listed(requests, candidates)!Examined = Examined
  BY <1>4, <1>6, <1>7, <1>8, <1>9 DEF Examined, Listed!Examined
<1> QED BY <1>4, <1>10

\* The operators of another list depend on the demands besides.
LEMMA ListedStays ==
  ASSUME demands' = demands, NEW rq, NEW cd
  PROVE  /\ \A a : Listed(rq, cd)!Valid(a)' <=> Listed(rq, cd)!Valid(a)
         /\ (Listed(rq, cd)!Examined)' = Listed(rq, cd)!Examined
<1>1. \A r : Listed(rq, cd)!Demanded(r)' <=> Listed(rq, cd)!Demanded(r)
  BY DEF Listed!Demanded
<1>2. \A r, c : Listed(rq, cd)!Eligible(r, c)' <=> Listed(rq, cd)!Eligible(r, c)
  BY <1>1 DEF Listed!Eligible
<1>3. \A e, u, r, c :
        Listed(rq, cd)!Clash(e, u, r, c)' <=> Listed(rq, cd)!Clash(e, u, r, c)
  BY <1>1 DEF Listed!Clash
<1>4. \A a : Listed(rq, cd)!Valid(a)' <=> Listed(rq, cd)!Valid(a)
  BY <1>2, <1>3 DEF Listed!Valid
<1>5. \A n, a : Listed(rq, cd)!Node(n, a)' <=> Listed(rq, cd)!Node(n, a)
  BY <1>2, <1>3 DEF Listed!Node
<1>6. \A n : Listed(rq, cd)!Nodes(n)' = Listed(rq, cd)!Nodes(n)
  BY <1>5 DEF Listed!Nodes
<1>7. (Listed(rq, cd)!Examined)' = Listed(rq, cd)!Examined
  BY <1>4, <1>6 DEF Listed!Examined
<1> QED BY <1>4, <1>7

\* A plan stays one for a list while the problem and the plan do.
LEMMA MadeFromStays ==
  ASSUME NEW rq, NEW cd, MadeFrom(rq, cd),
         UNCHANGED <<demands, spent, plan>>,
         {requests[r] : r \in Rows}' = {requests[r] : r \in Rows},
         {candidates[c] : c \in Columns}' = {candidates[c] : c \in Columns}
  PROVE  MadeFrom(rq, cd)'
<1>1. /\ \A a : Listed(rq, cd)!Valid(a)' <=> Listed(rq, cd)!Valid(a)
      /\ (Listed(rq, cd)!Examined)' = Listed(rq, cd)!Examined
  BY ListedStays
<1>2. \A a : First(rq, cd, a)' <=> First(rq, cd, a)
  BY <1>1 DEF First
<1>3. RequestsInOrder(rq)' <=> RequestsInOrder(rq)
  BY DEF RequestsInOrder
<1>4. CandidatesInOrder(cd)' <=> CandidatesInOrder(cd)
  BY DEF CandidatesInOrder, Invalid, Less
<1>5. PICK a : /\ First(rq, cd, a)
               /\ plan.bindings = {Binding(rq[r].event, cd[a[r]]) :
                                     r \in {k \in Rows : rq[k].event \in demands}}
  BY DEF MadeFrom
<1>6. {Binding(rq[r].event, cd[a[r]]) : r \in {k \in Rows : rq[k].event \in demands}}'
        = {Binding(rq[r].event, cd[a[r]]) : r \in {k \in Rows : rq[k].event \in demands}}
  BY DEF Binding
<1>7. First(rq, cd, a)' /\ (plan.bindings)' =
        {Binding(rq[r].event, cd[a[r]]) : r \in {k \in Rows : rq[k].event \in demands}}'
  BY <1>2, <1>5, <1>6
<1> QED BY <1>1, <1>3, <1>4, <1>7 DEF MadeFrom

-----------------------------------------------------------------------------
(* The parts of the invariant. *)

\* Requests without duplicates, sorted by event, are in strict order.
LEMMA SortRequestsOrders ==
  ASSUME Correct, SortRequests
  PROVE  /\ ~DuplicateRequest' => RequestsInOrder(requests)'
         /\ {requests[r] : r \in Rows}' = {requests[r] : r \in Rows}
<1> PICK order \in RowOrders :
      /\ \A i \in Rows : \A j \in 1 .. (i - 1) :
           requests[order[j]].event <= requests[order[i]].event
      /\ requests' = [i \in Rows |-> requests[order[i]]]
  BY DEF SortRequests
<1>1. /\ order \in [Rows -> Rows]
      /\ \A i \in Rows : \A j \in 1 .. (i - 1) : j \in Rows /\ j < i
      /\ \A r \in Rows : requests[r].event \in Nat
  <2>1. order \in [Rows -> Rows]
    BY DEF RowOrders, Rearranges
  <2>2. \A i \in Rows : \A j \in 1 .. (i - 1) : j \in Rows /\ j < i
    BY Sizes
  <2>3. \A r \in Rows : requests[r].event \in Nat
    BY DEF Correct, SearchInv, TypeOK, Request
  <2> QED BY <2>1, <2>2, <2>3
<1>2. ASSUME ~DuplicateRequest', NEW i \in Rows, NEW j \in 1 .. (i - 1)
      PROVE  requests'[j].event < requests'[i].event
  <2>1. requests'[j].event # requests'[i].event
    BY <1>1, <1>2 DEF DuplicateRequest
  <2>2. requests'[j].event <= requests'[i].event
    BY <1>1
  <2>3. requests'[j].event \in Nat /\ requests'[i].event \in Nat
    BY <1>1
  <2> QED BY <2>1, <2>2, <2>3
<1>3. {requests[order[r]] : r \in Rows} = {requests[r] : r \in Rows}
  BY DEF RowOrders, Rearranges
<1>4. {requests'[r] : r \in Rows} = {requests[order[r]] : r \in Rows}
  OBVIOUS
<1> QED BY <1>2, <1>3, <1>4 DEF RequestsInOrder

\* Candidates that pass the checks are in order.
LEMMA SortCandidatesOrders ==
  ASSUME Correct, SortCandidates
  PROVE  /\ pc' = "search" => CandidatesInOrder(candidates)'
         /\ {candidates[c] : c \in Columns}' = {candidates[c] : c \in Columns}
<1> PICK order \in ColumnOrders :
      /\ \A i \in Columns : \A j \in 1 .. (i - 1) :
           ~Less(candidates[order[i]], candidates[order[j]])
      /\ candidates' = [i \in Columns |-> candidates[order[i]]]
  BY DEF SortCandidates
<1>1. /\ order \in [Columns -> Columns]
      /\ \A i \in Columns : \A j \in 1 .. (i - 1) : j \in Columns
  BY Sizes DEF ColumnOrders, Rearranges, Columns
<1>2. ASSUME pc' = "search" PROVE CandidatesInOrder(candidates)'
  <2>1. \A i \in Columns : ~Bad(candidates', i)
    BY <1>2 DEF SortCandidates, Fail
  <2>2. \A i \in Columns : ~Invalid(candidates'[i]) /\ ~Repeats(candidates', i)
    BY <2>1 DEF Bad
  <2>3. \A i \in Columns : \A j \in 1 .. (i - 1) : ~Less(candidates'[i], candidates'[j])
    BY <1>1
  <2> QED BY <2>2, <2>3 DEF CandidatesInOrder, Repeats, Invalid, Less
<1>3. {candidates[order[c]] : c \in Columns} = {candidates[c] : c \in Columns}
  BY DEF ColumnOrders, Rearranges
<1>4. {candidates'[c] : c \in Columns} = {candidates[order[c]] : c \in Columns}
  BY <1>1
<1> QED BY <1>2, <1>3, <1>4

\* What an answer is, of a problem that stays as it is.
LEMMA InOrderStays ==
  ASSUME UNCHANGED Problem
  PROVE  /\ RequestsInOrder(requests)' <=> RequestsInOrder(requests)
         /\ CandidatesInOrder(candidates)' <=> CandidatesInOrder(candidates)
BY DEF Problem, RequestsInOrder, CandidatesInOrder, Invalid, Less

\* Solving orders what it has checked.
LEMMA SolveWellOrdered == ASSUME Correct, WellOrdered, Solve PROVE WellOrdered'
<1>1. CASE SortRequests
  <2>1. pc' = "candidates" \/ (pc' = "done" /\ error' = "duplicate_request")
    BY <1>1 DEF SortRequests, Fail, Proceed
  <2>2. pc' = "candidates" => RequestsInOrder(requests)'
    BY <1>1, SortRequestsOrders DEF SortRequests, Fail
  <2> QED BY <2>1, <2>2 DEF WellOrdered, Answered
<1>2. CASE SortCandidates
  <2>1. RequestsInOrder(requests)'
    BY <1>2 DEF SortCandidates, WellOrdered, RequestsInOrder
  <2>2. \/ pc' = "search"
        \/ pc' = "done" /\ error' \in {"invalid_model", "duplicate_candidate"}
    BY <1>2 DEF SortCandidates, Fail, Proceed
  <2> QED BY <1>2, <2>1, <2>2, SortCandidatesOrders DEF WellOrdered, Answered
<1>3. CASE Search \/ Succeed \/ Diagnose
  <2>1. UNCHANGED Problem /\ pc \in {"search", "diagnose"}
    BY <1>3 DEF Search, Skip, Exhaust, Reject, Select, Backtrack, GiveUp, Succeed,
                Diagnose, Visit, Looking, Searching, input, Problem
  <2>2. RequestsInOrder(requests)' /\ CandidatesInOrder(candidates)'
    BY <2>1, InOrderStays DEF WellOrdered
  <2> QED BY <2>2 DEF WellOrdered
<1> QED BY <1>1, <1>2, <1>3 DEF Solve

\* The first full path is the leftmost one.
LEMMA SolveFoundFirst == ASSUME Correct, Solve PROVE FoundFirst'
<1>1. CASE Succeed
  <2>1. /\ pc = "search" /\ row = R + 1
        /\ UNCHANGED <<input, choice>> /\ UNCHANGED Problem
        /\ bindings' =
             {<<requests[r].event, choice[r]>> : r \in {k \in Rows : Demanded(k)}}
    BY <1>1 DEF Succeed, input, Problem
  <2>2. \A a : Valid(a)' <=> Valid(a)
    BY <2>1, SameValid
  <2>3. \A a \in Selections, k \in Rows :
          Valid(a) /\ AgreesBefore(a, k) => choice[k] <= a[k]
    <3>1. \A k \in Rows : k <= row
      BY <2>1, Sizes
    <3> QED BY <2>1, <3>1 DEF Correct, SearchInv, NoneSkipped
  <2>4. \A a, k : AgreesBefore(a, k)' <=> AgreesBefore(a, k)
    BY <2>1 DEF AgreesBefore
  <2>5. \A r : Demanded(r)' <=> Demanded(r)
    BY <2>1 DEF Demanded, Problem
  <2>6. bindings' =
          {<<requests'[r].event, choice'[r]>> : r \in {k \in Rows : Demanded(k)'}}
    BY <2>1, <2>5 DEF Problem
  <2> QED BY <2>1, <2>2, <2>3, <2>4, <2>6 DEF FoundFirst
<1>2. CASE SortRequests \/ SortCandidates \/ Search \/ Diagnose
  <2>1. pc' # "done" \/ error' # "none"
    BY <1>2 DEF SortRequests, SortCandidates, Search, Skip, Exhaust, Reject, Select,
                Backtrack, GiveUp, Diagnose, Visit, Looking, Searching, Fail, Proceed
  <2> QED BY <2>1 DEF FoundFirst, Answered
<1> QED BY <1>1, <1>2 DEF Solve

\* Solving only puts the problem into another order.
LEMMA SolvePosed ==
  ASSUME Correct, Solve
  PROVE  /\ {requests[r] : r \in Rows}' = {requests[r] : r \in Rows}
         /\ {candidates[c] : c \in Columns}' = {candidates[c] : c \in Columns}
         /\ UNCHANGED <<demands, budget, plan, same, spent, answer>>
<1>1. CASE SortRequests
  BY <1>1, SortRequestsOrders DEF SortRequests, Solve
<1>2. CASE SortCandidates
  BY <1>2, SortCandidatesOrders DEF SortCandidates, Solve
<1>3. CASE Search \/ Succeed \/ Diagnose
  BY <1>3 DEF Search, Skip, Exhaust, Reject, Select, Backtrack, GiveUp, Succeed,
              Diagnose, Visit, Looking, Searching, input, Solve
<1> QED BY <1>1, <1>2, <1>3 DEF Solve

\* Lists with the same set of entries hold the same things.
LEMMA SetOfThings ==
  ASSUME NEW n, NEW f, NEW g, {f[i] : i \in 1 .. n} = {g[i] : i \in 1 .. n}
  PROVE  SameThings(n, f, g)
<1>1. ASSUME NEW i \in 1 .. n PROVE f[i] \in {g[j] : j \in 1 .. n}
  OBVIOUS
<1>2. ASSUME NEW i \in 1 .. n PROVE g[i] \in {f[j] : j \in 1 .. n}
  OBVIOUS
<1> QED BY <1>1, <1>2 DEF SameThings

\* Lists in order that hold the same requests, or candidates, are the same.
LEMMA SameRequests ==
  ASSUME NEW f \in [Rows -> Request], NEW g \in [Rows -> Request],
         RequestsInOrder(f), RequestsInOrder(g),
         {f[r] : r \in Rows} = {g[r] : r \in Rows}
  PROVE  f = g
<1> DEFINE Before == {p \in Request \X Request : p[1].event < p[2].event}
<1>1. Strict(Before)
  BY DEF Strict, Request
<1>2. \A i \in Rows : \A j \in 1 .. (i - 1) : j \in Rows
  BY Sizes
<1>3. \A i \in Rows : \A j \in 1 .. (i - 1) :
        <<f[j], f[i]>> \in Before /\ <<g[j], g[i]>> \in Before
  BY <1>2 DEF RequestsInOrder
<1> HIDE DEF Before
<1>4. \A i \in Rows : f[i] = g[i]
  <2>1. R \in Nat
    BY Sizes
  <2>2. InTheOrder(R, f, Before) /\ InTheOrder(R, g, Before)
    BY <1>3 DEF InTheOrder, Rows
  <2>3. SameThings(R, f, g)
    BY SetOfThings DEF Rows
  <2>4. \A i \in 1 .. R : f[i] = g[i]
    BY <1>1, <2>1, <2>2, <2>3, OneOrder
  <2> QED BY <2>4 DEF Rows
<1> QED BY <1>4

\* In the order of candidates one of two comes before the other.
LEMMA LessOrders ==
  ASSUME NEW a \in Candidate, NEW b \in Candidate
  PROVE  /\ Less(a, b) => ~Less(b, a)
         /\ \/ a.request # b.request
            \/ a.configuration # b.configuration
            => Less(a, b) \/ Less(b, a)
BY DEF Less, Candidate

\* The same of candidates.
LEMMA SameCandidates ==
  ASSUME NEW f \in [Columns -> Candidate], NEW g \in [Columns -> Candidate],
         CandidatesInOrder(f), CandidatesInOrder(g),
         {f[c] : c \in Columns} = {g[c] : c \in Columns}
  PROVE  f = g
<1> DEFINE Before == {p \in Candidate \X Candidate : Less(p[1], p[2])}
<1>1. Strict(Before)
  BY LessOrders DEF Strict
<1>2. \A i \in Columns : \A j \in 1 .. (i - 1) : j \in Columns
  BY Sizes DEF Columns
<1>3. \A i \in Columns : \A j \in 1 .. (i - 1) :
        <<f[j], f[i]>> \in Before /\ <<g[j], g[i]>> \in Before
  BY <1>2, LessOrders DEF CandidatesInOrder
<1> HIDE DEF Before
<1>4. \A i \in Columns : f[i] = g[i]
  <2>1. C \in Nat
    BY Sizes
  <2>2. InTheOrder(C, f, Before) /\ InTheOrder(C, g, Before)
    BY <1>3 DEF InTheOrder, Columns
  <2>3. SameThings(C, f, g)
    BY SetOfThings DEF Columns
  <2>4. \A i \in 1 .. C : f[i] = g[i]
    BY <1>1, <2>1, <2>2, <2>3, OneOrder
  <2> QED BY <2>4 DEF Columns
<1> QED BY <1>4

\* A problem listed anew has the faults it had, and no others.
LEMMA NoNewFault ==
  ASSUME Correct, NEW rq, NEW cd, MadeFrom(rq, cd)
  PROVE  ~Answered({"duplicate_request", "invalid_model", "duplicate_candidate"})
<1>1. /\ R \in Nat /\ C \in Nat
      /\ SameThings(R, rq, requests) /\ SameThings(C, cd, candidates)
      /\ rq \in [1 .. R -> Request] /\ cd \in [1 .. C -> Candidate]
  BY Sizes, SetOfThings DEF MadeFrom, Rows, Columns
<1>2. ASSUME NEW i \in 1 .. R, NEW j \in 1 .. R, i # j
      PROVE  rq[i].event # rq[j].event
  <2>1. i \in 1 .. (j - 1) \/ j \in 1 .. (i - 1)
    BY <1>1, <1>2
  <2>2. rq[i].event < rq[j].event \/ rq[j].event < rq[i].event
    BY <2>1 DEF MadeFrom, RequestsInOrder, Rows
  <2>3. rq[i].event \in Nat /\ rq[j].event \in Nat
    BY <1>1 DEF Request
  <2> QED BY <2>2, <2>3
<1>3. ASSUME NEW i \in 1 .. C, NEW j \in 1 .. C, i # j
      PROVE  cd[i].request # cd[j].request \/ cd[i].configuration # cd[j].configuration
  <2>1. i \in 1 .. (j - 1) \/ j \in 1 .. (i - 1)
    BY <1>1, <1>3
  <2> QED BY <2>1 DEF MadeFrom, CandidatesInOrder, Columns
<1>4. ASSUME Answered({"duplicate_request"}) PROVE FALSE
  <2>1. PICK i \in 1 .. R, j \in 1 .. R : i < j /\ requests[i].event = requests[j].event
    BY <1>4 DEF Correct, OnlyWellFormedSearched, DuplicateRequest, Rows
  <2>2. requests[i] # requests[j]
    <3>1. \A k, l \in 1 .. R : rq[k] = rq[l] => k = l
      BY <1>2
    <3>2. \A k, l \in 1 .. R : requests[k] = requests[l] => k = l
      BY <1>1, <3>1, NoneTwice
    <3> QED BY <1>1, <2>1, <3>2
  <2>3. /\ \E k \in 1 .. R : requests[i] = rq[k]
        /\ \E k \in 1 .. R : requests[j] = rq[k]
    BY <1>1 DEF SameThings
  <2> QED BY <1>2, <2>1, <2>2, <2>3
<1>5. ASSUME Answered({"invalid_model"}) PROVE FALSE
  <2>1. PICK i \in 1 .. C : Invalid(candidates[i])
    BY <1>5 DEF Correct, OnlyWellFormedSearched, Columns
  <2>2. \A c \in 1 .. C : ~Invalid(cd[c])
    BY DEF MadeFrom, CandidatesInOrder, Columns
  <2>3. \E c \in 1 .. C : candidates[i] = cd[c]
    BY <1>1 DEF SameThings
  <2> QED BY <2>1, <2>2, <2>3
<1>6. ASSUME Answered({"duplicate_candidate"}) PROVE FALSE
  <2>a. PICK i \in 1 .. C : Repeats(candidates, i)
    BY <1>6 DEF Correct, OnlyWellFormedSearched, Columns
  <2>1. PICK j \in 1 .. (i - 1) :
          /\ candidates[j].request = candidates[i].request
          /\ candidates[j].configuration = candidates[i].configuration
    BY <2>a DEF Repeats
  <2>b. j \in 1 .. C /\ i # j
    BY <1>1
  <2>2. candidates[i] # candidates[j]
    <3>1. \A k, l \in 1 .. C : cd[k] = cd[l] => k = l
      BY <1>3
    <3>2. \A k, l \in 1 .. C : candidates[k] = candidates[l] => k = l
      BY <1>1, <3>1, NoneTwice
    <3> QED BY <2>b, <3>2
  <2>3. /\ \E k \in 1 .. C : candidates[i] = cd[k]
        /\ \E k \in 1 .. C : candidates[j] = cd[k]
    BY <1>1, <2>b DEF SameThings
  <2> QED BY <1>3, <2>1, <2>2, <2>3
<1> QED BY <1>4, <1>5, <1>6 DEF Answered

\* The bindings of the plan just made.
LEMMA SolvedBindings ==
  ASSUME FoundFirst, Answered({"none"})
  PROVE  Solved.bindings = {Binding(requests[r].event, candidates[choice[r]]) :
                              r \in {k \in Rows : Demanded(k)}}
<1> DEFINE Bound == {k \in Rows : Demanded(k)}
           found(b) == Binding(b[1], candidates[b[2]])
<1>1. \A r \in Bound : found(<<requests[r].event, choice[r]>>)
                        = Binding(requests[r].event, candidates[choice[r]])
  OBVIOUS
<1>2. bindings = {<<requests[r].event, choice[r]>> : r \in Bound}
  BY DEF FoundFirst
<1>3. Solved.bindings = {found(b) : b \in bindings}
  BY DEF Solved
<1> HIDE DEF Bound, found
<1>4. {found(b) : b \in bindings}
        = {Binding(requests[r].event, candidates[choice[r]]) : r \in Bound}
  BY <1>1, <1>2
<1> QED BY <1>3, <1>4 DEF Bound

\* Solved again, the same problem has the same plan if the budget reaches.
LEMMA SamePlan ==
  ASSUME Correct, WellOrdered, FoundFirst, pc = "done",
         NEW rq, NEW cd, MadeFrom(rq, cd), plan.allocation_ok = TRUE,
         plan = [allocation_ok |-> plan.allocation_ok, bindings |-> plan.bindings]
  PROVE  Agrees <=> spent <= budget
<1>1. Answered({"none", "no_candidate", "conflict", "exhausted"})
  BY NoNewFault DEF Answered, Correct, SearchInv, TypeOK
<1>2. requests = rq /\ candidates = cd
  <2>1. requests \in [Rows -> Request] /\ candidates \in [Columns -> Candidate]
    BY DEF Correct, SearchInv, TypeOK
  <2>2. RequestsInOrder(requests) /\ CandidatesInOrder(candidates)
    BY <1>1 DEF WellOrdered, Answered
  <2>3. requests = rq
    BY <2>1, <2>2, SameRequests DEF MadeFrom
  <2>4. candidates = cd
    BY <2>1, <2>2, SameCandidates DEF MadeFrom
  <2> QED BY <2>3, <2>4
<1>3. PICK a : /\ First(requests, candidates, a)
               /\ plan.bindings = {Binding(requests[r].event, candidates[a[r]]) :
                                     r \in {k \in Rows : Demanded(k)}}
  BY <1>2 DEF MadeFrom, Demanded
<1>4. /\ a \in Selections /\ Valid(a)
      /\ \A b \in Selections, k \in Rows :
           Valid(b) /\ (\A j \in 1 .. (k - 1) : b[j] = a[j]) => a[k] <= b[k]
  BY <1>3, ListedAsIs DEF First
<1>5. error = "none" <=> spent <= budget
  <2>1. ~Answered({"conflict", "no_candidate"})
    BY <1>4 DEF Correct, Answers, RefusalIsJustified
  <2>2. Cardinality(Examined) = spent
    BY <1>2, ListedAsIs DEF MadeFrom
  <2>3. budget \in Nat /\ spent \in Nat
    BY <2>2, ExaminedFinite DEF Correct, SearchInv, TypeOK
  <2>4. error = "exhausted" <=> budget < spent
    BY <1>1, <2>2 DEF Correct, VisitedCounts, BudgetIsExact, Answered
  <2>5. error \in {"none", "exhausted"}
    BY <1>1, <2>1 DEF Answered
  <2> QED BY <2>3, <2>4, <2>5
<1>6. ASSUME error = "none" PROVE choice = a
  <2>1. /\ choice \in Selections /\ Valid(choice)
        /\ \A b \in Selections, k \in Rows :
             Valid(b) /\ AgreesBefore(b, k) => choice[k] <= b[k]
    BY <1>6 DEF Answered, FoundFirst, Correct, Answers, PlanIsValid
  <2>2. ASSUME \E k \in 1 .. R : choice[k] # a[k] PROVE FALSE
    <3>0. R \in Nat
      BY Sizes
    <3>1. PICK k \in 1 .. R :
            choice[k] # a[k] /\ \A j \in 1 .. (k - 1) : choice[j] = a[j]
      BY <2>2, <3>0, FirstDifference
    <3>2. k \in Rows
      BY DEF Rows
    <3>3. choice[k] <= a[k]
      BY <1>4, <2>1, <3>1, <3>2 DEF AgreesBefore
    <3>4. a[k] <= choice[k]
      BY <1>4, <2>1, <3>1, <3>2
    <3>5. a[k] \in Nat /\ choice[k] \in Nat
      BY <1>4, <2>1, <3>2, Sizes DEF Selections
    <3> QED BY <3>1, <3>3, <3>4, <3>5
  <2>3. \A k \in Rows : choice[k] = a[k]
    BY <2>2 DEF Rows
  <2> QED BY <1>4, <2>1, <2>3 DEF Selections
<1>7. ASSUME error = "none" PROVE Solved.bindings = plan.bindings
  <2>1. Solved.bindings =
          {Binding(requests[r].event, candidates[choice[r]]) : r \in {k \in Rows : Demanded(k)}}
    BY <1>7, SolvedBindings DEF Answered
  <2> QED BY <1>3, <1>6, <1>7, <2>1
<1>8. error = "none" => Agrees
  BY <1>7 DEF Agrees, Solved
<1>9. Agrees => error = "none"
  BY DEF Agrees
<1> QED BY <1>5, <1>8, <1>9

\* The plan that is kept is a plan.
PlanType ==
  /\ plan = [allocation_ok |-> plan.allocation_ok, bindings |-> plan.bindings]
  /\ plan.allocation_ok \in BOOLEAN
  /\ spent \in Nat

\* The invariant of validates.
Validating ==
  /\ PlanType /\ WellOrdered /\ FoundFirst /\ Kept /\ Standing
  /\ AcceptedPlansServe /\ SameProblemStands
  /\ answer \in {"unasked", "asked", "accepted", "rejected"}
  /\ answer = "asked" => budget = DefaultBudget

\* A plan that is kept for the same problem was made from it.
LEMMA AskKeeps == ASSUME Correct, Validating, Ask PROVE Kept'
<1> SUFFICES ASSUME same', plan'.allocation_ok PROVE \E rq, cd : MadeFrom(rq, cd)'
  BY DEF Kept
<1>1. /\ pc = "done" /\ plan' = Solved /\ spent' = visited
      /\ same' = (Posed' = Posed)
  BY DEF Ask
<1>2. error = "none"
  BY <1>1 DEF Solved
<1>3. /\ {requests[r] : r \in Rows}' = {requests[r] : r \in Rows}
      /\ {candidates[c] : c \in Columns}' = {candidates[c] : c \in Columns}
      /\ demands' = demands
  <2>1. Posed' = Posed
    BY <1>1
  <2>2. Posed'.requests = Posed.requests /\ Posed'.candidates = Posed.candidates
        /\ Posed'.demands = Posed.demands
    BY <2>1
  <2> QED BY <2>2 DEF Posed
<1>4. Answered({"none"})
  BY <1>1, <1>2 DEF Answered
<1>5. /\ requests \in [Rows -> Request] /\ candidates \in [Columns -> Candidate]
      /\ RequestsInOrder(requests) /\ CandidatesInOrder(candidates)
  BY <1>4 DEF Correct, SearchInv, TypeOK, Validating, WellOrdered, Answered
<1>6. Cardinality(Listed(requests, candidates)!Examined) = visited
  <2>1. Cardinality(Examined) = visited
    BY <1>2, <1>4 DEF Correct, VisitedCounts, BudgetIsExact, Answered
  <2> QED BY <2>1, ListedAsIs
<1>7. First(requests, candidates, choice)
  <2>1. /\ choice \in Selections /\ Valid(choice)
        /\ \A b \in Selections, k \in Rows :
             Valid(b) /\ AgreesBefore(b, k) => choice[k] <= b[k]
    BY <1>4 DEF Validating, FoundFirst, Correct, Answers, PlanIsValid
  <2> QED BY <2>1, ListedAsIs DEF First, AgreesBefore
<1>8. Solved.bindings = {Binding(requests[r].event, candidates[choice[r]]) :
                           r \in {k \in Rows : requests[k].event \in demands}}
  BY <1>4, SolvedBindings DEF Validating, Demanded
<1>9. PICK rq, cd, a : rq = requests /\ cd = candidates /\ a = choice
  OBVIOUS
<1>10. First(rq, cd, a)'
  <2>1. \A b : Listed(rq, cd)!Valid(b)' <=> Listed(rq, cd)!Valid(b)
    BY <1>3, ListedStays
  <2>2. First(rq, cd, a)
    BY <1>7, <1>9
  <2> QED BY <2>1, <2>2 DEF First
<1>11. (Listed(rq, cd)!Examined)' = Listed(rq, cd)!Examined
  BY <1>3, ListedStays
<1>12. RequestsInOrder(rq)' /\ CandidatesInOrder(cd)'
  <2>1. RequestsInOrder(rq) /\ CandidatesInOrder(cd)
    BY <1>5, <1>9
  <2> QED BY <2>1 DEF RequestsInOrder, CandidatesInOrder, Invalid, Less
<1>13. (plan.bindings)' = {Binding(rq[r].event, cd[a[r]]) :
                             r \in {k \in Rows : rq[k].event \in demands}}'
  <2>1. (plan.bindings)' = {Binding(rq[r].event, cd[a[r]]) :
                              r \in {k \in Rows : rq[k].event \in demands}}
    BY <1>1, <1>8, <1>9
  <2>2. {Binding(rq[r].event, cd[a[r]]) : r \in {k \in Rows : rq[k].event \in demands}}'
          = {Binding(rq[r].event, cd[a[r]]) : r \in {k \in Rows : rq[k].event \in demands}}
    BY <1>3 DEF Binding
  <2> QED BY <2>1, <2>2
<1>14. /\ rq \in [Rows -> Request] /\ cd \in [Columns -> Candidate]
       /\ {rq[r] : r \in Rows} = {requests[r] : r \in Rows}'
       /\ {cd[c] : c \in Columns} = {candidates[c] : c \in Columns}'
       /\ Cardinality((Listed(rq, cd)!Examined)') = spent'
  BY <1>1, <1>3, <1>5, <1>6, <1>9, <1>11
<1>15. MadeFrom(rq, cd)'
  BY <1>10, <1>12, <1>13, <1>14 DEF MadeFrom
<1> QED BY <1>15

\* The first answer, of a catalog the requests do not match.
LEMMA AskValidating == ASSUME Correct, Validating, Ask PROVE Validating'
<1>1. /\ pc' = "requests" /\ plan' = Solved
      /\ answer' = IF InCatalog(requests') THEN "asked" ELSE "rejected"
      /\ budget' = DefaultBudget
  BY DEF Ask, ValidationBudget
<1>2. PlanType'
  <2>1. spent' \in Nat
    BY VisitedWithin DEF Ask, Correct
  <2> QED BY <1>1, <2>1 DEF PlanType, Solved
<1>3. WellOrdered' /\ FoundFirst'
  BY <1>1 DEF WellOrdered, FoundFirst, Answered
<1>4. Standing' /\ answer' \in {"unasked", "asked", "accepted", "rejected"}
  BY <1>1 DEF Standing
<1>5. AcceptedPlansServe' /\ SameProblemStands'
  BY <1>1 DEF AcceptedPlansServe, SameProblemStands, InCatalog
<1> QED BY <1>1, <1>2, <1>3, <1>4, <1>5, AskKeeps DEF Validating

\* Solving keeps what is known of the plan.
LEMMA SolveValidating == ASSUME Correct, Validating, Solve PROVE Validating'
<1>1. /\ {requests[r] : r \in Rows}' = {requests[r] : r \in Rows}
      /\ {candidates[c] : c \in Columns}' = {candidates[c] : c \in Columns}
      /\ UNCHANGED <<demands, budget, plan, same, spent, answer>>
  BY SolvePosed
<1>2. pc # "done" /\ answer # "rejected"
  BY DEF Solve, SortRequests, SortCandidates, Search, Skip, Exhaust, Reject, Select,
         Backtrack, GiveUp, Succeed, Diagnose, Visit, Looking, Searching
<1>3. Kept'
  <2> SUFFICES ASSUME answer' = "asked", same', plan'.allocation_ok
               PROVE  \E rq, cd : MadeFrom(rq, cd)'
    BY DEF Kept
  <2>1. PICK rq, cd : MadeFrom(rq, cd)
    BY <1>1 DEF Validating, Kept
  <2>2. MadeFrom(rq, cd)'
    BY <1>1, <2>1, MadeFromStays
  <2> QED BY <2>2
<1>4. WellOrdered' /\ FoundFirst'
  BY SolveWellOrdered, SolveFoundFirst DEF Validating
<1>5. answer' \notin {"accepted", "rejected"}
  BY <1>1, <1>2 DEF Validating, Standing
<1>6. PlanType' /\ answer' \in {"unasked", "asked", "accepted", "rejected"}
  BY <1>1 DEF Validating, PlanType
<1>7. answer' = "asked" => budget' = DefaultBudget
  BY <1>1 DEF Validating
<1> QED BY <1>3, <1>4, <1>5, <1>6, <1>7
        DEF Validating, Standing, AcceptedPlansServe, SameProblemStands

\* A plan that agrees with one made now serves now.
LEMMA AgreeingServes ==
  ASSUME Correct, WellOrdered, FoundFirst, pc = "done", Agrees
  PROVE  /\ \A r \in Rows : Demanded(r) =>
              \E c \in Columns :
                /\ Eligible(r, c)
                /\ Binding(requests[r].event, candidates[c]) \in plan.bindings
         /\ \A b \in plan.bindings : b.event \in demands
         /\ \A a, b \in plan.bindings :
              a # b => a.event # b.event /\ a.source # b.source /\ a.entry # b.entry
<1> DEFINE bound(r) == Binding(requests[r].event, candidates[choice[r]])
<1>1. plan.bindings = {bound(r) : r \in {k \in Rows : Demanded(k)}}
  <2>1. Answered({"none"}) /\ plan = Solved
    BY DEF Agrees, Answered
  <2> QED BY <2>1, SolvedBindings
<1>2. choice \in Selections /\ Valid(choice)
  BY DEF Agrees, Answered, Correct, Answers, PlanIsValid
<1>3. /\ \A r \in Rows : choice[r] \in Columns /\ Eligible(r, choice[r])
      /\ \A r \in Rows : \A s \in 1 .. (r - 1) : ~Clash(s, choice[s], r, choice[r])
  BY <1>2 DEF Selections, Valid
<1>4. ASSUME NEW r \in Rows, NEW s \in Rows, r # s, Demanded(r), Demanded(s)
      PROVE  /\ candidates[choice[r]].source # candidates[choice[s]].source
             /\ candidates[choice[r]].entry # candidates[choice[s]].entry
  <2>1. r \in 1 .. (s - 1) \/ s \in 1 .. (r - 1)
    BY <1>4, Sizes
  <2> QED BY <1>3, <1>4, <2>1 DEF Clash
<1>5. ASSUME NEW r \in Rows, NEW s \in Rows, r # s
      PROVE  requests[r].event # requests[s].event
  <2>1. r \in 1 .. (s - 1) \/ s \in 1 .. (r - 1)
    BY <1>5, Sizes
  <2>2. RequestsInOrder(requests)
    BY DEF Agrees, Answered, WellOrdered
  <2>3. requests[r].event \in Nat /\ requests[s].event \in Nat
    BY DEF Correct, SearchInv, TypeOK, Request
  <2>4. requests[r].event < requests[s].event \/ requests[s].event < requests[r].event
    BY <2>1, <2>2 DEF RequestsInOrder
  <2> QED BY <2>3, <2>4
<1>6. \A r \in Rows : /\ bound(r).event = requests[r].event
                      /\ bound(r).source = candidates[choice[r]].source
                      /\ bound(r).entry = candidates[choice[r]].entry
  BY DEF Binding
<1>7. \A r \in Rows : Demanded(r) =>
        \E c \in Columns :
          /\ Eligible(r, c)
          /\ Binding(requests[r].event, candidates[c]) \in plan.bindings
  BY <1>1, <1>3
<1> HIDE DEF bound
<1>8. \A b \in plan.bindings : \E r \in Rows : Demanded(r) /\ b = bound(r)
  BY <1>1
<1>9. \A b \in plan.bindings : b.event \in demands
  BY <1>6, <1>8 DEF Demanded
<1>10. ASSUME NEW a \in plan.bindings, NEW b \in plan.bindings, a # b
       PROVE  a.event # b.event /\ a.source # b.source /\ a.entry # b.entry
  <2>1. PICK r \in Rows : Demanded(r) /\ a = bound(r)
    BY <1>8
  <2>2. PICK s \in Rows : Demanded(s) /\ b = bound(s)
    BY <1>8
  <2>3. r # s
    BY <1>10, <2>1, <2>2
  <2> QED BY <1>4, <1>5, <1>6, <2>1, <2>2, <2>3
<1> QED BY <1>7, <1>9, <1>10

\* What the solver leaves as it is stays in order, and stays the first.
LEMMA SameAnswers ==
  ASSUME UNCHANGED vars
  PROVE  /\ WellOrdered => WellOrdered'
         /\ FoundFirst => FoundFirst'
         /\ Solved' = Solved
<1>1. UNCHANGED Problem
  BY DEF vars, Problem
<1>2. WellOrdered => WellOrdered'
  BY <1>1, InOrderStays DEF vars, WellOrdered, Answered
<1>3. ASSUME FoundFirst PROVE FoundFirst'
  <2>1. \A a : Valid(a)' <=> Valid(a)
    BY <1>1, SameValid
  <2>2. \A a, k : AgreesBefore(a, k)' <=> AgreesBefore(a, k)
    BY DEF vars, AgreesBefore
  <2>3. {<<requests[r].event, choice[r]>> : r \in {k \in Rows : Demanded(k)}}'
          = {<<requests[r].event, choice[r]>> : r \in {k \in Rows : Demanded(k)}}
    BY DEF vars, Demanded
  <2> QED BY <1>3, <2>1, <2>2, <2>3 DEF vars, FoundFirst, Answered
<1>4. Solved' = Solved
  BY DEF vars, Solved, Binding
<1> QED BY <1>2, <1>3, <1>4

\* Nothing changes with an answer.
LEMMA StutterValidating ==
  ASSUME Validating, UNCHANGED validationVars
  PROVE  Validating'
<1>1. UNCHANGED vars /\ UNCHANGED <<plan, same, spent, answer>> /\ UNCHANGED Problem
  BY DEF validationVars, vars, Problem
<1>2. WellOrdered' /\ FoundFirst' /\ Solved' = Solved
  BY <1>1, SameAnswers DEF Validating
<1>3. Standing' /\ PlanType'
  BY <1>1, <1>2 DEF Validating, Standing, PlanType, vars
<1>4. Kept'
  <2> SUFFICES ASSUME answer' = "asked", same', plan'.allocation_ok
               PROVE  \E rq, cd : MadeFrom(rq, cd)'
    BY DEF Kept
  <2>1. PICK rq, cd : MadeFrom(rq, cd)
    BY <1>1 DEF Validating, Kept
  <2>2. MadeFrom(rq, cd)'
    BY <1>1, <2>1, MadeFromStays DEF vars
  <2> QED BY <2>2
<1>5. AcceptedPlansServe' /\ SameProblemStands'
  <2>1. /\ \A r, c : Eligible(r, c)' <=> Eligible(r, c)
        /\ \A r : Demanded(r)' <=> Demanded(r)
        /\ requests' = requests /\ candidates' = candidates /\ demands' = demands
    BY <1>1, SameEligible DEF vars, Demanded
  <2>2. \A e, c : Binding(e, candidates[c])' = Binding(e, candidates[c])
    BY <2>1 DEF Binding
  <2>3. InCatalog(requests)' <=> InCatalog(requests)
    BY <2>1 DEF InCatalog
  <2>4. AcceptedPlansServe'
    BY <1>1, <2>1, <2>2 DEF Validating, AcceptedPlansServe
  <2>5. SameProblemStands'
    BY <1>1, <2>3 DEF Validating, SameProblemStands
  <2> QED BY <2>4, <2>5
<1>6. answer' = "asked" => budget' = DefaultBudget
  BY <1>1 DEF vars, Validating
<1> QED BY <1>1, <1>2, <1>3, <1>4, <1>5, <1>6 DEF Validating

\* The verdict on a plan.
LEMMA DecideValidating == ASSUME Correct, Validating, Decide PROVE Validating'
<1>1. /\ pc = "done" /\ answer = "asked" /\ UNCHANGED <<vars, plan, same, spent>>
      /\ answer' = IF Agrees THEN "accepted" ELSE "rejected"
  BY DEF Decide
<1>2. UNCHANGED Problem
  BY <1>1 DEF vars, Problem
<1>3. WellOrdered' /\ FoundFirst' /\ Solved' = Solved
  BY <1>1, SameAnswers DEF Validating
<1>4. PlanType' /\ Kept' /\ answer' \in {"unasked", "asked", "accepted", "rejected"}
  BY <1>1 DEF Validating, PlanType, Kept
<1>5. Standing'
  BY <1>1, <1>3 DEF Standing, Agrees, vars
<1>6. AcceptedPlansServe'
  <2>1. CASE Agrees
    <3>1. answer' = "accepted"
      BY <1>1, <2>1
    <3>2. /\ \A r \in Rows : Demanded(r) =>
               \E c \in Columns :
                 /\ Eligible(r, c)
                 /\ Binding(requests[r].event, candidates[c]) \in plan.bindings
          /\ \A b \in plan.bindings : b.event \in demands
          /\ \A a, b \in plan.bindings :
               a # b => a.event # b.event /\ a.source # b.source /\ a.entry # b.entry
      BY <1>1, <2>1, AgreeingServes DEF Validating
    <3>3. /\ \A r, c : Eligible(r, c)' <=> Eligible(r, c)
          /\ \A r : Demanded(r)' <=> Demanded(r)
          /\ requests' = requests /\ candidates' = candidates /\ demands' = demands
          /\ plan' = plan
      BY <1>1, <1>2, SameEligible DEF vars, Demanded
    <3>4. \A e, c : Binding(e, candidates[c])' = Binding(e, candidates[c])
      BY <3>3 DEF Binding
    <3> QED BY <3>1, <3>2, <3>3, <3>4 DEF AcceptedPlansServe
  <2>2. CASE ~Agrees
    BY <1>1, <2>2 DEF AcceptedPlansServe
  <2> QED BY <2>1, <2>2
<1>7. SameProblemStands'
  <2>1. ASSUME plan.allocation_ok, same PROVE Agrees <=> spent <= DefaultBudget
    <3>1. PICK rq, cd : MadeFrom(rq, cd)
      BY <1>1, <2>1 DEF Validating, Kept
    <3>2. plan.allocation_ok = TRUE
      BY <2>1 DEF Validating, PlanType
    <3>3. Agrees <=> spent <= budget
      BY <1>1, <3>1, <3>2, SamePlan DEF Validating, PlanType
    <3> QED BY <1>1, <3>3 DEF Validating
  <2>2. spent \in Nat /\ DefaultBudget \in Nat
    BY DefaultAssumption DEF Validating, PlanType
  <2> QED BY <1>1, <2>1, <2>2 DEF SameProblemStands
<1>8. answer' = "asked" => budget' = DefaultBudget
  BY <1>1
<1> QED BY <1>3, <1>4, <1>5, <1>6, <1>7, <1>8 DEF Validating

\* Whoever asks and answers, the invariant stays.
LEMMA ValidatingNext ==
  ASSUME Correct, Validating, [ValidationNext]_validationVars
  PROVE  Validating'
<1>1. CASE UNCHANGED validationVars
  BY <1>1, StutterValidating DEF validationVars
<1>2. CASE Answer
  BY <1>2, StutterValidating DEF Answer, validationVars
<1> QED BY <1>1, <1>2, SolveValidating, AskValidating, DecideValidating
        DEF ValidationNext

\* From the start on.
LEMMA ValidatingAlways == ValidationSpec => []Validating
<1>1. ValidationInit => Correct /\ Validating
  BY InitCorrect DEF ValidationInit, Init, Validating, PlanType, WellOrdered, FoundFirst,
                     Kept, Standing, AcceptedPlansServe, SameProblemStands, Answered
<1>2. Correct /\ [ValidationNext]_validationVars => Correct'
  BY StepCases, StepCorrect, AskCorrect
<1>3. Correct /\ Validating /\ [ValidationNext]_validationVars => Validating'
  BY ValidatingNext
<1> QED BY <1>1, <1>2, <1>3, PTL DEF ValidationSpec

(***************************************************************************)
(* An accepted plan serves the problem as it is now (validates).           *)
(***************************************************************************)
THEOREM ValidationAcceptedPlansServe == ValidationSpec => []AcceptedPlansServe
<1>1. Validating => AcceptedPlansServe
  BY DEF Validating
<1> QED BY <1>1, ValidatingAlways, PTL

(***************************************************************************)
(* A plan made for the same problem, in whatever order its requests and    *)
(* candidates were listed then, is accepted if finding it took no more     *)
(* candidates than the default budget, and rejected if it took more        *)
(* (validates calls solve without a budget; the sorting in solve).         *)
(***************************************************************************)
THEOREM ValidationSameProblemStands == ValidationSpec => []SameProblemStands
<1>1. Validating => SameProblemStands
  BY DEF Validating
<1> QED BY <1>1, ValidatingAlways, PTL

=============================================================================
