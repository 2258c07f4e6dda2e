----------------------------- MODULE PwmCompile -----------------------------
(***************************************************************************)
(* From a declaration to a plan: pwm::requests evaluates the options of    *)
(* every request (PwmConfig) and pwm::solve allocates what they ask for    *)
(* (PwmAllocator); the array that the one returns is Problem::requests of  *)
(* the other.  Without a declaration solve is called with requests that    *)
(* the caller has written, as the entry for host checks allows.            *)
(***************************************************************************)
EXTENDS PwmConfig, PwmAllocator

compileVars == <<vars, declaration>>

CompileInit == Init /\ DeclareInit

Evaluate ==
  /\ pc = "call"
  /\ Declare
  /\ UNCHANGED vars

Hand ==
  /\ declaring = "done"
  /\ Call(values)
  /\ UNCHANGED declaration

\* The runtime entry, called without any declaration.
Check ==
  /\ instances = <<>> /\ declaring = "identities"
  /\ \E list \in RequestLists : Call(list)
  /\ UNCHANGED declaration

Compile == Solve /\ UNCHANGED declaration

Finished == Returned /\ UNCHANGED declaration

CompileNext == Evaluate \/ Hand \/ Check \/ Compile \/ Finished

CompileSpec == CompileInit /\ [][CompileNext]_compileVars

-----------------------------------------------------------------------------
\* What an active option asks of the candidate and endpoint chosen.
Grants(c, e, o) ==
  CASE o.kind = "frequency" ->
         /\ c.frequency.n * Million * o.rate.d
              >= o.rate.n * (Million - o.ppm) * c.frequency.d
         /\ c.frequency.n * Million * o.rate.d
              <= o.rate.n * (Million + o.ppm) * c.frequency.d
    [] o.kind = "duty_step"     -> e.step.n * o.step.d <= o.step.n * e.step.d
    [] o.kind = "pin"           -> e.pin = o.pin
    [] o.kind = "counter_bits"  -> c.counter_bits >= o.bits
    [] o.kind = "require_timer" -> c.timer = o.timer
    [] o.kind = "avr_waveform"  -> c.waveform = o.waveform
    [] o.kind = "avr_source"    -> c.source = o.source
    [] o.kind = "apb_clock"     -> c.source = "apb"
    [] o.kind = "unknown"       -> FALSE

\* The candidate planned for a use gives it an endpoint that meets all its
\* active options.
Served(use, key) ==
  \E j \in DOMAIN candidates : \E k \in DOMAIN candidates[j].endpoints :
    LET c == candidates[j]
        e == c.endpoints[k]
    IN  /\ c.key = key
        /\ e.request = Key(use)
        /\ \A i \in DOMAIN use.options :
             Active(resident, use.options[i]) => Grants(c, e, use.options[i])

\* What solve is given, in whatever order, is what requests() has returned.
Handed ==
  instances # <<>> /\ pc # "call" =>
    /\ declaring = "done"
    /\ Len(requests) = Len(values) /\ ToSet(requests) = ToSet(values)

(***************************************************************************)
(* Each phase from the declaration to the plan has what it takes from the  *)
(* phases before it.  While the options are applied one by one, the Config *)
(* tells exactly those applied so far; each declared request gets one      *)
(* answer, under its key, and is evaluated only if all keys are well named *)
(* and differ; solve works on those answers, each of them once; and each   *)
(* part of solve gets a problem that the parts before it have prepared.    *)
(* (Once solve has been called, the declaration is left alone.)            *)
(***************************************************************************)
PhasesInv == (pc = "call" => DeclareInv) /\ Handed /\ Inv

(***************************************************************************)
(* The error of a request depends only on the set of its active options,   *)
(* as the comment in Config::fail promises, whatever order they stand in   *)
(* and however their fractions are written, and so do the window, step and *)
(* width of its Config.  The pin, timer, waveform and source are among     *)
(* those that these options name; where they conflict, the last one        *)
(* applied is kept.                                                        *)
(***************************************************************************)
ResultIsOfTheSet == pc = "call" => ConfigsTellTheirSets

(***************************************************************************)
(* The answer is about the declaration.  With a plan, every declared use   *)
(* has one row, whose candidate meets each of the use's active options and *)
(* is shared by the uses of one instance exactly.  Declarations without    *)
(* distinct valid names come back from requests() with empty Configs that  *)
(* carry no error: they are refused for their names, never taken for       *)
(* requests.                                                               *)
(***************************************************************************)
AnswerIsOfTheDeclaration ==
  instances # <<>> /\ pc = "done" =>
    /\ status = "success" =>
         LET uses == AllUses
             row(use) == CHOOSE i \in DOMAIN requests : requests[i].key = Key(use)
         IN  /\ Len(requests) = Len(uses)
             /\ \A k \in DOMAIN uses :
                  /\ \E i \in DOMAIN requests : requests[i].key = Key(uses[k])
                  /\ Served(uses[k], plan[row(uses[k])])
             /\ \A k, l \in DOMAIN uses :
                  plan[row(uses[k])] = plan[row(uses[l])]
                    <=> uses[k].instance = uses[l].instance
    /\ ~ValidIdentities => status \in {"invalid_identity", "duplicate_identity"}

=============================================================================
