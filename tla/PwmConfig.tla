----------------------------- MODULE PwmConfig -----------------------------
(***************************************************************************)
(* pwm::requests of pwm/requirements.hpp:                                  *)
(* every PWM request of every instance becomes a key and a Config, by      *)
(* applying the options of the instance and of the request one by one.     *)
(*                                                                         *)
(* Names are numbers; 0 is one that identifier() refuses.  An option is a  *)
(* record of its kind, its template arguments and the targets of the For   *)
(* sections around it.                                                     *)
(***************************************************************************)
EXTENDS Sequences, SequencesExt, PwmValues

CONSTANTS
  Programs,  \* the sequences of instances declared
  Residents  \* the targets that are built for

Targets == {"avr", "atmega328p", "esp32"}

Option ==
  [kind : {"unknown", "apb_clock"}, sections : SUBSET Targets]
    \cup [kind : {"frequency"}, sections : SUBSET Targets, supported : BOOLEAN,
          rate : Ratio, ppm : Nat]
    \cup [kind : {"duty_step"}, sections : SUBSET Targets, step : Ratio]
    \cup [kind : {"pin"}, sections : SUBSET Targets, pin : Nat]
    \cup [kind : {"counter_bits"}, sections : SUBSET Targets, bits : Nat]
    \cup [kind : {"require_timer"}, sections : SUBSET Targets, timer : Nat]
    \cup [kind : {"avr_waveform"}, sections : SUBSET Targets,
          waveform : {"fast", "phase_correct"}]
    \cup [kind : {"avr_source"}, sections : SUBSET Targets,
          source : {"icr", "built_in", "ocra"}]

\* A request of an instance with all options that are for it.
Use == [instance : Nat, local : Nat, options : Seq(Option)]

VARIABLES
  resident,   \* template parameter Resident
  instances,  \* template parameter Instances
  declaring,  \* the part of requests that runs next
  config,     \* config, of the request that is being evaluated
  todo,       \* its options that have not been applied yet
  values      \* values

declaration == <<resident, instances, declaring, config, todo, values>>

-----------------------------------------------------------------------------
\* merge_constraint(c, c.field, unset, value)
Merged(c, field, unset, value) ==
  [(IF c[field] \notin {unset, value} THEN Failed(c, "conflict") ELSE c)
     EXCEPT ![field] = value]

\* matches(resident, section)
Matches(target, section) ==
  target = section \/ (target = "atmega328p" /\ section = "avr")

\* Every For around the option is for the target.
Active(target, option) == \A section \in option.sections : Matches(target, section)

-----------------------------------------------------------------------------
\* What requests enumerates.

IsPwmRequest(item) == item.kind = "request"

OptionsOf(instance) ==
  LET IsOption(item) == ~IsPwmRequest(item)
  IN  SelectSeq(instance.items, IsOption)

\* The uses of one instance; its own options are visited before a use's.
UsesOf(instance) ==
  LET uses == SelectSeq(instance.items, IsPwmRequest)
  IN  [k \in 1 .. Len(uses) |->
         [instance |-> instance.name, local |-> uses[k].name,
          options |-> OptionsOf(instance) \o uses[k].options]]

DeclaredBy(program) ==
  FlattenSeq([i \in 1 .. Len(program) |-> UsesOf(program[i])])

ASSUME DeclarationAssumption ==
  Residents \subseteq Targets /\ \A p \in Programs : DeclaredBy(p) \in Seq(Use)

AllUses == DeclaredBy(instances)

Key(use) == <<use.instance, use.local>>

\* As ValidIdentities, comparing each request with the one before only.
ValidIdentitiesAdjacent ==
  \A i \in 1 .. Len(AllUses) :
    /\ AllUses[i].instance # 0 /\ AllUses[i].local # 0
    /\ \A j \in {i - 1} \ {0} : Key(AllUses[i]) # Key(AllUses[j])

ValidIdentities ==
  \A i \in 1 .. Len(AllUses) :
    /\ AllUses[i].instance # 0 /\ AllUses[i].local # 0
    /\ \A j \in 1 .. (i - 1) : Key(AllUses[i]) # Key(AllUses[j])

DeclareStart ==
  /\ declaring = "identities"
  /\ config = NoConfig
  /\ todo = <<>>
  /\ values = <<>>

DeclareInit == resident \in Residents /\ instances \in Programs /\ DeclareStart

\* Without valid identities the requests are returned with empty Configs.
CheckNames ==
  /\ declaring = "identities"
  /\ \/ /\ ValidIdentities
        /\ declaring' = "next"
        /\ UNCHANGED values
     \/ /\ ~ValidIdentities
        /\ values' = [i \in 1 .. Len(AllUses) |->
                        [key |-> Key(AllUses[i]), config |-> NoConfig]]
        /\ declaring' = "done"
  /\ UNCHANGED <<resident, instances, config, todo>>

\* request() is called for the next use.
Begin ==
  /\ declaring = "next"
  /\ Len(values) < Len(AllUses)
  /\ config' = NoConfig
  /\ todo' = AllUses[Len(values) + 1].options
  /\ declaring' = "apply"
  /\ UNCHANGED <<resident, instances, values>>

\* requests() returns.
Return ==
  /\ declaring = "next"
  /\ Len(values) = Len(AllUses)
  /\ declaring' = "done"
  /\ UNCHANGED <<resident, instances, config, todo, values>>

-----------------------------------------------------------------------------
\* Apply<Resident, Option>::run(config), one action per specialisation.

Visit ==
  /\ declaring = "apply"
  /\ todo # <<>>
  /\ todo' = Tail(todo)
  /\ UNCHANGED <<resident, instances, declaring, values>>

ApplyInactive ==
  /\ Visit
  /\ ~Active(resident, Head(todo))
  /\ UNCHANGED config

Applying(kind) == Visit /\ Active(resident, Head(todo)) /\ Head(todo).kind = kind

Refuse(error) == config' = Failed(config, error)

Merge(field, unset, value) == config' = Merged(config, field, unset, value)

\* The primary template.
ApplyUnknown == Applying("unknown") /\ Refuse("unsupported_option")

ApplyFrequency ==
  /\ Applying("frequency")
  /\ LET it == Head(todo)
         possible == Valid(it.rate) /\ it.ppm <= Million
         window == Intersect(config.frequency, Around(it.rate, it.ppm))
         narrowed == [config EXCEPT !.frequency = window]
     IN  \/ ~it.supported /\ Refuse("unsupported_option")
         \/ it.supported /\ ~possible /\ Refuse("invalid_value")
         \/ /\ it.supported /\ possible
            /\ config' = IF Empty(window) THEN Failed(narrowed, "conflict")
                                          ELSE narrowed

ApplyDutyStepAtMost ==
  /\ Applying("duty_step")
  /\ LET raw == Head(todo).step
     IN  \/ ~FineStep(raw) /\ Refuse("invalid_value")
         \/ /\ FineStep(raw)
            /\ IF config.step.n = 0 \/ AtMost(raw, config.step)
               THEN config' = [config EXCEPT !.step = Normalized(raw)]
               ELSE UNCHANGED config

ApplyPin ==
  /\ Applying("pin")
  /\ LET pin == Head(todo).pin
     IN  \/ pin = 0 /\ Refuse("invalid_value")
         \/ pin # 0 /\ Merge("pin", 0, pin)

ApplyCounterBitsAtLeast ==
  /\ Applying("counter_bits")
  /\ LET bits == Head(todo).bits
     IN  \/ bits = 0 /\ Refuse("invalid_value")
         \/ /\ bits > config.counter_bits_at_least
            /\ config' = [config EXCEPT !.counter_bits_at_least = bits]
         \/ bits # 0 /\ bits <= config.counter_bits_at_least /\ UNCHANGED config

\* Timer 0 is one without a TimerIdentity.
ApplyRequireTimer ==
  /\ Applying("require_timer")
  /\ LET timer == Head(todo).timer
         known == resident = "atmega328p" /\ timer # 0
     IN  \/ ~known /\ Refuse("unsupported_option")
         \/ known /\ Merge("required_timer", 0, timer)

ApplyAvrWaveform ==
  /\ Applying("avr_waveform")
  /\ \/ ~Matches(resident, "avr") /\ Refuse("unsupported_option")
     \/ Matches(resident, "avr") /\ Merge("waveform", "any", Head(todo).waveform)

ApplyAvrSource ==
  /\ Applying("avr_source")
  /\ \/ ~Matches(resident, "avr") /\ Refuse("unsupported_option")
     \/ Matches(resident, "avr") /\ Merge("source", "any", Head(todo).source)

ApplyApbClock ==
  /\ Applying("apb_clock")
  /\ \/ resident # "esp32" /\ Refuse("unsupported_option")
     \/ resident = "esp32" /\ Merge("source", "any", "apb")

Apply ==
  \/ ApplyInactive \/ ApplyUnknown \/ ApplyFrequency \/ ApplyDutyStepAtMost
  \/ ApplyPin \/ ApplyCounterBitsAtLeast \/ ApplyRequireTimer
  \/ ApplyAvrWaveform \/ ApplyAvrSource \/ ApplyApbClock

\* The end of request(): what has to be given was given.
Finish ==
  /\ declaring = "apply"
  /\ todo = <<>>
  /\ LET complete == /\ WindowValid(config.frequency)
                     /\ Valid(config.step)
                     /\ config.pin # 0
         final == IF complete THEN config ELSE Failed(config, "invalid_value")
     IN  values' = Append(values, [key |-> Key(AllUses[Len(values) + 1]),
                                   config |-> final])
  /\ declaring' = "next"
  /\ UNCHANGED <<resident, instances, config, todo>>

Declare == CheckNames \/ Begin \/ Apply \/ Finish \/ Return

-----------------------------------------------------------------------------
(***************************************************************************)
(* The reference: what a set of options says, in any order.                *)
(***************************************************************************)
Unsupported(target, o) ==
  \/ o.kind = "unknown"
  \/ o.kind = "frequency" /\ ~o.supported
  \/ o.kind = "require_timer" /\ (target # "atmega328p" \/ o.timer = 0)
  \/ o.kind \in {"avr_waveform", "avr_source"} /\ target = "esp32"
  \/ o.kind = "apb_clock" /\ target # "esp32"

IllFormed(o) ==
  \/ o.kind = "frequency" /\ o.supported /\ ~(Valid(o.rate) /\ o.ppm <= Million)
  \/ o.kind = "duty_step" /\ ~(Valid(o.step) /\ o.step.n <= o.step.d)
  \/ o.kind = "pin" /\ o.pin = 0
  \/ o.kind = "counter_bits" /\ o.bits = 0

\* The options that say something; the operators below are about such.
Sound(target, options) == {o \in options : ~Unsupported(target, o) /\ ~IllFormed(o)}

Given(kind, sound) == {o \in sound : o.kind = kind}

LowerOf(o) == [n |-> o.rate.n * (Million - o.ppm), d |-> o.rate.d]
UpperOf(o) == [n |-> o.rate.n * (Million + o.ppm), d |-> o.rate.d]

PinsOf(sound) == {o.pin : o \in Given("pin", sound)}
TimersOf(sound) == {o.timer : o \in Given("require_timer", sound)}
WaveformsOf(sound) == {o.waveform : o \in Given("avr_waveform", sound)}
SourcesOf(sound) ==
  {o.source : o \in Given("avr_source", sound)}
    \cup {"apb" : o \in Given("apb_clock", sound)}

Differ(named) == \E v, w \in named : v # w

\* Two of the options cannot both be met.
Contradictory(sound) ==
  \/ \E o, p \in Given("frequency", sound) : ~AtMost(LowerOf(o), UpperOf(p))
  \/ Differ(PinsOf(sound)) \/ Differ(TimersOf(sound))
  \/ Differ(WaveformsOf(sound)) \/ Differ(SourcesOf(sound))

\* Something every request must have is not among the options.
Incomplete(sound) ==
  \E kind \in {"frequency", "duty_step", "pin"} : Given(kind, sound) = {}

\* The worst there is to say about the options.
ErrorOf(target, options, missing) ==
  IF Contradictory(Sound(target, options)) THEN "conflict"
  ELSE IF \E o \in options : Unsupported(target, o) THEN "unsupported_option"
  ELSE IF missing \/ \E o \in options : IllFormed(o) THEN "invalid_value"
  ELSE "none"

InLowestTerms(q) == q.d # 0 /\ \A k \in 2 .. q.d : ~Divides(k, q)

\* q is the greatest, or the least, of the fractions, written canonically.
IsGreatest(q, fractions) ==
  /\ InLowestTerms(q)
  /\ \A f \in fractions : AtMost(f, q)
  /\ \E f \in fractions : SameFraction(f, q)

IsLeast(q, fractions) ==
  /\ InLowestTerms(q)
  /\ \A f \in fractions : AtMost(q, f)
  /\ \E f \in fractions : SameFraction(f, q)

OneOf(value, given, unset) == IF given = {} THEN value = unset ELSE value \in given

\* c holds what the options say, and nothing else.
Tells(c, sound) ==
  LET rates == Given("frequency", sound)
      steps == {o.step : o \in Given("duty_step", sound)}
      bits == {o.bits : o \in Given("counter_bits", sound)}
  IN  /\ IF rates = {}
         THEN c.frequency = Unspecified
         ELSE /\ c.frequency.specified
              /\ IsGreatest(c.frequency.lower, {LowerOf(o) : o \in rates})
              /\ IsLeast(c.frequency.upper, {UpperOf(o) : o \in rates})
      /\ IF steps = {} THEN c.step = NoConfig.step ELSE IsLeast(c.step, steps)
      /\ OneOf(c.counter_bits_at_least, bits, 0)
      /\ \A b \in bits : b <= c.counter_bits_at_least
      /\ OneOf(c.pin, PinsOf(sound), 0)
      /\ OneOf(c.required_timer, TimersOf(sound), 0)
      /\ OneOf(c.waveform, WaveformsOf(sound), "any")
      /\ OneOf(c.source, SourcesOf(sound), "any")

\* The active ones of the first options.
ActiveOnes(target, options, count) ==
  {options[i] : i \in {j \in 1 .. count : Active(target, options[j])}}

DeclareTypeOK ==
  /\ resident \in Targets
  /\ declaring \in {"identities", "next", "apply", "done"}
  /\ config \in Config
  /\ todo \in Seq(Option)
  /\ values \in Seq([key : Nat \X Nat, config : Config])
  /\ Len(values) <= Len(AllUses)

\* Between two options the Config tells those that have been applied.
TellsApplied ==
  declaring = "apply" =>
    /\ Len(values) < Len(AllUses)
    /\ LET options == AllUses[Len(values) + 1].options
           count == Len(options) - Len(todo)
           applied == ActiveOnes(resident, options, count)
       IN  /\ count >= 0
           /\ \A i \in DOMAIN todo : todo[i] = options[count + i]
           /\ Tells(config, Sound(resident, applied))
           /\ config.error = ErrorOf(resident, applied, FALSE)

Trusted ==
  LET keys == {Key(AllUses[k]) : k \in 1 .. Len(AllUses)}
  IN  /\ Cardinality(keys) = Len(AllUses)
      /\ \A key \in keys : 0 \notin {key[1], key[2]}

\* One answer for each declared request, in order and under its key; none is
\* evaluated unless all keys are well named and differ.
RequestsAreDeclared ==
  /\ \A k \in DOMAIN values : values[k].key = Key(AllUses[k])
  /\ declaring = "identities" => values = <<>>
  /\ declaring \in {"next", "apply"} => Trusted
  /\ declaring = "done" =>
       /\ Len(values) = Len(AllUses)
       /\ ~Trusted => \A k \in DOMAIN values : values[k].config = NoConfig

DeclareInv == DeclareTypeOK /\ TellsApplied /\ RequestsAreDeclared

(***************************************************************************)
(* A request's result is that of the set of its active options, its own    *)
(* and its instance's, in whatever order they come.  The error is the      *)
(* worst of theirs, by a precedence that does not depend on their order,   *)
(* as the comment in Config::fail promises, nor on other targets' options. *)
(* The Config is what they say together: the intersection of all windows,  *)
(* the least step, the greatest width, in lowest terms, so that equal      *)
(* Configs compare equal whichever clause they come from; and a pin,       *)
(* timer, waveform and source that were named.  If two different ones were *)
(* named, the error is a conflict and the code keeps the last one applied, *)
(* which depends on the order; the formula only says it is one of them.    *)
(***************************************************************************)
ConfigsTellTheirSets ==
  declaring # "identities" /\ Trusted =>
    \A k \in DOMAIN values :
      LET options == AllUses[k].options
          given == ActiveOnes(resident, options, Len(options))
          sound == Sound(resident, given)
      IN  /\ values[k].config.error = ErrorOf(resident, given, Incomplete(sound))
          /\ Tells(values[k].config, sound)

=============================================================================
