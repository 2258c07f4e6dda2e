---------------------------- MODULE MCPwmCompile ----------------------------
(***************************************************************************)
(* The problems PwmCompile is checked on.  The declarations of MCPwmConfig *)
(* have nothing to be allocated; the problems of MCPwmAllocator are given  *)
(* to solve as they are; and those of this module go all the way: a lamp   *)
(* and a drive with two outputs, for boards of each target.                *)
(***************************************************************************)
EXTENDS PwmCompile, MCPwmConfig, MCPwmAllocator

\* What the lamp asks for besides a frequency, a step and a pin.
Extras ==
  {Hertz(4, 3, 2), Hertz(1, 1, 0), Hertz(4, 2, 0),
   Step(1, 4), Bits(16), Timer(10),
   Only({"avr"}, Timer(10)),
   Only({"avr"}, Wave("fast")), Top("icr"),
   Only({"avr"}, Top("ocra")),
   Only({"esp32"}, Apb), Only({"esp32"}, Odd),
   Only({"esp32"}, OnPin(52)), OnPin(51)}

\* What a second such option may agree with or contradict.
Others ==
  {Hertz(4, 2, 0), Step(1, 4), Timer(10), Only({"esp32"}, Apb), Only({"avr"}, Top("ocra"))}

Lit(inst, use, list) ==
  [name |-> inst,
   items |-> <<Hertz(2, 1, 1),
               RequestItem(use, <<OnPin(51), Step(1, 2)>> \o list)>>]

Drive ==
  [name |-> 2,
   items |-> <<RequestItem(2, <<OnPin(53), Step(2, 4)>>),
               Hertz(2, 1, 1),
               RequestItem(1, <<OnPin(52), Step(1, 2)>>)>>]

Complete ==
  {<<Drive, Lit(1, 1, <<o, p>>)>> : o \in Extras, p \in Others}
    \cup {<<Lit(3, 1, <<o>>), Drive>> : o \in Extras}
    \cup {<<Drive, Lit(i, u, <<>>)>> : i \in 0 .. 2, u \in 0 .. 2}

LampPoint(inst) == For(<<inst, 1>>, 11, 51, R(1, 2))

\* A plain lamp, a finer one, one with everything, one for each other source.
Lamps(inst) ==
  LET plain(id, pref, freq) ==
        Offer(id, pref, 10, id, freq, <<LampPoint(inst)>>)
  IN  {plain(1, 0, R(2, 1)),
       [plain(2, 0, R(3, 2)) EXCEPT !.endpoints[1].step = R(1, 4)],
       [plain(3, 1, R(2, 1)) EXCEPT !.counter_bits = 16, !.waveform = "fast",
                                           !.source = "icr"],
       [plain(4, 1, R(2, 1)) EXCEPT !.source = "apb"],
       [plain(5, 2, R(2, 1)) EXCEPT !.source = "ocra"]}

Drives == [Both EXCEPT !.key = 6, !.configuration = 6]

Offers ==
  {<<ab[1], Drives, ab[2]>> :
     ab \in {p \in Lamps(1) \X Lamps(1) : p[1].key >= p[2].key}}
    \cup {<<Drives, a>> : a \in Lamps(3)}

MCPrograms == {<<>>} \cup Declarations \cup Complete
MCRequestLists == GivenRequests
MCCandidateLists == {<<>>} \cup GivenCandidates \cup Offers
MCResourceLists == GivenResources
MCReservationLists == GivenReservations

\* The combinations of a declaration and a model that are looked at: all
\* orders of the candidates on the free whole board, one order otherwise;
\* and options without a section on one target.
MCInit ==
  /\ \/ /\ instances = <<>> /\ candidates \in GivenCandidates
        /\ resident = "avr" /\ resources \in ResourceLists
        /\ reservations \in ReservationLists
        /\ ample \in Budgets
        /\ \/ resources = Board /\ reservations = <<>>
           \/ /\ Enumerated(candidates) /\ ample
              /\ resources = Board \/ reservations = <<>>
     \/ /\ \/ instances \in Triples /\ resident = "avr" /\ candidates = <<>>
           \/ /\ instances \in Declarations \ Triples /\ candidates = <<>>
              /\ resident \in Residents
           \/ /\ instances \in Complete /\ candidates \in Offers
              /\ resident \in Residents
        /\ resources = Board
        /\ reservations = <<>> /\ ample = TRUE
  /\ DeclareStart
  /\ Start

MCSpec == MCInit /\ [][CompileNext]_compileVars

=============================================================================
