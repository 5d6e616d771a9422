---------------------------- MODULE MCStateSync ----------------------------
(***************************************************************************)
(* Small instances of StateSync: the commands operators send in each run.  *)
(***************************************************************************)
EXTENDS StateSync

CONSTANTS k1, k2, r1

\* Where nothing about values is asked: the value decides no other variable.
BesidesValue ==
    <<config, value_sequence, hold, nvs, roots, frames, toggles, pass, late>>

NoFields == [preset |-> Absent, kernel |-> Absent, activations |-> Absent,
             value |-> Absent, reset |-> FALSE]

KernelCommand(k) == [NoFields EXCEPT !.kernel = k]
RulesCommand(r) == [NoFields EXCEPT !.activations = r]
PresetCommand(k, r) == [NoFields EXCEPT !.preset = [kernel |-> k, activations |-> r]]
ResetCommand == [NoFields EXCEPT !.reset = TRUE]
ValueCommand == [NoFields EXCEPT !.value = 1]

\* Two kernels, so that two commands can differ under one sequence number.
KernelCommands == {KernelCommand(k1), KernelCommand(k2)}

\* Every kind of configuration field, with two contents where they matter.
ConfigCommands == KernelCommands \cup {PresetCommand(k1, r1), RulesCommand(r1)}

\* A preset followed by a kernel in one object: two saves of one handler.
FlashCommands ==
    {KernelCommand(k2), [PresetCommand(k1, r1) EXCEPT !.kernel = k2]}

ValueCommands == {ResetCommand, ValueCommand}

ResetCommands == {ResetCommand}

RulesCommands == {RulesCommand(r1)}
=============================================================================
