--------------------------- MODULE MCControlService ---------------------------
EXTENDS ControlService, TLC

Settings(m, many, operTimeout) ==
  [ctlModel |-> m, many |-> many, sboTimeout |-> TRUE, operTimeout |-> operTimeout]

EnhancedConfigs == {Settings("sboEnhanced", TRUE, TRUE)}
MixedConfigs == EnhancedConfigs \cup {Settings("sboNormal", FALSE, FALSE)}

Symmetry == Permutations(Conns) \cup Permutations(Cmds)
=============================================================================
