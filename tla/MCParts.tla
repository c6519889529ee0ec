-------------------------------- MODULE MCParts --------------------------------
\* Instances of four components that share no state.  A behaviour is one of one
\* of them: part says which, the others stay as they begin.
EXTENDS Settings, ContextCompressor, HybridSearch, UnitOfWork

VARIABLE part

Pair(max, keep) == [max |-> max, keep |-> keep]
MCLimits == {Pair(4, 2), Pair(3, 1), Pair(2, 0), Pair(3, -1), Pair(4, -2), Pair(-1, -2),
              Pair(2, 2)}

Init ==
  /\ part \in {"settings", "compressor", "search", "unit"}
  /\ SettingsInit
  /\ IF part = "compressor" THEN CompressorInit
     ELSE limits = Pair(4, 2) /\ history = <<>> /\ said = 0
  /\ SearchInit
  /\ UnitInit

Next ==
  /\ \/ part = "settings" /\ SettingsNext
     \/ part # "settings" /\ UNCHANGED settings_vars
  /\ \/ part = "compressor" /\ CompressorNext
     \/ part # "compressor" /\ UNCHANGED compressor_vars
  /\ \/ part = "search" /\ SearchNext
     \/ part # "search" /\ UNCHANGED search_vars
  /\ \/ part = "unit" /\ UnitNext
     \/ part # "unit" /\ UNCHANGED unit_vars
  /\ UNCHANGED part

Spec == Init /\ [][Next]_<<part, settings_vars, compressor_vars, search_vars, unit_vars>>
================================================================================
