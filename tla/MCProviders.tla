---------------------------- MODULE MCProviders -----------------------------
(* TLC instances of Providers: everything unset, which means gRPC; two variables  *)
(* set to '', which hashes alike and means something else; and the memory exporter. *)
EXTENDS Providers, TLC

UnsetConfig ==
  [exporter |-> "unset", protocol |-> "unset", simple |-> FALSE, batch |-> "unset",
   transport |-> TRUE]

BlankConfig == [UnsetConfig EXCEPT !.exporter = "blank", !.batch = "blank"]

MemoryConfig == [UnsetConfig EXCEPT !.exporter = "memory"]

MCConfigs == {UnsetConfig, BlankConfig, MemoryConfig}

MCStartEnvs == {[config |-> UnsetConfig, disabled |-> FALSE, capture |-> FALSE]}

PidSymmetry == Permutations(Pids)
=============================================================================
