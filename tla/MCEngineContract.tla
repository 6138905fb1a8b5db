-------------------------- MODULE MCEngineContract --------------------------
(***************************************************************************)
(* Packets on either side of every difference routing or hashing may make, *)
(* and configurations on either side of every requirement.                 *)
(***************************************************************************)
EXTENDS EngineContract

Packet(class, urgency) == [class |-> class, urgency |-> urgency, rest |-> "readings"]

MCContents ==
  {Packet("ROOT_CAUSE", "ELEVATED"),
   Packet("ROOT_CAUSE", "URGENT"), Packet("ENERGY_ANALYSIS", "URGENT")}

Config(temperature, top_p, prompt, model) ==
  [temperature |-> temperature, top_p |-> top_p, prompt |-> prompt, model |-> model]

MCConfigs ==
  {Config(0, 100, <<"v">>, <<"v">>), Config(0, 100, <<"v">>, <<"v", "v">>),
   Config(0, 100, <<"v", "v">>, <<"v">>), Config(0, 100, <<"v", Delimiter, "v">>, <<"v">>),
   Config(0, 100, <<"v">>, <<"v", Delimiter, "v">>), Config(70, 100, <<"v">>, <<"v">>),
   Config(0, 90, <<"v">>, <<"v">>), Config(0, 100, <<Delimiter>>, <<"v">>),
   Config(0, 100, <<"v">>, NoVersion)}

=============================================================================
