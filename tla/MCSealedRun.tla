------------------------------ MODULE MCSealedRun ------------------------------
(***************************************************************************)
(* Instance of SealedRun for TLC: the two kits that are shipped, cut down  *)
(* to one parameter each, a release that revises one and one that drops    *)
(* it, and tables on both sides of every rule of the two CSV readers.      *)
(***************************************************************************)
EXTENDS SealedRun

CONSTANTS omc, omcOther, b, x, no

Parameter(id, minimum, maximum, factor) ==
  [id |-> id, name |-> <<"modelica", id>>, minimum |-> minimum, maximum |-> maximum,
   conversion |-> [factor |-> factor, offset |-> 1]]

Scenario(id, target) ==
  [id |-> id, source |-> <<"scenario", id>>, start |-> 0, stop |-> 2, intervals |-> 2,
   target |-> target]

Metric(id, required) == [id |-> id, required |-> required]

Coffee(source, scenarios, maximum) ==
  [id |-> "coffee", version |-> 1, source |-> source, schema |-> <<"schema", source>>,
   scenarios |-> scenarios, parameters |-> <<Parameter("power", 1, maximum, 2)>>,
   defaults |-> [power |-> 1], normalizer |-> "coffee",
   metrics |-> <<Metric("water_temperature_max", TRUE), Metric("heater_power_peak", TRUE),
                 Metric("heater_energy", TRUE), Metric("time_to_target_temperature", FALSE)>>]

Ramp ==
  [id |-> "ramp", version |-> 1, source |-> "ramp.mo", schema |-> no,
   scenarios |-> {Scenario("nominal", 2)}, parameters |-> <<Parameter("rate", 1, 2, 1)>>,
   defaults |-> [rate |-> 1], normalizer |-> "ramp",
   metrics |-> <<Metric("temperature_final", TRUE)>>]

Nominal == Scenario("nominal", 2)
High    == Scenario("high", 9)

MCInstalled == {Coffee("coffee.mo", {Nominal, High}, 2), Ramp}
MCReleases ==
  {MCInstalled, {Coffee("revised.mo", {Nominal}, 1), Ramp}, {Ramp}}

MCPolicy == (<<"coffee", 1>> :> omc) @@ (<<"ramp", 1>> :> omc)
MCSupplied == {[power |-> 1], [power |-> 2], [rate |-> 1]}

CoffeeHeader == <<"time", "waterTemperatureC", "heaterPowerW">>

MCTables ==
  {[headers |-> CoffeeHeader, rows |-> <<<<0, 1, 5>>, <<1, 2, -7>>, <<2, 3, 5>>>>],
   [headers |-> CoffeeHeader, rows |-> <<<<0, 1, b>>, <<1, 1, 5>>>>],
   [headers |-> CoffeeHeader \o <<"heaterEnergyJ">>, rows |-> <<<<0, 1, 5, 0>>, <<1, 3, 5, x>>>>],
   [headers |-> <<"time", "temperatureC">>,
    rows |-> <<<<0, 1>>, <<1, 4>>, <<2, 2>>, <<3, 5>>, <<4, 3>>>>],
   [headers |-> <<"time", "temperatureC">>, rows |-> <<<<0, x>>, <<1, 4>>>>],
   [headers |-> <<"temperatureC">>, rows |-> <<<<3>>>>]}

=============================================================================
