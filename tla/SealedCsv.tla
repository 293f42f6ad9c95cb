------------------------------- MODULE SealedCsv -------------------------------
(***************************************************************************)
(* What is read out of a result.csv: the metrics that the normalizers of   *)
(* the two shipped kits extract, and the bounded series summary of a       *)
(* sealed one.  A table is its header names and its rows of cells; a cell  *)
(* is an integer, blank, or text that is no finite number.  Energy is      *)
(* counted in half units, so that the trapezoids stay integers.            *)
(***************************************************************************)
EXTENDS Integers, SequencesExt, AscendingOrder

CONSTANTS
  Blank,   \* an empty cell
  Junk,    \* a cell that is not a finite number
  Nothing  \* what is absent, or was refused

Abs(i) == IF i < 0 THEN -i ELSE i

\* Number(cell), which reads a blank cell as 0; only Junk is not finite.
Number(cell) == IF cell = Blank THEN 0 ELSE cell

\* headers.indexOf(name)
IndexOf(csv, name) == Min({i \in DOMAIN csv.headers : csv.headers[i] = name})

\* A row that ends before the column has no number there.
CellIn(csv, row, name) ==
  IF IndexOf(csv, name) \in DOMAIN row THEN row[IndexOf(csv, name)] ELSE Junk

HasColumn(csv, name) == name \in ToSet(csv.headers)

\* numeric, of every row: the column is there and all its cells are finite.
Numeric(csv, name) ==
  HasColumn(csv, name) /\ \A r \in DOMAIN csv.rows : CellIn(csv, csv.rows[r], name) # Junk

Column(csv, name) == [r \in DOMAIN csv.rows |-> Number(CellIn(csv, csv.rows[r], name))]

\* integrateEnergy, doubled: the trapezoid rule over consecutive rows.
Energy2(time, power) ==
  MapThenSumSet(LAMBDA r : (time[r] - time[r - 1]) * (power[r] + power[r - 1]),
                2 .. Len(time))

\* extractCoffeeMachineMetrics: no metric is invented for a target not reached.
NormalizeCoffee(csv, target) ==
  LET time  == Column(csv, "time")
      water == Column(csv, "waterTemperatureC")
      power == Column(csv, "heaterPowerW")
      at    == {r \in DOMAIN water : water[r] >= target}
      metrics ==
        [water_temperature_max |-> Max(ToSet(water)),
         heater_power_peak     |-> Max({Abs(power[r]) : r \in DOMAIN power}),
         heater_energy         |-> IF HasColumn(csv, "heaterEnergyJ")
                                     THEN 2 * Last(Column(csv, "heaterEnergyJ"))
                                     ELSE Energy2(time, power)]
      used == {"time", "waterTemperatureC", "heaterPowerW"}
                \cup ({"heaterEnergyJ"} \cap ToSet(csv.headers))
  IN  IF csv.rows # <<>> /\ \A name \in used : Numeric(csv, name)
        THEN IF at = {} THEN [metrics |-> metrics, warnings |-> <<"target not reached">>]
             ELSE [metrics |-> [id \in DOMAIN metrics \cup {"time_to_target_temperature"} |->
                                  IF id \in DOMAIN metrics THEN metrics[id] ELSE time[Min(at)]],
                   warnings |-> <<>>]
        ELSE Nothing

\* The normalizer of the linear ramp looks at its last row only.
NormalizeRamp(csv) ==
  IF csv.rows # <<>> /\ HasColumn(csv, "temperatureC")
     /\ CellIn(csv, Last(csv.rows), "temperatureC") # Junk
    THEN [metrics |-> [temperature_final |-> Number(CellIn(csv, Last(csv.rows), "temperatureC"))],
          warnings |-> <<>>]
    ELSE Nothing

-----------------------------------------------------------------------------
(* summarizeSealedNumericCsv                                               *)

\* The header and parseNumericDataRow: a rectangle of finite numbers.
Summarizable(csv) ==
  /\ csv.rows # <<>>
  /\ "" \notin ToSet(csv.headers) /\ IsInjective(csv.headers)
  /\ \A r \in DOMAIN csv.rows :
       Len(csv.rows[r]) = Len(csv.headers) /\ ToSet(csv.rows[r]) \cap {Blank, Junk} = {}

\* Math.round(n / d), for positive d.
Round(n, d) == (2 * n + d) \div (2 * d)

\* A plausible slip: the step is a count-th of the rows, not of their gaps.
SampleByCount(rows, max) ==
  LET count == Min({rows, max})
  IN  IF count = 1 THEN {rows - 1} ELSE {Round(i * (rows - 1), count) : i \in 0 .. count - 1}

SampleRowIndexes(rows, max) ==
  LET count == Min({rows, max})
  IN  IF count = 1 THEN {rows - 1} ELSE {Round(i * (rows - 1), count - 1) : i \in 0 .. count - 1}

\* Statistics over all rows; samples, in row order, of the selected ones.
Summary(csv, max) ==
  IF ~ Summarizable(csv) THEN Nothing
  ELSE [rows |-> Len(csv.rows),
        columns |-> [name \in ToSet(csv.headers) |->
           [minimum |-> Min(ToSet(Column(csv, name))), maximum |-> Max(ToSet(Column(csv, name))),
            final |-> Last(Column(csv, name))]],
        samples |-> LET selected == Ascending(SampleRowIndexes(Len(csv.rows), max))
                    IN  [i \in DOMAIN selected |->
                           [row |-> selected[i],
                            values |-> [name \in ToSet(csv.headers) |->
                                          Column(csv, name)[selected[i] + 1]]]]]

=============================================================================
