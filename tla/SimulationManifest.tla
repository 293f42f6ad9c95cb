-------------------------- MODULE SimulationManifest --------------------------
(***************************************************************************)
(* The manifest of a qualified selection: what the server publishes of a   *)
(* kit, a scenario and the engine, which every 2.1 request names by its    *)
(* digest and every 2.1 run carries.  Also the registry of kits it is      *)
(* built from, and the lowering of a manifest and explicit parameters to   *)
(* the script OpenModelica runs.  A SHA-256 digest is modelled by the      *)
(* content it is taken of, a quantity by its value: units are those of the *)
(* kit, and a quantity in another unit is one outside the bounds.          *)
(***************************************************************************)
EXTENDS SealedCsv

CONSTANTS
  Policy  \* the kit identities that SHIPPED_KIT_RUNTIME_POLICY qualifies,
          \* each with its engine

LOCAL Distinct(things, Key(_)) ==
  \A a, b \in things : Key(a) = Key(b) => a = b

-----------------------------------------------------------------------------
(* KitRegistry                                                             *)

Identity(kit) == <<kit.id, kit.version>>

\* runtimeCompatibilityPolicy: there is no qualification by default.
HasPolicy(kit) == Identity(kit) \in DOMAIN Policy

\* assertRuntimeCompatible: exact equality, no range of versions.
Compatible(kit, engine) == HasPolicy(kit) /\ Policy[Identity(kit)] = engine

\* validateKitContracts
ValidRegistry(kits) ==
  /\ Distinct(kits, LAMBDA kit : kit.id)
  /\ Distinct(kits, LAMBDA kit : kit.normalizer)
  /\ \A kit \in kits :
       HasPolicy(kit) /\ IsInjective([i \in DOMAIN kit.metrics |-> kit.metrics[i].id])

\* requireQualifiedKit: the exact version, or Nothing.
Qualified(kits, id, version) ==
  IF \E kit \in kits : Identity(kit) = <<id, version>>
    THEN CHOOSE kit \in kits : Identity(kit) = <<id, version>>
    ELSE Nothing

ScenarioOf(kit, id) ==
  IF \E s \in kit.scenarios : s.id = id THEN CHOOSE s \in kit.scenarios : s.id = id ELSE Nothing

\* resolveResultNormalizer: the code of exactly one kit of this release.
Resolvable(kits, normalizer) ==
  \E kit \in kits :
    kit.normalizer = normalizer /\ \A other \in kits : other.normalizer = normalizer => other = kit

\* The two shipped normalizers.
Normalize(normalizer, csv, scenario) ==
  IF normalizer = "coffee" THEN NormalizeCoffee(csv, scenario.target) ELSE NormalizeRamp(csv)

-----------------------------------------------------------------------------
(* buildManifest and parseUnsignedManifest                                 *)

Manifest(kit, scenario, engine) ==
  [model      |-> [id |-> kit.id, version |-> kit.version, source |-> kit.source],
   scenario   |-> scenario,
   schema     |-> kit.schema,
   parameters |-> kit.parameters,
   metrics    |-> kit.metrics,
   normalizer |-> kit.normalizer,
   engine     |-> engine]

\* parsePublicScenario
WellFormedScenario(s) == s.start >= 0 /\ s.stop > s.start /\ s.intervals >= 1

\* parseParameter
WellFormedParameter(p) == p.minimum <= p.maximum

\* parseUnsignedManifest
WellFormedManifest(m) ==
  /\ WellFormedScenario(m.scenario)
  /\ \A i \in DOMAIN m.parameters : WellFormedParameter(m.parameters[i])
  /\ IsInjective([i \in DOMAIN m.parameters |-> m.parameters[i].id])
  /\ IsInjective([i \in DOMAIN m.parameters |-> m.parameters[i].name])
  /\ m.metrics # <<>> /\ IsInjective([i \in DOMAIN m.metrics |-> m.metrics[i].id])

-----------------------------------------------------------------------------
(* Parameters and the lowering                                             *)

\* resolveAllParameters and resolveManifestParameters: every parameter, no
\* other, each inside its bounds.
Resolves(parameters, supplied) ==
  /\ DOMAIN supplied = {parameters[i].id : i \in DOMAIN parameters}
  /\ \A i \in DOMAIN parameters :
       LET p == parameters[i] IN supplied[p.id] \in p.minimum .. p.maximum

\* kit.parameters with the defaults the template is filled with.
Defaults(kit) ==
  [id \in {kit.parameters[i].id : i \in DOMAIN kit.parameters} |-> kit.defaults[id]]

\* convertToModelica
ConvertToModelica(value, conversion) == value * conversion.factor + conversion.offset

\* buildOmcScript: the model, the scenario and the overrides by Modelica name.
Lowering(m, quantities) ==
  [model |-> m.model, scenario |-> m.scenario,
   overrides |->
     [name \in {m.parameters[i].name : i \in DOMAIN m.parameters} |->
        LET p == CHOOSE p \in ToSet(m.parameters) : p.name = name
        IN  ConvertToModelica(quantities[p.id], p.conversion)]]

\* validateMetricDefinitions
ValidMetrics(definitions, metrics, requireRequired) ==
  /\ DOMAIN metrics \subseteq {definitions[i].id : i \in DOMAIN definitions}
  /\ requireRequired =>
       \A i \in DOMAIN definitions : definitions[i].required => definitions[i].id \in DOMAIN metrics

=============================================================================
