--------------------------- MODULE ConfigRegistry ---------------------------
(***************************************************************************)
(* RegistryService, of one request: the manifests and configs of the       *)
(* request are registered, and the config it names is resolved through its *)
(* parents, validated against the manifests and completed with their       *)
(* defaults.  Of a config there are its parent, its labels, free-form JSON *)
(* that stands for everything that is merged key by key, and its pipeline, *)
(* a list, which is replaced as a whole; a stage's formats are one key.    *)
(***************************************************************************)
EXTENDS Integers, Sequences, FiniteSets
LOCAL INSTANCE SequencesExt

CONSTANTS
  ConfigNames, Plugins,
  Missing,       \* for what is not there
  RawConfigs,    \* [name, parent, labels, pipeline]
  RawManifests,  \* of processors: [name, io, requires]
  LabelPaths,    \* the places of labels, as sequences of keys
  MaxManifests, MaxConfigs   \* bounds

VARIABLES
  manifests,   \* _manifests, by plugin
  configs,     \* _configs, by name
  outcome,     \* of resolve_config: what it was asked, and its answer
  registered   \* how many manifests and configs have been registered

registryVars == <<manifests, configs, outcome, registered>>

RegistryInit ==
  /\ manifests = [p \in Plugins |-> Missing]
  /\ configs = [n \in ConfigNames |-> Missing]
  /\ outcome = [name |-> Missing]
  /\ registered = [manifests |-> 0, configs |-> 0]

(* A manifest or config of the same name is replaced. *)
RegisterManifest(manifest) ==
  /\ outcome.name = Missing
  /\ registered.configs = 0 /\ registered.manifests < MaxManifests
  /\ manifests' = [manifests EXCEPT ![manifest.name] = manifest]
  /\ registered' = [registered EXCEPT !.manifests = @ + 1]
  /\ UNCHANGED <<configs, outcome>>

RegisterConfig(raw) ==
  /\ outcome.name = Missing /\ registered.configs < MaxConfigs
  /\ configs' = [configs EXCEPT ![raw.name] = raw]
  /\ registered' = [registered EXCEPT !.configs = @ + 1]
  /\ UNCHANGED <<manifests, outcome>>

-----------------------------------------------------------------------------
(* Overlays. A JSON value is Missing, a leaf or an object: [keys]. *)

IsObject(value) == value # Missing /\ "keys" \in DOMAIN value

(* Faulty variant: an object of the overlay replaces that of the base. *)
ShallowMerge(base, overlay) == IF overlay = Missing THEN base ELSE overlay

RECURSIVE DeepMerge(_, _)
DeepMerge(base, overlay) ==
  CASE overlay = Missing -> base
    [] IsObject(base) /\ IsObject(overlay) ->
         [keys |-> [k \in DOMAIN base.keys |->
                      DeepMerge(base.keys[k], overlay.keys[k])]]
    [] OTHER -> overlay

MergeConfigs(base, raw) ==
  [raw EXCEPT !.labels = DeepMerge(base.labels, @),
              !.pipeline = IF @ = Missing THEN base.pipeline ELSE @]

Failure(alias) == [error |-> alias]
Failed(result) == "error" \in DOMAIN result

Registered(name) == name \in ConfigNames /\ configs[name] # Missing

(* Faulty variant: a parent's own parent is not looked at. *)
OneLevel(name, seen) ==
  IF ~Registered(name) THEN Failure("unknown")
  ELSE LET raw == configs[name]
       IN  CASE raw.parent = Missing -> raw
             [] raw.parent = name -> Failure("cyclic")
             [] OTHER -> IF Registered(raw.parent)
                           THEN MergeConfigs(configs[raw.parent], raw)
                           ELSE Failure("unknown")

RECURSIVE ResolveRaw(_, _)
ResolveRaw(name, seen) ==
  IF name \in seen THEN Failure("cyclic")
  ELSE IF ~Registered(name) THEN Failure("unknown")
  ELSE LET raw == configs[name]
       IN  IF raw.parent = Missing THEN raw
           ELSE LET base == ResolveRaw(raw.parent, seen \cup {name})
                IN  IF Failed(base) THEN base ELSE MergeConfigs(base, raw)

-----------------------------------------------------------------------------
(* Validation, in the order of the code; the first failure is the answer. *)

Manifest(stage) == manifests[stage.plugin]

(* stage.io or manifest.io *)
EffectiveIo(stage) == IF stage.io # Missing THEN stage.io ELSE Manifest(stage).io

(* Faulty variant: the capabilities the config asks for are enough. *)
StatedRequires(stage) == IF stage.requires = Missing THEN {} ELSE stage.requires

(* An empty list asks for what the manifest requires, like a missing one. *)
EffectiveRequires(stage) ==
  IF stage.requires \in {Missing, {}} THEN Manifest(stage).requires
  ELSE stage.requires

Mismatch(left, right) ==
  /\ left # Missing /\ right # Missing
  /\ left.produces # Missing /\ right.accepts # Missing
  /\ left.produces # right.accepts

StageFailure(stage) ==
  CASE Manifest(stage) = Missing -> "unknown plugin"
    [] OTHER -> IF EffectiveRequires(stage) \subseteq stage.host THEN "none"
                ELSE "missing capability"

ValidatePipeline(pipeline) ==
  LET failing == {k \in DOMAIN pipeline : StageFailure(pipeline[k]) # "none"}
      first == CHOOSE k \in failing : \A j \in failing : k <= j
  IN  CASE failing # {} -> StageFailure(pipeline[first])
        [] OTHER ->
             IF \E k \in 1..(Len(pipeline) - 1) :
                  Mismatch(EffectiveIo(pipeline[k]), EffectiveIo(pipeline[k + 1]))
               THEN "io mismatch" ELSE "none"

(* What a stage leaves open is the manifest's, unless that is empty. *)
MaterializeStage(stage) ==
  [stage EXCEPT
     !.io = IF @ = Missing THEN Manifest(stage).io ELSE @,
     !.requires = IF @ = Missing /\ Manifest(stage).requires # {}
                    THEN Manifest(stage).requires ELSE @]

Materialize(config) ==
  [config EXCEPT !.pipeline = [k \in DOMAIN @ |-> MaterializeStage(@[k])]]

Resolved(name) ==
  LET raw == ResolveRaw(name, {})
  IN  IF Failed(raw) THEN raw
      ELSE IF raw.pipeline = Missing THEN Failure("invalid")
      ELSE IF ValidatePipeline(raw.pipeline) # "none"
             THEN Failure(ValidatePipeline(raw.pipeline))
      ELSE Materialize(raw)

ResolveConfig(name) ==
  /\ outcome.name = Missing
  /\ outcome' = [name |-> name, result |-> Resolved(name)]
  /\ UNCHANGED <<manifests, configs, registered>>

RegistryNext ==
  \/ \E manifest \in RawManifests : RegisterManifest(manifest)
  \/ \E raw \in RawConfigs : RegisterConfig(raw)
  \/ \E name \in ConfigNames : ResolveConfig(name)

RegistrySpec == RegistryInit /\ [][RegistryNext]_registryVars

-----------------------------------------------------------------------------
(* Properties. *)

Answered == outcome.name # Missing
Accepted == Answered /\ ~Failed(outcome.result)

(* The parents of a config, its own first, as far as they lead: by closing the
   relation between a config and its parent, not by following it. *)
Known == {n \in ConfigNames : Registered(n)}
Ancestors(n) ==
  LET ParentsOf(S) == {configs[m].parent : m \in S \cap Known} \ {Missing}
      Up[k \in 0..Cardinality(ConfigNames)] ==
        IF k = 0 THEN ParentsOf({n}) ELSE Up[k - 1] \cup ParentsOf(Up[k - 1])
  IN  Up[Cardinality(ConfigNames)]

(* resolve_config ends for every set of configs, and refuses exactly those whose
   parents come to a config that is its own ancestor, or to none at all. *)
ParentsAreFollowed ==
  Answered =>
    LET chain == {outcome.name} \cup Ancestors(outcome.name)
        failed(alias) == outcome.result = Failure(alias)
    IN  /\ failed("cyclic") <=> \E n \in chain : n \in Ancestors(n)
        /\ failed("unknown") <=> ~(chain \subseteq Known)

(* How far above the config that was asked for an ancestor is. *)
Distance(n) == Cardinality({outcome.name} \cup Ancestors(outcome.name))
                 - Cardinality({n} \cup Ancestors(n))

At(value, path) ==
  FoldLeft(LAMBDA v, k : IF IsObject(v) THEN v.keys[k] ELSE Missing, value, path)

IsLeaf(value) == value # Missing /\ ~IsObject(value)

(* deep_merge: a leaf of the labels of an accepted config is there because one of
   its overlays has it and none nearer to the config has anything else in its
   place: a leaf there or above, or an object there. *)
NearestOverlayWins ==
  Accepted =>
    LET chain == {outcome.name} \cup Ancestors(outcome.name)
        Labels(n, path) == At(configs[n].labels, path)
        Hides(n, path) == \/ \E up \in Prefixes(path) : IsLeaf(Labels(n, up))
                          \/ IsObject(Labels(n, path))
        Nearer(n) == {m \in chain : Distance(m) < Distance(n)}
    IN  \A path \in LabelPaths :
          LET visible == {Labels(n, path) : n \in {n \in chain :
                            /\ IsLeaf(Labels(n, path))
                            /\ \A m \in Nearer(n) : ~Hides(m, path)}}
              result == At(outcome.result.labels, path)
          IN  visible = IF IsLeaf(result) THEN {result} ELSE {}

(* A config that is pinned to a run says itself what it was accepted by: its
   stages have the capabilities they and their plugins require, and neighbours
   that both state their formats agree, without another look at the manifests. *)
ResolvedStandsAlone ==
  Accepted =>
    LET pipeline == outcome.result.pipeline
    IN  \A k \in DOMAIN pipeline :
          /\ pipeline[k].requires # Missing =>
               pipeline[k].requires \subseteq pipeline[k].host
          /\ Manifest(pipeline[k]).requires \ pipeline[k].host # {} =>
               pipeline[k].requires \notin {Missing, {}}
          /\ k < Len(pipeline) => ~Mismatch(pipeline[k].io, pipeline[k + 1].io)

(* resolve_config: which configs it refuses, what it makes of overlays, and what
   it pins to the run. *)
ResolvedConfigIsRight ==
  /\ ParentsAreFollowed
  /\ NearestOverlayWins
  /\ ResolvedStandsAlone

=============================================================================
