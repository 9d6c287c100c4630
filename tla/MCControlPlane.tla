--------------------------- MODULE MCControlPlane ---------------------------
(* Small instances of RunJobQueue, with arbitrary clients, of
   RunWorkerSupervisor and of ConfigRegistry. *)
EXTENDS RunJobQueue, RunWorkerSupervisor, ConfigRegistry

Object(x, y) == [keys |-> [x |-> x, y |-> y]]
Leaf(v) == [leaf |-> v]

MCLabels ==
  {Missing, Leaf(0), Object(Leaf(1), Missing),
   Object(Object(Leaf(2), Missing), Leaf(2)), Object(Object(Missing, Leaf(3)), Missing)}

MCPaths == {<<>>} \cup (LET keys == {"x", "y"} IN (keys \X keys) \cup {<<k>> : k \in keys})

Format(accepts, produces) == [accepts |-> accepts, produces |-> produces]

Stage(plugin, io, requires, host) ==
  [plugin |-> plugin, io |-> io, requires |-> requires, host |-> host]

MCPipelines ==
  {<<Stage("gain", Missing, Missing, {"gpu"})>>,
   <<Stage("gain", Missing, {}, {}), Stage("gain", Format("8k", "8k"), {"cpu"}, {"cpu"})>>}

MCConfigs ==
  UNION {[name : {"a"}, parent : {Missing, "c"}, labels : MCLabels,
          pipeline : MCPipelines],
         [name : {"b"}, parent : {"a", "b"}, labels : MCLabels, pipeline : {Missing}],
         [name : {"c"}, parent : {"a", "b", "nobody"}, labels : MCLabels,
          pipeline : {Missing}]}

MCManifests ==
  [name : {"gain"}, io : {Missing, Format("16k", "16k"), Format("8k", Missing)},
   requires : {{}, {"gpu"}}]

VARIABLE subject   \* the component this behaviour is of; the others rest

MCInit ==
  /\ QueueInit /\ Init /\ RegistryInit
  /\ subject \in {"queue", "supervisor", "registry"}

MCNext ==
  \/ subject = "queue" /\ QueueNext /\ UNCHANGED <<vars, registryVars, subject>>
  \/ subject = "supervisor" /\ Next /\ UNCHANGED <<queueVars, registryVars, subject>>
  \/ subject = "registry" /\ RegistryNext /\ UNCHANGED <<queueVars, vars, subject>>

MCSpec ==
  /\ MCInit /\ [][MCNext]_<<queueVars, vars, registryVars, subject>>
  /\ subject = "supervisor" => \A n \in Threads : WF_vars(LoopStep(n))

=============================================================================
