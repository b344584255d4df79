--------------------------------- MODULE Device ---------------------------------
(***************************************************************************)
(* Where the model runs: on the graphics card, wholly or in part, or on    *)
(* the processor; the setting an administrator may change; and which of    *)
(* the models on disk it is.  Memory is in MiB; a layer count of Unset      *)
(* leaves the number of layers to the program.                             *)
(***************************************************************************)
EXTENDS Integers

CONSTANTS Reserve,    \* kept free on the card
          Compiled,   \* the program was built for the card
          MaxLayers   \* the most an administrator may ask for

Unset     == 0 - 1
AllLayers == 1000000
Layers    == 32        \* how many a model is taken to have
NoCard    == 0 - 1

Preferences == {"auto", "gpu", "cpu"}

(* What the engine is told, and whether the administrator is told that it   *)
(* is not what was asked for.                                              *)
OnCpu(fellBack) == [active |-> "cpu", layers |-> 0, fellBack |-> fellBack]
OnGpu(layers)   == [active |-> "gpu", layers |-> layers, fellBack |-> FALSE]

Usable(free) == IF free > Reserve THEN free - Reserve ELSE 0

(* As many layers as fit, none when less than a third of the model does.    *)
Offloaded(size, usable) ==
  IF size <= usable THEN AllLayers
  ELSE IF size <= 3 * usable THEN (Layers * usable) \div size
  ELSE 0

(* device::resolve *)
Resolve(set, free, size) ==
  LET usable == IF Compiled /\ free # NoCard THEN Usable(free) ELSE 0
      layers == IF set.layers = Unset THEN Offloaded(size, usable) ELSE set.layers
  IN  IF set.preference = "cpu" \/ set.layers = 0 THEN OnCpu(FALSE)
      ELSE IF usable = 0 \/ layers = 0 THEN OnCpu(set.preference = "gpu")
      ELSE OnGpu(layers)

-----------------------------------------------------------------------------
(* set_device: what is wrong of a request is found item by item, and what   *)
(* was right before it is kept.  An item is a set, empty where it is not    *)
(* given; one that is not given changes nothing.                           *)
WithPreference(set, asked) ==
  [set EXCEPT !.preference = IF asked.preference = {} THEN @ ELSE CHOOSE p \in asked.preference : TRUE]

WithLayers(set, asked) == [set EXCEPT !.layers = IF asked.layers = {} THEN @ ELSE CHOOSE n \in asked.layers : TRUE]

SetDevice(set, asked) ==
  IF ~(asked.preference \subseteq Preferences) THEN set
  ELSE IF ~(asked.layers \subseteq 0 .. MaxLayers) THEN WithPreference(set, asked)
  ELSE WithLayers(WithPreference(set, asked), asked)

-----------------------------------------------------------------------------
(* The registry: models in order, [id, size, actual], the size it is to     *)
(* have and the one it has on disk.  A file that falls short is no model.   *)
Present(model) == model.actual > 0 /\ model.actual >= (9 * model.size) \div 10

NoModel == 0

(* The preferred one, where it is there, or the first that is.              *)
ModelOf(models, preferred) ==
  LET present == {i \in DOMAIN models : Present(models[i])}
      chosen  == {i \in present : models[i].id = preferred}
      First(S) == CHOOSE i \in S : \A j \in S : i <= j
  IN  IF present = {} THEN NoModel ELSE IF chosen # {} THEN First(chosen) ELSE First(present)

(* What the engine is loaded with, once, as the program starts: nothing     *)
(* where there is no model (spawn_model_load, Engine::load).                *)
Load(set, free, models, preferred) ==
  LET i == ModelOf(models, preferred)
  IN  IF i = NoModel THEN {} ELSE {Resolve(set, free, models[i].actual)}

(* current_resolution: what the engine was loaded with, or what the setting *)
(* would come to, of the first model and the size it is to have.            *)
UnknownSize == 2000
NoneIsPreferred == 0
Shown(loaded, set, free, models) ==
  LET i == ModelOf(models, NoneIsPreferred)
  IN  IF loaded # {} THEN CHOOSE r \in loaded : TRUE
      ELSE Resolve(set, free, IF i = NoModel THEN UnknownSize ELSE models[i].size)
=============================================================================
