---------------------------- MODULE NodeWrapper -----------------------------
(***************************************************************************)
(* The entry point of a node's container (images/bitcoin/                  *)
(* bitcoin-node-wrapper.sh).  A node keeps a personality in two files of   *)
(* its data directory: the structural flags, and one inclusion weight per  *)
(* tunable.  The values of the tunables are drawn at every boot.           *)
(*                                                                         *)
(* The container may be killed before or after every command, and starts   *)
(* over.  A file in a data directory is << >> as long as it does not exist *)
(* and <<content>> from then on.                                           *)
(***************************************************************************)
EXTENDS Naturals, FiniteSets

CONSTANTS
  HOSTNAME,
  Archival,       \* the name of the node that must not prune, "node1"
  TUNABLES,
  known,          \* the options that this binary documents
  Values,         \* values of `prune`, and of a tunable
  Weights,
  MaxBoots       \* bound: starts of the container

Indexes == {"txindex", "txospenderindex", "coinstatsindex", "blockfilterindex"}

VARIABLES
  STABLE,         \* the file of structural flags, a function from options to values
  WEIGHTS,        \* the file of weights, a function from tunables to weights
  wrapper,        \* where the script is, its variables, and the boots so far
  ran             \* history: the personalities that the node was run with

wrapper_vars == <<STABLE, WEIGHTS, wrapper, ran>>

NothingDrawn == [flag \in {} |-> 0]

WrapperInit ==
  /\ STABLE = << >> /\ WEIGHTS = << >>
  /\ wrapper = [at |-> "stable", drawn |-> NothingDrawn, weight |-> NothingDrawn,
                flags |-> NothingDrawn, boots |-> 1]
  /\ ran = {}

Line(command) == wrapper.at = command

\* "node1 never prunes".
may_prune == HOSTNAME # Archival /\ "prune" \in known

\* The structural flags a node may draw: `prune` with or without `fastprune`,
\* or any of the indexes.
StructuralFlags ==
  (IF may_prune
   THEN UNION {{[flag \in {"prune"} \cup fast |-> value] : value \in Values}
                 : fast \in SUBSET ({"fastprune"} \cap known)}
   ELSE {})
  \cup {[flag \in indexes |-> 1] : indexes \in SUBSET (Indexes \cap known)}

\* Mutant of needs_draw: a file without flags in it counts as missing.
needs_draw_empty == STABLE = << >> \/ STABLE = <<NothingDrawn>>

needs_draw == STABLE = << >>

Draw ==
  /\ Line("stable") /\ needs_draw
  /\ \E stable \in StructuralFlags :
       wrapper' = [wrapper EXCEPT !.at = "truncate", !.drawn = stable]
  /\ UNCHANGED <<STABLE, WEIGHTS, ran>>

\* `> "$STABLE"` creates the file before printf has anything to write.
Truncate ==
  /\ Line("truncate")
  /\ STABLE' = <<NothingDrawn>>
  /\ wrapper' = [wrapper EXCEPT !.at = "printf"]
  /\ UNCHANGED <<WEIGHTS, ran>>

Printf ==
  /\ Line("printf")
  /\ STABLE' = <<wrapper.drawn>>
  /\ wrapper' = [wrapper EXCEPT !.at = "read"]
  /\ UNCHANGED <<WEIGHTS, ran>>

ReadFiles ==
  /\ \/ Line("read")
     \/ Line("stable") /\ ~ needs_draw
  /\ wrapper' = [wrapper EXCEPT
       !.at = "weights",
       !.flags = STABLE[1],
       !.weight = IF WEIGHTS = << >> THEN NothingDrawn ELSE WEIGHTS[1]]
  /\ UNCHANGED <<STABLE, WEIGHTS, ran>>

missing == TUNABLES \ DOMAIN wrapper.weight

With(f, flag, value) ==
  [x \in DOMAIN f \cup {flag} |-> IF x = flag THEN value ELSE f[x]]

\* One turn of the loop that fills in the weights; the entry is appended to
\* the file at once.
DrawWeight ==
  /\ Line("weights")
  /\ \E flag \in missing : \E w \in Weights :
       /\ wrapper' = [wrapper EXCEPT !.weight = With(@, flag, w)]
       /\ WEIGHTS' = <<With(IF WEIGHTS = << >> THEN NothingDrawn ELSE WEIGHTS[1], flag, w)>>
  /\ UNCHANGED <<STABLE, ran>>

\* The tunables are drawn, and the node replaces the script.
Exec ==
  /\ Line("weights") /\ missing = {}
  /\ wrapper' = [wrapper EXCEPT !.at = "node"]
  /\ ran' = ran \cup {[structural |-> wrapper.flags, weights |-> wrapper.weight]}
  /\ UNCHANGED <<STABLE, WEIGHTS>>

Killed ==
  /\ wrapper.boots < MaxBoots
  /\ wrapper' = [at |-> "stable", drawn |-> NothingDrawn, weight |-> NothingDrawn,
                 flags |-> NothingDrawn, boots |-> wrapper.boots + 1]
  /\ UNCHANGED <<STABLE, WEIGHTS, ran>>

WrapperNext ==
  Draw \/ Truncate \/ Printf \/ ReadFiles \/ DrawWeight \/ Exec \/ Killed

WrapperSpec == WrapperInit /\ [][WrapperNext]_wrapper_vars

-----------------------------------------------------------------------------
(* Property *)

\* "Structural flags: drawn once, reused across restarts", and "one inclusion
\* weight per tunable, drawn once": wherever boots are cut off, the node is
\* only ever run with one personality.
OnePersonality == Cardinality(ran) <= 1
=============================================================================
