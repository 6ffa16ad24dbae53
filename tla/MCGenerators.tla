---------------------------- MODULE MCGenerators ---------------------------
(***************************************************************************)
(* The service, with one node and a connection in each direction, in three *)
(* kinds of behaviours that tell apart which requests are made:            *)
(*   - from the very start, with init, faults and two requests that        *)
(*     build on the tip, send blocks or load outputs;                      *)
(* and on a program with a loaded Txo, a transaction that spends it and a  *)
(* block on the tip, without faults,                                       *)
(*   - one request for any generator, with every outcome;                  *)
(*   - two requests for the mutators and for a few generators that spend   *)
(*     or build on what is there.                                          *)
(***************************************************************************)
EXTENDS IrBuilder

VARIABLE asked   \* the requests of this behaviour

Beginnings == {"TipBlockGenerator", "SendBlockGenerator", "TxoGenerator"}

Rewrites == MutatorNames \cup {"TipBlockGenerator", "OneParentOneChildGenerator"}

EveryRequest == GeneratorNames \cup MutatorNames

\* One of the outcomes.
run(b, name) == append_all(b, CHOOSE s \in generate(name, b, << >>) : s # << >>)

Underway ==
  /\ asked \in {GeneratorNames, Rewrites}
  /\ builder = FoldLeft(run, append(new, I("LoadTime", << >>)),
                 <<"TxoGenerator", "SingleTxGenerator", "TipBlockGenerator">>)
  /\ compiler = new_compiler /\ call = Idle /\ sent = << >> /\ errors = << >>
  /\ service = [initialized |-> TRUE, poisoned |-> FALSE, syncing |-> FALSE,
                connections |-> [k \in 1 .. num_connections |-> connect(meta(k))],
                connection_metas |-> metas(num_connections), recent_blocks |-> << >>]
  /\ node = [sent |-> {}, heights |-> Snapshot :> Snapshot.snapshot, tip |-> Snapshot]
  /\ workload = [ready |-> TRUE,
                 requests |-> IF asked = Rewrites THEN 0 ELSE MaxRequests - 1,
                 faults |-> MaxFaults, rewritten |-> FALSE]

MCInit ==
  \/ Underway
  \/ asked = Beginnings /\ IrInit

MCNext ==
  /\ \/ \E k \in 0 .. num_connections - 1 : InitFails(k)
     \/ \E answered \in BOOLEAN : InitSucceeds(answered)
     \/ \E name \in asked \cap GeneratorNames : apply_generator(name)
     \/ \E name \in asked \cap MutatorNames : apply_mutator(name)
     \/ Compile
     \/ Send
     \/ Sync
     \/ \E k \in DOMAIN service.connections : Drop(k)
     \/ \E block \in node.sent : Accept(block)
  /\ UNCHANGED asked

MCSpec == MCInit /\ [][MCNext]_<<vars, asked>>
=============================================================================
