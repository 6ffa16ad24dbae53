---------------------------- MODULE MCMinimizers ----------------------------
(***************************************************************************)
(* A small instance of Minimizers: two kinds of block that can nest in     *)
(* each other, a load and an add that reads two variables, and a nop with  *)
(* an inner output.  What is spliced in loads a witness of its own.        *)
(***************************************************************************)
EXTENDS Minimizers

LoadBytes == Op("LoadBytes", << >>)
BeginWitnessStack == Op("BeginWitnessStack", << >>)
AddWitness == Op("AddWitness", << >>)
EndWitnessStack == Op("EndWitnessStack", << >>)

MCOperation ==
  { BeginWitnessStack, EndWitnessStack, LoadBytes, AddWitness,
    Op("BeginBuildInventory", << >>), Op("EndBuildInventory", << >>),
    Op("Nop", <<0, 1>>) }

MCSpliceWith ==
  { << Instruction(LoadBytes, << >>), Instruction(BeginWitnessStack, << >>),
       Instruction(AddWitness, <<2, 1>>), Instruction(EndWitnessStack, <<2>>) >>,
    << Instruction(Op("Nop", <<1, 0>>), << >>), Instruction(LoadBytes, << >>) >> }

ASSUME \A p \in MCSpliceWith : is_statically_valid(p)
=============================================================================
