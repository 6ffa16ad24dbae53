-------------------------- MODULE MCProgramBuilder --------------------------
(***************************************************************************)
(* A small instance of ProgramBuilder: two kinds of block that can nest in *)
(* each other, a load, an add that reads two variables, nops and a load    *)
(* whose payload can be out of range.                                      *)
(***************************************************************************)
EXTENDS ProgramBuilder

MCOperation ==
  { Op("BeginWitnessStack", << >>), Op("EndWitnessStack", << >>),
    Op("BeginBuildInventory", << >>), Op("EndBuildInventory", << >>),
    Op("LoadBytes", << >>), Op("AddWitness", << >>),
    Op("Nop", <<1, 0>>), Op("Nop", <<0, 1>>),
    Op("LoadNode", <<0>>), Op("LoadNode", <<1>>) }
=============================================================================
