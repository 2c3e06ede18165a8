------------------------------- MODULE MCDdr --------------------------------
(* Small boards for Ddr: windows that are wide, a single phase, empty, apart *)
(* from each other or with a hole; voltages of which some leave nothing.     *)
EXTENDS Ddr

All == Phases
AnyVoltage == [v \in Vrefs |-> All]
Eyes == {[s \in Searches |-> IF s = "m0" THEN e ELSE f] :
           e \in {0..3, 1..3, {0, 1, 3}, {2}, {3}, {}}, f \in {0..3, 1..2}}
Gates == {{<<0, 1>>, <<1, 0>>}, {<<1, 1>>}, {}}
Voltages ==
  {AnyVoltage} \cup
  {[v \in Vrefs |-> IF v \in good THEN All ELSE poor] :
     good \in {{1, 2}, {0, 1}, {2}, {3, 4}, 1..4, {1, 3, 4}, {1, 2, 4}},
     poor \in {{}, {1, 2}}}
Ddr3Boards == [eye : Eyes, read : {AnyVoltage}, write : {AnyVoltage},
               gate : [1..2 -> Gates]]
Ddr4Boards == [eye : {[s \in Searches |-> e] : e \in {0..3, 1..3, {2}}},
               read : Voltages, write : Voltages,
               gate : {[c \in 1..2 |-> {}]}]
Fuses == {[rev |-> 1, vdd |-> 20], [rev |-> 2, vdd |-> 0],
          [rev |-> 2, vdd |-> 22], [rev |-> 3, vdd |-> 51]}
Codes == {<<12, -1>>, <<13, -1>>, <<1, -1>>, <<14, -1>>, <<15, -1>>, <<-1, -1>>}
Good3 == [eye |-> [s \in Searches |-> 1..3], read |-> AnyVoltage, write |-> AnyVoltage,
          gate |-> [c \in 1..2 |-> {<<1, 0>>, <<1, 1>>}]]
\* Every clock setting on one board, every size, every board.
ClockMachines ==
  [xtal : {25, 40}, fuse : Fuses, rom : 0..3, preset : 0..4, type : {3},
   codes : {<<13, -1>>}, cs_num : {1}, board : {Good3}]
SizeMachines ==
  [xtal : {25}, fuse : {[rev |-> 2, vdd |-> 22]}, rom : {1}, preset : {2},
   type : {3, 4}, codes : Codes, cs_num : {1, 2}, board : {Good3}]
BoardMachines ==
  LET on(t, boards) ==
        [xtal : {25}, fuse : {[rev |-> 2, vdd |-> 22]}, rom : {1}, preset : {2},
         type : {t}, codes : {<<13, -1>>}, cs_num : {2}, board : boards]
  IN on(3, Ddr3Boards) \cup on(4, Ddr4Boards)
SmallMachines == ClockMachines \cup SizeMachines \cup BoardMachines
=============================================================================
