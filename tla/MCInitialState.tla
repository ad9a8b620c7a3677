--------------------------- MODULE MCInitialState ---------------------------
(* Two computational cells, one halo cell that repeats one of them and one  *)
(* that lies beyond a closed boundary.                                      *)
EXTENDS InitialState

TheLayers == -1 .. 2
TheAngstroms == -1 .. 3
TheDepths == 0 .. 6
TheCells == {"west", "east"}
TheHalo == {"repeats_west", "outside"}
TheFrom == [c \in TheHalo |-> IF c = "outside" THEN "beyond" ELSE "west"]

=============================================================================
