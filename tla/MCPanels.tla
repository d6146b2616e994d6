------------------------------ MODULE MCPanels ------------------------------
(* Panels on a small instance. *)
EXTENDS Panels

\* Sources are told apart by equality only, and so are levers.
Symmetry == Permutations(Sources) \cup Permutations(Levers)

\* Once the two have parted nothing more is asked until a new engine is pushed.
Together == apart = {}

\* Every operation, or two hardware levers beside another console.
AllOrLevers == { {"take", "cut", "fade", "auto", "preview", "position", "transition", "key", "gui"},
                 {"auto", "position"} \cup Levers }
=============================================================================
