----------------------------- MODULE MCWorkspace -----------------------------
(* Small instances of Workspace: what clients register, name and import.     *)
(* The input that they register has the id of an ME that a larger layout     *)
(* brings.                                                                   *)
EXTENDS Workspace

FourCams == <<"cam-1", "cam-2", "cam-3", "cam-4">>
OneMore == {Input("me-2", "live")}
TwoRekinds == {Input("cam-1", "clip"), Input("clip-1", "black")}
Keys4 == {[mode |-> "linear", src |-> None], [mode |-> "luma", src |-> "cam-2"],
          [mode |-> "pip", src |-> "me-3"], [mode |-> "luma", src |-> None]}
Starts == {[pgm |-> None, pvw |-> None], [pgm |-> "cam-2", pvw |-> "cam-2"],
           [pgm |-> None, pvw |-> "me-3"]}

\* A console of three MEs with a key, exported after a smaller layout left a bus
\* of ME 3 without its ME.
Elsewhere ==
  [Defaults(3) EXCEPT !.keys = 1, !.mes = 3,
     !.panels = << [pgm |-> "cam-2", pvw |-> "me-3", ties |-> {1}, bkgd |-> FALSE],
                   [pgm |-> "me-3", pvw |-> "black", ties |-> {}, bkgd |-> TRUE],
                   [pgm |-> "clip-1", pvw |-> "me-4", ties |-> {}, bkgd |-> TRUE] >>,
     !.keyers = << << [mode |-> "pip", src |-> "me-2", on |-> TRUE] >>, << NewKeyer >>,
                   << NewKeyer >> >>]
OneDoc == {Elsewhere}
=============================================================================
