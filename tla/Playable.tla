------------------------------- MODULE Playable -------------------------------
(* What the media library promises to those who play from it: an item comes   *)
(* once and goes for good, and what it plays in a format is there until a     *)
(* newer conversion replaces it, whatever jobs are queued, cancelled, failed, *)
(* stopped or resumed.  Only what breaks off in the middle of putting new     *)
(* files in place, or of removing an item, may lose it.                       *)
CONSTANTS Items, Formats, Options, None

VARIABLES
  life,   \* of each item: "none", "stored" or "gone"
  plays,  \* the options that what it plays was made with, None when it plays nothing
  torn    \* files were left in the middle of being put in place or removed

vars == <<life, plays, torn>>

Nothing == [f \in Formats |-> None]

Init ==
  /\ life = [i \in Items |-> "none"] /\ plays = [i \in Items |-> Nothing] /\ torn = FALSE

Add(i) ==
  /\ life[i] = "none" /\ life' = [life EXCEPT ![i] = "stored"]
  /\ UNCHANGED <<plays, torn>>

\* What was placed and got no item is given up; what is being removed may be gone.
Abandon(S) ==
  /\ life' = [i \in Items |-> IF i \in S THEN "gone" ELSE life[i]]
  /\ plays' = [i \in Items |-> IF i \in S THEN Nothing ELSE plays[i]]
  /\ torn' \in {torn, TRUE}

Replace(i, f, o) ==
  /\ life[i] = "stored" /\ plays' = [plays EXCEPT ![i][f] = o]
  /\ UNCHANGED <<life, torn>>

Remove(i) ==
  /\ life[i] = "stored" /\ life' = [life EXCEPT ![i] = "gone"]
  /\ plays' = [plays EXCEPT ![i] = Nothing] /\ UNCHANGED torn

\* A restart, a new job or the end of one finds the files torn.
Lose(L) ==
  /\ torn
  /\ plays' = [i \in Items |-> [f \in Formats |-> IF <<i, f>> \in L THEN None ELSE plays[i][f]]]
  /\ UNCHANGED <<life, torn>>

Next ==
  \/ \E i \in Items : Add(i) \/ Remove(i)
  \/ \E i \in Items, f \in Formats, o \in Options : Replace(i, f, o)
  \/ \E S \in SUBSET Items : Abandon(S)
  \/ \E L \in SUBSET (Items \X Formats) : Lose(L)

Spec == Init /\ [][Next]_vars
=============================================================================
