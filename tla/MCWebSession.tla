---------------------------- MODULE MCWebSession ----------------------------
EXTENDS WebSession, TLC

MCSymmetry == Permutations(Tabs)

MCChats == {"inf", "mat"}
MCChannels == {"c1", "c2"}
MCTitles == {"dudas"}
MCThreads == {"t1", "t2"}

(* Two channels, the first one the user's own.                             *)
MCChannelLists ==
  {[all |-> [inf |-> "c1", mat |-> "c2"], mios |-> [inf |-> "c1"]]}

(* Threads of the same title; that of the first channel may be renamed and *)
(* its title given to another one, which has here the name of the second   *)
(* channel's: what matters is that it is not the first.                    *)
MCThreadLists == [c1 |-> {[dudas |-> "t1"], [dudas |-> "t2"]}, c2 |-> {[dudas |-> "t2"]}]
=============================================================================
