----------------------------- MODULE MCChatBot -----------------------------
EXTENDS ChatBot, TLC

CONSTANTS p1, p2, p3, academico, wikipedia

(* Two messages to one bot and a third to another. *)
BotOf == p1 :> academico @@ p2 :> academico @@ p3 :> wikipedia
=============================================================================
