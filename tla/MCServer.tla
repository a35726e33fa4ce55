------------------------------ MODULE MCServer ------------------------------
(* Instances of Server for TLC.  A request is given by its tasks: *)
(*   "a", "b"   requests with one completion each                          *)
(*   "p"        a request with a parent and one child (n = 2)              *)
(*   "m"        a metrics scrape                                           *)
(*   "e"        an erase of slot s1                                        *)
(*   "t", "c"   a realtime transcription, and audio for it                 *)
EXTENDS Server

CONSTANTS s1, Kinds

MCTasks == UNION {IF k = "p" THEN {"p", "pc"} ELSE {k} : k \in Kinds}
MCOwner == [t \in MCTasks |-> IF t = "pc" THEN "p" ELSE t]
MCType == [t \in MCTasks |-> CASE t = "m" -> "metrics" [] t = "e" -> "slot_action" [] t = "t" -> "realtime"
                                 [] t = "c" -> "audio" [] OTHER -> "completion"]
MCIdSlot == [t \in MCTasks |-> IF t = "e" THEN s1 ELSE None]
MCSession == [t \in MCTasks |-> IF t = "c" THEN "t" ELSE None]
MCParentOf == [t \in MCTasks |-> IF t = "pc" THEN "p" ELSE None]

=============================================================================
