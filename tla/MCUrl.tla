------------------------------- MODULE MCUrl -------------------------------
(* Instances of Url: the URLs and settings of the configurations. *)
EXTENDS Url

CONSTANTS page, image

Gemini == [u \in Url |-> "gemini"]
File == [u \in Url |-> "file"]
PageAndFile == [u \in Url |-> IF u = page THEN "http" ELSE "file"]
OneSlot == {[net |-> 1, local |-> 1, fast |-> TRUE]}
OneSlotOrTwoFast == {[net |-> 1, local |-> 1, fast |-> FALSE], [net |-> 2, local |-> 2, fast |-> TRUE]}
=============================================================================
