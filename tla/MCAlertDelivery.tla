--------------------------- MODULE MCAlertDelivery ---------------------------
(* AlertDelivery on small instances, for TLC. *)
EXTENDS AlertDelivery

CONSTANTS tokenA, chatA, chatB

(* A working set-up, and one whose token was left empty. *)
SomeConfigs ==
  {[enabled |-> TRUE, token |-> tokenA, chat |-> chatA, thread |-> NoText],
   [enabled |-> TRUE, token |-> NoText, chat |-> chatB, thread |-> 7]}

SomeZones == {[offset |-> 420, abbr |-> 420], [offset |-> 0, abbr |-> 0]}

(* All settings, and some of each group. *)
SomeBackups == {AllOf(ConfigKeys) \cup AllOf(ZoneKeys), {"chat", "offset"}}
=============================================================================
