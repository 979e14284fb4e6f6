------------------------------ MODULE MCStorage ------------------------------
(* ConfigStore and DatabaseFile on small instances, for TLC.  They share no  *)
(* variable: a behaviour explores the one or the other.                      *)
EXTENDS ConfigStore, DatabaseFile

CONSTANTS n1, n2, v1, v2

(* A file edited by hand: no places, an interval that is too short, and no *)
(* settings; one whose places go backwards; an empty one.                  *)
HandMade ==
  {[rows |-> <<[name |-> n1, interval |-> 3, order |-> NoOrder]>>,
    values |-> [k \in Keys |-> Unset]],
   [rows |-> <<[name |-> n1, interval |-> 5, order |-> 4],
               [name |-> n2, interval |-> 5, order |-> -2]>>,
    values |-> [k \in Keys |-> v1]],
   [rows |-> <<>>, values |-> [k \in Keys |-> Unset]]}

(* Migration groups of two, one and three columns; a file of two pages. *)
MCGroups == <<<<"max_retries", "consecutive_fails">>, <<"is_public">>, <<"method", "headers", "body">>>>
MCPages == 1..2

VARIABLE part

StorageInit ==
  /\ part \in {"store", "file"}
  /\ Init /\ FileInit
  /\ part = "store" => flag = NoPath /\ env = NoPath /\ columns = {}
StorageNext ==
  \/ part = "store" /\ Next /\ UNCHANGED <<part, fileVars>>
  \/ part = "file" /\ FileNext /\ UNCHANGED <<part, vars>>
StorageSpec == StorageInit /\ [][StorageNext]_<<part, vars, fileVars>>
=============================================================================
