---------------------------- MODULE MCTgSession ----------------------------
(***************************************************************************)
(* TgSession on five updates, which between them take every path of        *)
(* send_command.  The first two updates glue to less than a chunk, any     *)
(* other two fill one.  The echo has no text: it ends without a message.   *)
(***************************************************************************)
EXTENDS TgSession

Mix == LET kinds == <<"search", "document", "echo", "foreign", "lookup">>
       IN  [u \in Ids |-> kinds[u]]

MixedSizes == [u \in Ids |-> IF u <= 2 THEN 2 ELSE 3]
MixedParts == [u \in Ids |-> IF Kind[u] = "echo" THEN 0 ELSE 2]
============================================================================
