--------------------------- MODULE PublishedTable ---------------------------
(***************************************************************************)
(* What a data base promises to the rest of a node: it is a table, and     *)
(* each call does to it what the operators of Table say.  Flooding uses    *)
(* the table in this form; Database.tla implements it.                     *)
(***************************************************************************)
EXTENDS Table

CONSTANT me       \* the Id of the node that has the table

VARIABLE tab

Init ==
  \E s \in Seqno \ {UNSET} :
    tab = [i \in Node |->
             IF i = me THEN [seqno |-> s, text |-> Empty] ELSE None]

Receive(i, d) ==
  /\ UpdatesFresh(d)
  /\ tab' = UpdateDataBase(tab, me, i, d)

Publish(c) == tab' = UpdateMyData(tab, me, c)

Next ==
  \/ \E i \in Node, d \in Data : Receive(i, d)
  \/ \E c \in Content \ {Empty} : Publish(c)

Spec == Init /\ [][Next]_tab
=============================================================================
