--------------------------- MODULE CharacterStore ---------------------------
(***************************************************************************)
(* What the servers promise about the progress of characters, with         *)
(* packets, tokens, clients and routes left out: there is a row for each   *)
(* character; a zone that plays it takes a copy of the row as it is, when  *)
(* no other zone has one; and what is achieved is written to the copy and  *)
(* to the row in one step, so that a zone may lose its copies at any time. *)
(*                                                                         *)
(* It abstracts the column state_json of the characters, written by        *)
(* Database::updateCharacterState, and the players_ of the zone servers.   *)
(***************************************************************************)
EXTENDS Integers

CONSTANTS Characters, Zones

VARIABLES
    row,        \* character -> how far it has come, in the database
    copies      \* character -> the copies zones play: [zone, state]

svars == <<row, copies>>

Init ==
    /\ row = [c \in Characters |-> 0]
    /\ copies = [c \in Characters |-> {}]

\* A zone takes over a character that nobody has.
Take(c, z) ==
    /\ copies[c] = {}
    /\ copies' = [copies EXCEPT ![c] = {[zone |-> z, state |-> row[c]]}]
    /\ UNCHANGED row

\* Who has it brings it one step further.
Advance(c, mine) ==
    /\ mine \in copies[c]
    /\ copies' = [copies EXCEPT ![c] =
                      (@ \ {mine}) \cup {[mine EXCEPT !.state = @ + 1]}]
    /\ row' = [row EXCEPT ![c] = mine.state + 1]

LetGo(c, mine) ==
    /\ mine \in copies[c]
    /\ copies' = [copies EXCEPT ![c] = @ \ {mine}]
    /\ UNCHANGED row

\* A zone loses all it has.
Lose(z) ==
    /\ copies' = [c \in Characters |-> {mine \in copies[c] : mine.zone # z}]
    /\ UNCHANGED row

Next ==
    \/ \E c \in Characters :
           \/ \E z \in Zones : Take(c, z)
           \/ \E mine \in copies[c] : Advance(c, mine) \/ LetGo(c, mine)
    \/ \E z \in Zones : Lose(z)

Spec == Init /\ [][Next]_svars
=============================================================================
