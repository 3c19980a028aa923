------------------------------ MODULE ChatRoom ------------------------------
(***************************************************************************)
(* What the chat server of hw1 promises, without sockets, events or lines: *)
(* guests come and go, a name is one guest's at a time, and a message for  *)
(* a name that a guest has goes to that guest.                             *)
(***************************************************************************)

CONSTANTS
  Guests,  \* who may come
  Names    \* names a guest may take

VARIABLES
  guests,  \* who is there
  named,   \* pairs <<g, w>>: guest g has the name w
  message  \* the name that was written to, and who got the message; or nothing

roomVars == <<guests, named, message>>

Nothing == <<>>

RoomInit == guests = {} /\ named = {} /\ message = Nothing

Has(w) == {g \in guests : <<g, w>> \in named}
Forget(g) == {h \in named : h[1] # g}

Enter(g) ==
  /\ g \notin guests
  /\ guests' = guests \cup {g}
  /\ UNCHANGED named

Leave(g) ==
  /\ g \in guests
  /\ guests' = guests \ {g}
  /\ named' = Forget(g)

TakeName(g, w) ==
  /\ g \in guests
  /\ Has(w) = {}
  /\ named' = Forget(g) \cup {<<g, w>>}
  /\ UNCHANGED guests

(* Of a name that nobody has nothing is said. *)
Tell(w, g) ==
  /\ Has(w) \subseteq {g}
  /\ message' = <<w, g>>
  /\ UNCHANGED <<guests, named>>

Quiet == UNCHANGED <<guests, named>>

RoomNext ==
  \/ \E w \in Names, g \in Guests : Tell(w, g)
  \/ /\ message' = Nothing
     /\ Quiet \/ \E g \in Guests : Enter(g) \/ Leave(g) \/ \E w \in Names : TakeName(g, w)

RoomSpec == RoomInit /\ [][RoomNext]_roomVars
=============================================================================
