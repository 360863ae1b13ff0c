---------------------------- MODULE DiscoveryView ----------------------------
(***************************************************************************)
(* What the discovery materialiser promises about the personalised list a  *)
(* viewer is shown, whatever batches, leases and rows produce it.          *)
(*                                                                         *)
(* A viewer's list is replaced only as a whole.  The list that replaces it *)
(* is computed from the library the viewer has at that moment, and from a  *)
(* catalog that is no older than the one behind the list it replaces: two  *)
(* builders that overtake each other never bring an old list back.         *)
(***************************************************************************)
EXTENDS Naturals

CONSTANTS Users,   \* the viewers
          None     \* no list yet

VARIABLES library,   \* library[u]: the revision of u's favourites and playlists
          catalog,   \* the revision of the public songs
          view       \* view[u]: what the list shown to u was computed from

vars == <<library, catalog, view>>

Lists == [seeds : Nat, data : Nat]

Init == /\ library \in [Users -> {0, 1}]
        /\ catalog = 0
        /\ view = [u \in Users |-> None]

\* The users' favourites and playlists change.
EditLibrary == /\ \E us \in SUBSET Users :
                    library' = [u \in Users |-> IF u \in us THEN library[u] + 1
                                                            ELSE library[u]]
               /\ UNCHANGED <<catalog, view>>

\* A synchronised song changes.
ChangeCatalog == /\ catalog' = catalog + 1
                 /\ UNCHANGED <<library, view>>

\* The oldest catalog the next list of u may come from.
Oldest(u) == IF view[u] = None THEN 0 ELSE view[u].data

\* u is given a list computed from the library u has now.
Show(u) == /\ \E d \in Oldest(u)..catalog :
                view' = [view EXCEPT ![u] = [seeds |-> library[u], data |-> d]]
           /\ UNCHANGED <<library, catalog>>

Next == EditLibrary \/ ChangeCatalog \/ (\E u \in Users : Show(u))

Spec == Init /\ [][Next]_vars
=============================================================================
