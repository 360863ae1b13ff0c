----------------------------- MODULE LibraryView -----------------------------
(***************************************************************************)
(* What playlists and favourites promise to the rest of the system,        *)
(* whatever rows, positions and locks keep them.                           *)
(*                                                                         *)
(* A playlist is a sequence of songs and a set of people, its owner among  *)
(* them.  Each edit happens at once.  An edit that changes what somebody's *)
(* recommendations are computed from announces it to that person in the    *)
(* same step; that is what module Discovery relies on.  The one exception  *)
(* is an account that is deleted with the playlists it owns.               *)
(***************************************************************************)
EXTENDS Naturals, Sequences, SequencesExt

CONSTANTS Users, Lists, Songs

VARIABLES order,      \* order[p]: the songs of p, in order
          people,     \* people[p]: who sees p; nobody if p does not exist
          favorite,   \* favorite[u]: the favourite songs of u
          version     \* version[u]: how often u was told of a change

vars == <<order, people, favorite, version>>

Init == /\ order \in [Lists -> Seq(Songs)]
        /\ people \in [Lists -> SUBSET Users]
        /\ favorite = [u \in Users |-> {}]
        /\ version = [u \in Users |-> 0]

\* The users in us, and perhaps others, are told.
Told(us) == /\ \A u \in us : version'[u] = version[u] + 1
            /\ \A u \in Users : version'[u] \in {version[u], version[u] + 1}

Add(p, s) == /\ s \notin ToSet(order[p])
             /\ order' = [order EXCEPT ![p] = Append(@, s)]
             /\ Told(people[p])
             /\ UNCHANGED <<people, favorite>>

\* The song at place i.
Drop(p, i) == /\ order' = [order EXCEPT ![p] = RemoveAt(@, i)]
              /\ Told(people[p])
              /\ UNCHANGED <<people, favorite>>

\* Two neighbours change places; nobody's recommendations depend on it.
Swap(p, i) == /\ order' = [order EXCEPT ![p] = [@ EXCEPT ![i] = order[p][i + 1],
                                                       ![i + 1] = order[p][i]]]
              /\ UNCHANGED <<people, favorite, version>>

Join(p, u) == /\ people[p] # {} /\ u \notin people[p]
              /\ people' = [people EXCEPT ![p] = @ \cup {u}]
              /\ Told({u})
              /\ UNCHANGED <<order, favorite>>

Quit(p, u) == /\ u \in people[p] /\ people[p] # {u}
              /\ people' = [people EXCEPT ![p] = @ \ {u}]
              /\ Told({u})
              /\ UNCHANGED <<order, favorite>>

Create(p, u) == /\ people[p] = {}
                /\ people' = [people EXCEPT ![p] = {u}]
                /\ UNCHANGED <<order, favorite, version>>

Delete(p) == /\ people[p] # {}
             /\ people' = [people EXCEPT ![p] = {}]
             /\ order' = [order EXCEPT ![p] = << >>]
             /\ Told(people[p])
             /\ UNCHANGED favorite

Favour(u, ss) == /\ favorite' = [favorite EXCEPT ![u] = ss]
                 /\ Told({u})
                 /\ UNCHANGED <<order, people>>

\* Nothing changes for anybody; somebody is told all the same.
Tell == Told({}) /\ UNCHANGED <<order, people, favorite>>

\* An account is deleted: u is in no playlist any more, some playlists are gone.
Close(u) == \E gone \in SUBSET {p \in Lists : u \in people[p]} :
  /\ people' = [p \in Lists |-> IF p \in gone THEN {} ELSE people[p] \ {u}]
  /\ order' = [p \in Lists |-> IF p \in gone THEN << >> ELSE order[p]]
  /\ favorite' = [favorite EXCEPT ![u] = {}]
  /\ version' = [version EXCEPT ![u] = 0]

Edit ==
  \/ \E p \in Lists, s \in Songs : Add(p, s)
  \/ \E p \in Lists : Delete(p)
  \/ \E p \in Lists : \E i \in 1..Len(order[p]) : Drop(p, i)
  \/ \E p \in Lists : \E i \in 1..(Len(order[p]) - 1) : Swap(p, i)
  \/ \E p \in Lists, u \in Users : Join(p, u) \/ Quit(p, u) \/ Create(p, u)
  \/ \E u \in Users, ss \in SUBSET Songs : Favour(u, ss)
  \/ \E u \in Users : Close(u)
  \/ Tell

Next == vars' # vars /\ Edit

Spec == Init /\ [][Next]_vars
=============================================================================
