--------------------------- MODULE ElementStorage ---------------------------
(***************************************************************************)
(* What memory tokens promise for the elements in them, without blocks,    *)
(* directories or contexts: each token holds a sequence of elements, each  *)
(* in a place of its own, and a stable token that grows moves none.        *)
(***************************************************************************)
EXTENDS Integers, Sequences

CONSTANTS
    Tokens,
    Values,             \* what an element may be set to
    Fresh               \* what memory nobody has written may hold

VARIABLES
    contents,           \* the elements of each token
    places,             \* where each of them is
    stable              \* the tokens whose elements do not move

vars == <<contents, places, stable>>

Init ==
    /\ contents = [t \in Tokens |-> <<>>]
    /\ places = [t \in Tokens |-> <<>>]
    /\ stable = {}

OthersKeep(ts) ==
    \A u \in Tokens \ ts :
      (u \in stable' <=> u \in stable) /\ contents'[u] = contents[u] /\ places'[u] = places[u]

\* The first `kept` elements keep their values, those behind them are fresh.
Resize(t, kept) ==
    /\ UNCHANGED stable /\ OthersKeep({t})
    /\ kept <= Len(contents'[t])
    /\ SubSeq(contents'[t], 1, kept) = SubSeq(contents[t], 1, kept)
    /\ \A i \in kept + 1 .. Len(contents'[t]) : contents'[t][i] \in Fresh

\* All elements are given up for new ones elsewhere.
Replace(t) ==
    /\ Resize(t, 0)
    /\ \A i \in DOMAIN places[t], j \in DOMAIN places'[t] : places[t][i] # places'[t][j]

Reallocate(t, kept) == t \notin stable /\ Resize(t, kept)

Grow(t) ==
    /\ t \in stable
    /\ Len(contents'[t]) > Len(contents[t])
    /\ Resize(t, Len(contents[t]))
    /\ SubSeq(places'[t], 1, Len(places[t])) = places[t]

Set(t, i, v) ==
    /\ contents' = [contents EXCEPT ![t][i] = v]
    /\ UNCHANGED <<places, stable>>

Clone(t, s) ==
    /\ t \in stable' <=> s \in stable
    /\ contents'[t] = contents[s]
    /\ OthersKeep({t})

Move(t, s) ==
    /\ contents'[s] = <<>> /\ places'[s] = <<>>
    /\ s \in stable' <=> s \in stable
    /\ t \in stable' <=> s \in stable
    /\ contents'[t] = contents[s] /\ places'[t] = places[s]
    /\ OthersKeep({t, s})

\* An empty token is told how to store its elements.
Configure(t) == stable' = stable \cup {t} /\ contents[t] = <<>> /\ UNCHANGED <<contents, places>>

Next ==
    \/ \E t \in Tokens :
         \/ Grow(t) \/ Replace(t) \/ Configure(t)
         \/ \E kept \in 0 .. Len(contents[t]) : Reallocate(t, kept)
         \/ \E i \in DOMAIN contents[t], v \in Values : Set(t, i, v)
    \/ \E t, s \in Tokens : Clone(t, s) \/ (s # t /\ Move(t, s))

Spec == Init /\ [][Next]_vars
=============================================================================
