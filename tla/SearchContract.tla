--------------------------- MODULE SearchContract ---------------------------
(***************************************************************************)
(* What a search promises its callers and the search engines (server.go,   *)
(* resolver.go, harvest.go), with no goroutines, statements or contexts:   *)
(* the terms of a request are answered in order, each once, from memory,   *)
(* the search cache or the engines; at the engines one request has its     *)
(* turn; within a turn each engine's outcome is recorded once, and only a  *)
(* term with the outcomes of all of them has a live answer.  A turn may be *)
(* lost, and then the request fails: it is not taken up again.             *)
(***************************************************************************)
EXTENDS Naturals

CONSTANTS
  Requests,
  Places,    \* Places[r]: the places of the terms of request r, from 1
  Engines,   \* the set of engines
  NoOne

VARIABLES
  state,     \* state[r]: "open", "lost", "answered" or "failed"
  source,    \* source[r][k]: where the answer to term k came from, or "none"
  turn,      \* the request at the engines, or NoOne
  recorded   \* recorded[r][k]: the engines with a saved outcome for term k

vars == <<state, source, turn, recorded>>

Init ==
  /\ state = [r \in Requests |-> "open"]
  /\ source = [r \in Requests |-> [k \in Places[r] |-> "none"]]
  /\ turn = NoOne
  /\ recorded = [r \in Requests |-> [k \in Places[r] |-> {}]]

\* Term k is the one r is at.
Current(r, k) ==
  /\ state[r] = "open" /\ source[r][k] = "none"
  /\ \A l \in Places[r] : l < k => source[r][l] # "none"

Answered(r, k, from) == source' = [source EXCEPT ![r][k] = from]

Hit(r, k) ==
  /\ Current(r, k) /\ turn # r /\ recorded[r][k] = {}
  /\ \E from \in {"memory", "cache"} : Answered(r, k, from)
  /\ UNCHANGED <<state, turn, recorded>>

Begin(r, k) ==
  /\ Current(r, k) /\ turn = NoOne /\ recorded[r][k] = {}
  /\ turn' = r
  /\ UNCHANGED <<state, source, recorded>>

\* The turn ends with the last outcome.
Record(r, k, e) ==
  /\ Current(r, k) /\ turn = r /\ e \notin recorded[r][k]
  /\ recorded' = [recorded EXCEPT ![r][k] = @ \cup {e}]
  /\ turn' = IF recorded[r][k] \cup {e} = Engines THEN NoOne ELSE r
  /\ UNCHANGED <<state, source>>

Live(r, k) ==
  /\ Current(r, k) /\ turn # r /\ recorded[r][k] = Engines
  /\ Answered(r, k, "live")
  /\ UNCHANGED <<state, turn, recorded>>

\* Something fails: a turn that r has is over.
Lose(r) ==
  /\ state[r] = "open"
  /\ state' = [state EXCEPT ![r] = "lost"]
  /\ turn' = IF turn = r THEN NoOne ELSE turn
  /\ UNCHANGED <<source, recorded>>

Return(r) ==
  /\ turn # r
  /\ \/ /\ state[r] = "open" /\ \A k \in Places[r] : source[r][k] # "none"
        /\ state' = [state EXCEPT ![r] = "answered"]
     \/ /\ state[r] \in {"open", "lost"}
        /\ state' = [state EXCEPT ![r] = "failed"]
  /\ UNCHANGED <<source, turn, recorded>>

Next ==
  \E r \in Requests :
    \/ Lose(r) \/ Return(r)
    \/ \E k \in Places[r] :
         Hit(r, k) \/ Begin(r, k) \/ Live(r, k) \/ \E e \in Engines : Record(r, k, e)

Spec == Init /\ [][Next]_vars
=============================================================================
